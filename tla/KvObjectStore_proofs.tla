------------------------- MODULE KvObjectStore_proofs -------------------------
(***************************************************************************)
(* Proofs about KvObjectStore for all sets of clients, identities and       *)
(* payloads of bounded length, and any number of calls and damages.         *)
(***************************************************************************)
EXTENDS KvObjectStore, SequenceTheorems, TLAPS

-----------------------------------------------------------------------------
(* The inductive invariant *)

\* The locals l of a call, T being the payloads tried: a store works on a
\* payload it was called with, a load on the manifest of such a payload, and no
\* index leaves the object's chunks.
GoodLocals(l, T) ==
    /\ l \in Locals
    /\ l.pc \in {"fetch", "validate", "hide", "sweep"} => l.manifest \in Manifest
    /\ l.pc \in {"put", "compare", "publish", "recheck", "raised"} =>
         l.id \in Identities /\ l.payload \in T[l.id]
    /\ l.pc \in {"put", "compare"} => l.index \in 1 .. ChunkCount(l.payload)
    /\ l.pc \in {"fetch", "validate"} =>
         l.id \in Identities /\ l.manifest.sha256 \in T[l.id] \cup {<<>>}
    /\ l.pc = "fetch" => Len(l.got) < l.manifest.chunks
    /\ l.pc \in {"reload", "hide", "sweep", "unlink"} => l.id \in Identities
    /\ l.pc \in {"hide", "sweep"} => l.index \in 1 .. l.manifest.chunks

\* A manifest under the key of the identity it names has the checksum of a
\* payload a store of that identity was called with, or of none.
ManifestsTried ==
    \A id \in Identities :
        IsManifest(records[ManifestKey(id)]) /\ records[ManifestKey(id)].identity = id
          => records[ManifestKey(id)].sha256 \in tried[id] \cup {<<>>}

\* The records of an identity no store of which overlapped a delete, on a
\* device that has damaged nothing, are parts of payloads that were stored.
RecordsSound(id) ==
    /\ records[ManifestKey(id)] = None
         \/ \E p \in tried[id] : records[ManifestKey(id)] = ManifestOf(id, p)
    /\ \A i \in 1 .. MaxChunks :
         records[ChunkKey(id, i)] = None
           \/ \E p \in tried[id] : records[ChunkKey(id, i)] = ChunkOf(p, i)

\* What VisibleIsWhole says of one identity.
WholeObject(id) ==
    LET v == records[ManifestKey(id)] IN
    /\ v # None => \A i \in 1 .. v.chunks :
                      records[ChunkKey(id, i)] = ChunkOf(v.sha256, i)
    /\ \A p \in acked[id] : v = ManifestOf(id, p)

\* While it is being deleted no store of it is under way or acknowledged, and
\* its chunks go only after its manifest.
DeletesSound(id) ==
    \A d \in Clients : Deleting(d) /\ at[d].id = id =>
        /\ acked[id] = {}
        /\ \A c \in Clients : ~ (Storing(c) /\ at[c].id = id)
        /\ at[d].pc = "sweep" => records[ManifestKey(id)] = None

\* The chunks a store has passed are its own, what it found present is still
\* present, and it raises only for another payload.
StoreSound(c, id) ==
    /\ at[c].pc \in {"put", "compare"} => \A i \in 1 .. at[c].index - 1 :
         records[ChunkKey(id, i)] = ChunkOf(at[c].payload, i)
    /\ at[c].pc \in {"publish", "recheck"} =>
         \A i \in 1 .. ChunkCount(at[c].payload) :
           records[ChunkKey(id, i)] = ChunkOf(at[c].payload, i)
    /\ at[c].pc = "compare" => records[ChunkKey(id, at[c].index)] # None
    /\ at[c].pc = "recheck" => records[ManifestKey(id)] # None
    /\ at[c].pc = "raised" => tried[id] # {at[c].payload}

StoresSound(id) == \A c \in Clients : at[c].id = id => StoreSound(c, id)

Calm(id) ==
    /\ RecordsSound(id)
    /\ WholeObject(id)
    /\ DeletesSound(id)
    /\ StoresSound(id)

CalmInv(id) == id \notin overlapped /\ damages = 0 => Calm(id)

\* The inductive invariant.
IInv ==
    /\ TypeOK
    /\ \A c \in Clients : GoodLocals(at[c], tried)
    /\ ManifestsTried
    /\ \A id \in Identities : CalmInv(id)

-----------------------------------------------------------------------------
(* Chunks and manifests *)

\* Rounding a quotient up is monotone, and at least one from one byte on.
LEMMA CeilingFacts ==
    ASSUME NEW b \in Nat, b > 0, NEW n \in Nat, n > 0
    PROVE  /\ (n + b - 1) \div b \in Nat
           /\ (n + b - 1) \div b >= 1
           /\ \A m \in Nat : m <= n => (m + b - 1) \div b <= (n + b - 1) \div b
<1>1. n + b - 1 \in Nat /\ n + b - 1 >= b
  OBVIOUS
<1>2. (n + b - 1) \div b \in Nat /\ (n + b - 1) \div b # 0
  BY <1>1
<1>3. ASSUME NEW m \in Nat, m <= n PROVE (m + b - 1) \div b <= (n + b - 1) \div b
  BY <1>3
<1>. QED
  BY <1>2, <1>3

\* make_object_plan of any payload has a chunk, and no more than MaxChunks.
LEMMA ChunkCounts ==
    /\ MaxChunks \in Nat
    /\ \A p \in Payloads : ChunkCount(p) \in 1 .. MaxChunks
<1>1. \A p \in Payloads : Len(p) \in Nat /\ Len(p) > 0
  BY KvStoreAssumption
<1>2. MaxValueBytes \in Nat /\ MaxValueBytes > 0
  BY KvStoreAssumption
<1>3. \A p \in Payloads : ChunkCount(p) \in Nat /\ ChunkCount(p) >= 1
  BY <1>1, <1>2, CeilingFacts DEF ChunkCount
<1>4. PICK p \in Payloads : \A q \in Payloads : Len(q) <= Len(p)
  BY KvStoreAssumption
<1>5. \A q \in Payloads : ChunkCount(q) <= ChunkCount(p)
  BY <1>1, <1>2, <1>4, CeilingFacts DEF ChunkCount
<1>6. \E n \in {ChunkCount(q) : q \in Payloads} : \A q \in Payloads : ChunkCount(q) <= n
  BY <1>5
<1>7. /\ MaxChunks \in {ChunkCount(q) : q \in Payloads}
      /\ \A q \in Payloads : ChunkCount(q) <= MaxChunks
  BY <1>6 DEF MaxChunks
<1>. QED
  BY <1>3, <1>7

\* A chunk of a payload is a chunk, and not the absence of one.
LEMMA ChunkTypes ==
    ASSUME NEW p \in Payloads, NEW i \in Nat, i >= 1
    PROVE  ChunkOf(p, i) \in Chunk /\ ChunkOf(p, i) # None
<1>. DEFINE m == (i - 1) * MaxValueBytes + 1
            n == IF i * MaxValueBytes < Len(p) THEN i * MaxValueBytes ELSE Len(p)
<1>1. MaxValueBytes \in Nat /\ p \in Seq(Nat) /\ Len(p) \in Nat
  BY KvStoreAssumption
<1>2. m \in Int /\ m >= 1 /\ n \in Int /\ n <= Len(p)
  BY <1>1
<1>3. \A j \in m .. n : p[j] \in Nat
  BY <1>1, <1>2
<1>. HIDE DEF m, n
<1>4. SubSeq(p, m, n) \in Seq(Nat)
  BY <1>2, <1>3, SubSeqProperties
<1>5. ChunkOf(p, i) = [bytes |-> SubSeq(p, m, n)]
  BY DEF ChunkOf, m, n
<1>6. \A b \in Seq(Nat) : [bytes |-> b] \in [bytes : Seq(Nat)]
  OBVIOUS
<1>7. ChunkOf(p, i) \in [bytes : Seq(Nat)]
  BY <1>4, <1>5, <1>6
<1>. QED
  BY <1>7, KvStoreAssumption DEF Chunk

\* A manifest of a payload is a manifest decode_manifest accepts.
LEMMA ManifestTypes ==
    ASSUME NEW p \in Payloads, NEW id \in Identities \cup {Foreign}
    PROVE  /\ ManifestOf(id, p) \in Manifest
           /\ ManifestOf(id, p) # None
           /\ IsManifest(ManifestOf(id, p))
           /\ ManifestOf(id, p).identity = id
           /\ ManifestOf(id, p).sha256 = p
           /\ ManifestOf(id, p).chunks = ChunkCount(p)
<1>1. Len(p) \in Nat \ {0} /\ ChunkCount(p) \in 1 .. MaxChunks /\ MaxChunks \in Nat
  BY ChunkCounts, KvStoreAssumption
<1>2. ManifestOf(id, p) \in Manifest
  BY <1>1 DEF ManifestOf, Manifest
<1>3. ManifestOf(id, p) # None
  BY <1>1, KvStoreAssumption DEF ManifestOf
<1>. QED
  BY <1>1, <1>2, <1>3 DEF ManifestOf, IsManifest, ValidManifest

\* What decode_manifest accepts of a typed record is a manifest.
LEMMA DecodedManifest ==
    ASSUME NEW v \in {None} \cup Chunk \cup Manifest, IsManifest(v)
    PROVE  v \in Manifest
BY DEF IsManifest, Chunk, Manifest

\* A damaged manifest that keeps its identity is still one by its type.
LEMMA AlteredManifest ==
    ASSUME NEW v \in Manifest, NEW m \in Altered(v)
    PROVE  m \in Manifest
<1>1. MaxChunks * MaxValueBytes \in Nat
  BY ChunkCounts, KvStoreAssumption
<1>. QED
  BY <1>1 DEF Altered, Manifest

\* The device's keys: one manifest key and the chunk keys of an identity.
LEMMA KeyFacts ==
    ASSUME NEW id \in Identities
    PROVE  /\ ManifestKey(id) \in DeviceKeys
           /\ \A i \in 1 .. MaxChunks : ChunkKey(id, i) \in DeviceKeys
           /\ \A i \in Nat : i > 0 => \A x : ChunkKey(id, i) # ManifestKey(x)
BY ChunkCounts DEF ManifestKey, ChunkKey, DeviceKeys

-----------------------------------------------------------------------------
(* Clients *)

\* The locals of a client between calls.
LEMMA IdleFacts ==
    /\ Idle \in Locals /\ Idle.pc = "idle"
    /\ \A T \in SUBSET DeviceKeys :
         /\ Scanning(T) \in Locals
         /\ Scanning(T).pc \in {"idle", "scan"}
<1>1. Idle \in Locals /\ Idle.pc = "idle"
  BY ChunkCounts DEF Idle, Locals
<1>2. ASSUME NEW T \in SUBSET DeviceKeys
      PROVE  [Idle EXCEPT !.pc = "scan", !.todo = T] \in Locals
  BY <1>1 DEF Locals
<1>3. ASSUME NEW T \in SUBSET DeviceKeys
      PROVE  [Idle EXCEPT !.pc = "scan", !.todo = T].pc = "scan"
  BY <1>1 DEF Locals
<1>. QED
  BY <1>1, <1>2, <1>3 DEF Scanning

\* A load or a reload that found a manifest under its own key fetches its
\* chunks.
LEMMA OpenedFacts ==
    ASSUME TypeOK, ManifestsTried, NEW id \in Identities,
           NEW T \in SUBSET DeviceKeys
    PROVE  LET o == Opened(id, records[ManifestKey(id)], T) IN
           /\ o \in Locals
           /\ o.pc \in {"idle", "scan", "fetch"}
           /\ o.pc = "fetch" => /\ o.id = id /\ o.manifest \in Manifest
                                /\ o.manifest.sha256 \in tried[id] \cup {<<>>}
                                /\ Len(o.got) < o.manifest.chunks
<1>. DEFINE v == records[ManifestKey(id)]
<1>1. v \in {None} \cup Chunk \cup Manifest
  BY KeyFacts DEF TypeOK
<1>2. CASE IsManifest(v) /\ v.identity = id
  <2>1. v \in Manifest /\ v.sha256 \in tried[id] \cup {<<>>}
    BY <1>1, <1>2, DecodedManifest DEF ManifestsTried
  <2>2. v.chunks \in 1 .. MaxChunks
    BY <2>1 DEF Manifest
  <2>. HIDE DEF v
  <2>3. Opened(id, v, T) = [pc |-> "fetch", id |-> id, payload |-> <<>>, index |-> 0,
                            manifest |-> v, got |-> <<>>, todo |-> T]
    BY <1>2 DEF Opened, Idle
  <2>. QED
    BY <2>1, <2>2, <2>3, ChunkCounts DEF Locals, v
<1>3. CASE ~ (IsManifest(v) /\ v.identity = id)
  BY <1>3, IdleFacts DEF Opened
<1>. QED
  BY <1>2, <1>3

\* A client between calls, or in the loop of recover_identities, is good.
LEMMA GoodIdle ==
    ASSUME NEW T, NEW l \in Locals, l.pc \in {"idle", "scan"}
    PROVE  GoodLocals(l, T)
BY DEF GoodLocals

\* A step of a store leaves good locals.
LEMMA StoreSteps ==
    ASSUME IInv, NEW c \in Clients,
           PutChunk(c) \/ CompareChunk(c) \/ Publish(c) \/ Recheck(c)
    PROVE  /\ GoodLocals(at'[c], tried)
           /\ at' = [at EXCEPT ![c] = at'[c]]
<1>. DEFINE l == at[c]
<1>1. GoodLocals(l, tried) /\ l \in Locals /\ at \in [Clients -> Locals]
      /\ l.pc \in {"put", "compare", "publish", "recheck"}
  BY DEF GoodLocals, IInv, TypeOK, PutChunk, CompareChunk, Publish, Recheck
<1>2. /\ l.id \in Identities /\ l.payload \in Payloads /\ l.payload \in tried[l.id]
      /\ ChunkCount(l.payload) \in 1 .. MaxChunks /\ MaxChunks \in Nat
      /\ l.pc \in {"put", "compare"} => l.index \in 1 .. ChunkCount(l.payload)
  BY <1>1, ChunkCounts DEF GoodLocals, IInv, TypeOK
<1>3. \A pc \in {"compare", "publish", "recheck", "raised"} :
        (pc = "compare" => l.pc = "put") => GoodLocals([l EXCEPT !.pc = pc], tried)
  <2>. SUFFICES ASSUME NEW pc \in {"compare", "publish", "recheck", "raised"},
                       pc = "compare" => l.pc = "put",
                       NEW m, m = [l EXCEPT !.pc = pc]
                PROVE  GoodLocals(m, tried)
    OBVIOUS
  <2>1. m \in Locals /\ m.pc = pc /\ m.id = l.id /\ m.payload = l.payload /\ m.index = l.index
    BY ONLY <1>1, m = [l EXCEPT !.pc = pc],
            pc \in {"compare", "publish", "recheck", "raised"} DEF Locals
  <2>. QED BY ONLY <1>2, <2>1, pc \in {"compare", "publish", "recheck", "raised"},
                   pc = "compare" => l.pc = "put" DEF GoodLocals
<1>4. ASSUME l.pc \in {"put", "compare"}, l.index < ChunkCount(l.payload)
      PROVE  GoodLocals([l EXCEPT !.pc = "put", !.index = @ + 1], tried)
  <2>1. l.index + 1 \in 1 .. ChunkCount(l.payload) /\ l.index + 1 \in 0 .. MaxChunks
    BY <1>2, <1>4
  <2>. QED
    BY <1>1, <1>2, <2>1 DEF GoodLocals, Locals
<1>5. GoodLocals(Idle, tried)
  BY IdleFacts, GoodIdle
<1>6. \/ at' = [at EXCEPT ![c] = Idle]
      \/ \E pc \in {"compare", "publish", "recheck", "raised"} :
           /\ pc = "compare" => l.pc = "put"
           /\ at' = [at EXCEPT ![c].pc = pc]
      \/ at' = [at EXCEPT ![c].pc = "put", ![c].index = @ + 1]
           /\ l.index < ChunkCount(l.payload) /\ l.pc \in {"put", "compare"}
      \/ at' = [at EXCEPT ![c].pc = "raised", ![c].id = l.id, ![c].payload = l.payload]
  BY DEF PutChunk, CompareChunk, Publish, Recheck, Advance, Goes, Returned,
         CheckExisting
<1>7. \/ at'[c] = Idle
      \/ \E pc \in {"compare", "publish", "recheck", "raised"} :
           /\ pc = "compare" => l.pc = "put"
           /\ at'[c] = [l EXCEPT !.pc = pc]
      \/ at'[c] = [l EXCEPT !.pc = "put", !.index = @ + 1]
           /\ l.index < ChunkCount(l.payload) /\ l.pc \in {"put", "compare"}
  <2>1. DOMAIN at = Clients /\ l \in Locals
    BY <1>1
  <2>. QED
    BY <1>6, <2>1 DEF Locals
<1>8. at' = [at EXCEPT ![c] = at'[c]]
  BY <1>1, <1>6, <1>7 DEF Locals
<1>. QED
  BY <1>3, <1>4, <1>5, <1>7, <1>8

\* So does the call of store.
LEMMA StoreCall ==
    ASSUME IInv, NEW c \in Clients, NEW id \in Identities, NEW p \in Payloads,
           Store(c, id, p)
    PROVE  /\ GoodLocals(at'[c], tried')
           /\ at' = [at EXCEPT ![c] = at'[c]]
<1>. DEFINE l == at[c]
<1>1. l \in Locals /\ at \in [Clients -> Locals]
  BY DEF IInv, TypeOK
<1>2. p \in tried'[id]
  BY DEF Store, IInv, TypeOK
<1>3. \/ at' = [at EXCEPT ![c] = Idle]
      \/ at' = [at EXCEPT ![c] = [Idle EXCEPT !.pc = "put", !.id = id,
                                        !.payload = p, !.index = 1]]
      \/ at' = [at EXCEPT ![c].pc = "raised", ![c].id = id, ![c].payload = p]
  BY DEF Store, CheckExisting, Returned
<1>4. \/ at'[c] = Idle
      \/ at'[c] = [Idle EXCEPT !.pc = "put", !.id = id, !.payload = p, !.index = 1]
      \/ at'[c] = [l EXCEPT !.pc = "raised", !.id = id, !.payload = p]
  BY <1>1, <1>3 DEF Locals
<1>5. GoodLocals(Idle, tried')
  BY IdleFacts, GoodIdle
<1>6. GoodLocals([l EXCEPT !.pc = "raised", !.id = id, !.payload = p], tried')
  BY <1>1, <1>2 DEF GoodLocals, Locals
<1>7. GoodLocals([Idle EXCEPT !.pc = "put", !.id = id, !.payload = p, !.index = 1],
                 tried')
  <2>1. 1 \in 0 .. MaxChunks /\ 1 \in 1 .. ChunkCount(p)
    BY ChunkCounts
  <2>. QED
    BY <1>2, <2>1, IdleFacts DEF GoodLocals, Locals
<1>8. at' = [at EXCEPT ![c] = at'[c]]
  BY <1>1, <1>3, <1>4 DEF Locals
<1>. QED
  BY <1>4, <1>5, <1>6, <1>7, <1>8

\* So do the steps of load and of recover_identities.
LEMMA LoadSteps ==
    ASSUME IInv, NEW c \in Clients,
           \/ \E id \in Identities : Load(c, id)
           \/ Fetch(c) \/ Validate(c) \/ Recover(c) \/ Scan(c) \/ Reload(c)
    PROVE  /\ GoodLocals(at'[c], tried)
           /\ at' = [at EXCEPT ![c] = at'[c]]
<1>. DEFINE l == at[c]
<1>1. l \in Locals /\ GoodLocals(l, tried) /\ at \in [Clients -> Locals]
  BY DEF IInv, TypeOK
<1>2. ASSUME NEW T \in SUBSET DeviceKeys PROVE GoodLocals(Scanning(T), tried)
  BY IdleFacts, GoodIdle
<1>3. ASSUME NEW id \in Identities, NEW T \in SUBSET DeviceKeys
      PROVE  GoodLocals(Opened(id, records[ManifestKey(id)], T), tried)
  <2>. DEFINE o == Opened(id, records[ManifestKey(id)], T)
  <2>1. /\ o \in Locals
        /\ o.pc \in {"idle", "scan", "fetch"}
        /\ o.pc = "fetch" => /\ o.id = id /\ o.manifest \in Manifest
                             /\ o.manifest.sha256 \in tried[id] \cup {<<>>}
                             /\ Len(o.got) < o.manifest.chunks
    BY OpenedFacts DEF IInv
  <2>. HIDE DEF o
  <2>2. GoodLocals(o, tried)
    BY <2>1 DEF GoodLocals
  <2>. QED
    BY <2>2 DEF o
<1>4. ASSUME NEW id \in Identities, Load(c, id)
      PROVE  at' = [at EXCEPT ![c] = at'[c]] /\ GoodLocals(at'[c], tried)
  <2>1. at' = [at EXCEPT ![c] = Opened(id, records[ManifestKey(id)], {})]
    BY <1>4 DEF Load
  <2>. QED
    BY <1>1, <1>3, <2>1
<1>5. ASSUME Reload(c)
      PROVE  at' = [at EXCEPT ![c] = at'[c]] /\ GoodLocals(at'[c], tried)
  <2>1. at' = [at EXCEPT ![c] = Opened(l.id, records[ManifestKey(l.id)], l.todo)]
    BY <1>1, <1>5 DEF Reload
  <2>2. l.id \in Identities /\ l.todo \in SUBSET DeviceKeys
    BY <1>1, <1>5 DEF Reload, GoodLocals, Locals
  <2>. QED
    BY <1>1, <1>3, <2>1, <2>2
<1>6. ASSUME Validate(c) \/ Recover(c)
      PROVE  at' = [at EXCEPT ![c] = at'[c]] /\ GoodLocals(at'[c], tried)
  <2>1. PICK T \in SUBSET DeviceKeys : at' = [at EXCEPT ![c] = Scanning(T)]
    BY <1>1, <1>6 DEF Validate, Recover, Locals
  <2>. QED
    BY <1>1, <1>2, <2>1
<1>7. ASSUME Scan(c)
      PROVE  at' = [at EXCEPT ![c] = at'[c]] /\ GoodLocals(at'[c], tried)
  <2>1. PICK k \in l.todo :
          at' = [at EXCEPT ![c] =
                   IF IsManifest(records[k]) /\ ManifestKey(records[k].identity) = k
                   THEN [Idle EXCEPT !.pc = "reload", !.id = k[1], !.todo = l.todo \ {k}]
                   ELSE Scanning(l.todo \ {k})]
    BY <1>7 DEF Scan
  <2>2. k[1] \in Identities /\ l.todo \ {k} \in SUBSET DeviceKeys
    BY <1>1 DEF Locals, DeviceKeys
  <2>3. GoodLocals([Idle EXCEPT !.pc = "reload", !.id = k[1], !.todo = l.todo \ {k}],
                   tried)
    BY <2>2, IdleFacts DEF GoodLocals, Locals
  <2>. QED
    BY <1>1, <1>2, <2>1, <2>2, <2>3
<1>8. ASSUME Fetch(c)
      PROVE  at' = [at EXCEPT ![c] = at'[c]] /\ GoodLocals(at'[c], tried)
  <2>. DEFINE got == Append(l.got, records[ChunkKey(l.id, Len(l.got) + 1)])
              pc == IF Len(got) = l.manifest.chunks THEN "validate" ELSE "fetch"
  <2>1. /\ l.pc = "fetch" /\ l.manifest \in Manifest /\ l.id \in Identities
        /\ l.got \in Seq(Chunk \cup {None}) /\ Len(l.got) < l.manifest.chunks
        /\ l.manifest.chunks \in 1 .. MaxChunks /\ MaxChunks \in Nat
    BY <1>1, <1>8, ChunkCounts DEF Fetch, GoodLocals, Locals, Manifest
  <2>2. Len(l.got) + 1 \in 1 .. MaxChunks /\ Len(l.got) + 1 > 0 /\ Len(l.got) \in Nat
    BY <2>1
  <2>3. records[ChunkKey(l.id, Len(l.got) + 1)] \in Chunk \cup {None}
    <3>1. ChunkKey(l.id, Len(l.got) + 1) \in DeviceKeys
          /\ ChunkKey(l.id, Len(l.got) + 1)[2] # 0
      BY <2>1, <2>2, KeyFacts DEF ChunkKey
    <3>. QED
      BY <3>1 DEF IInv, TypeOK
  <2>4. got \in Seq(Chunk \cup {None}) /\ Len(got) = Len(l.got) + 1
    BY <2>1, <2>3
  <2>5. at' = [at EXCEPT ![c].got = got, ![c].pc = pc]
    BY <1>8, <2>1 DEF Fetch
  <2>6. Len(got) # l.manifest.chunks => Len(got) < l.manifest.chunks
    BY <2>1, <2>2, <2>4
  <2>7. pc \in {"fetch", "validate"} /\ (pc = "fetch" => Len(got) < l.manifest.chunks)
    BY <2>6
  <2>. HIDE DEF got, pc
  <2>8. at'[c] = [l EXCEPT !.got = got, !.pc = pc]
    BY <1>1, <2>5 DEF Locals
  <2>9. GoodLocals([l EXCEPT !.got = got, !.pc = pc], tried)
    BY <1>1, <2>1, <2>4, <2>7 DEF GoodLocals, Locals
  <2>. QED
    BY <1>1, <2>5, <2>8, <2>9
<1>9. at' = [at EXCEPT ![c] = at'[c]] /\ GoodLocals(at'[c], tried)
  BY <1>4, <1>5, <1>6, <1>7, <1>8
<1>. QED
  BY <1>1, <1>9

\* So do the steps of delete, and an interruption.
LEMMA DeleteSteps ==
    ASSUME IInv, NEW c \in Clients,
           \/ \E id \in Identities : Delete(c, id)
           \/ Unlink(c) \/ Hide(c) \/ Sweep(c) \/ Interrupt(c)
    PROVE  /\ GoodLocals(at'[c], tried)
           /\ at' = [at EXCEPT ![c] = at'[c]]
<1>. DEFINE l == at[c]
<1>1. l \in Locals /\ GoodLocals(l, tried) /\ at \in [Clients -> Locals]
  BY DEF IInv, TypeOK
<1>2. GoodLocals(Idle, tried)
  BY IdleFacts, GoodIdle
<1>3. ASSUME NEW id \in Identities, Delete(c, id)
      PROVE  at' = [at EXCEPT ![c] = at'[c]] /\ GoodLocals(at'[c], tried)
  <2>. DEFINE v == records[ManifestKey(id)]
              pc == IF IsManifest(v) THEN "hide" ELSE "unlink"
  <2>1. v \in {None} \cup Chunk \cup Manifest
    BY KeyFacts DEF IInv, TypeOK
  <2>2. pc \in {"hide", "unlink"} /\ (pc = "hide" => v \in Manifest)
    BY <2>1, DecodedManifest
  <2>3. \/ at' = [at EXCEPT ![c] = Idle]
        \/ at' = [at EXCEPT ![c] = [Idle EXCEPT !.pc = pc, !.id = id,
                                          !.manifest = v, !.index = 1]]
    BY <1>3 DEF Delete
  <2>. HIDE DEF v, pc
  <2>4. GoodLocals([Idle EXCEPT !.pc = pc, !.id = id, !.manifest = v, !.index = 1],
                   tried)
    <3>1. pc = "hide" => 1 \in 1 .. v.chunks
      BY <2>2, ChunkCounts DEF Manifest
    <3>2. 1 \in 0 .. MaxChunks
      BY ChunkCounts, KvStoreAssumption
    <3>. QED
      BY <2>1, <2>2, <3>1, <3>2, IdleFacts DEF GoodLocals, Locals
  <2>. QED
    BY <1>1, <1>2, <2>3, <2>4
<1>4. ASSUME Unlink(c) \/ Interrupt(c)
      PROVE  at' = [at EXCEPT ![c] = at'[c]] /\ GoodLocals(at'[c], tried)
  BY <1>1, <1>2, <1>4 DEF Unlink, Interrupt, Returned
<1>5. ASSUME Hide(c)
      PROVE  at' = [at EXCEPT ![c] = at'[c]] /\ GoodLocals(at'[c], tried)
  <2>1. at'[c] = [l EXCEPT !.pc = "sweep"] /\ l.pc = "hide"
        /\ at' = [at EXCEPT ![c] = at'[c]]
    BY <1>1, <1>5 DEF Hide, Goes
  <2>. QED
    BY <1>1, <2>1 DEF GoodLocals, Locals
<1>6. ASSUME Sweep(c)
      PROVE  at' = [at EXCEPT ![c] = at'[c]] /\ GoodLocals(at'[c], tried)
  <2>1. CASE l.index < l.manifest.chunks
    <3>1. at'[c] = [l EXCEPT !.index = @ + 1] /\ at' = [at EXCEPT ![c] = at'[c]]
          /\ l.pc = "sweep"
      BY <1>1, <1>6, <2>1 DEF Sweep
    <3>2. l.index \in 1 .. l.manifest.chunks /\ l.manifest.chunks \in 1 .. MaxChunks
          /\ MaxChunks \in Nat
      BY <1>1, <3>1, ChunkCounts DEF GoodLocals, Manifest
    <3>3. l.index + 1 \in 1 .. l.manifest.chunks /\ l.index + 1 \in 0 .. MaxChunks
      BY <2>1, <3>2
    <3>. QED
      BY <1>1, <3>1, <3>3 DEF GoodLocals, Locals
  <2>2. CASE ~ (l.index < l.manifest.chunks)
    BY <1>1, <1>2, <1>6, <2>2 DEF Sweep, Returned
  <2>. QED
    BY <2>1, <2>2
<1>7. at' = [at EXCEPT ![c] = at'[c]] /\ GoodLocals(at'[c], tried)
  BY <1>3, <1>4, <1>5, <1>6
<1>. QED
  BY <1>1, <1>7

\* Locals stay good as more payloads are tried.
LEMMA GoodGrows ==
    ASSUME NEW l, NEW T, NEW U, GoodLocals(l, T),
           \A id \in Identities : T[id] \subseteq U[id]
    PROVE  GoodLocals(l, U)
BY DEF GoodLocals

\* Payloads are only ever added to the tried ones, by store.
LEMMA TriedGrows ==
    ASSUME IInv, [Next]_vars
    PROVE  /\ tried' \in [Identities -> SUBSET Payloads]
           /\ \A id \in Identities : tried[id] \subseteq tried'[id]
<1>1. CASE tried' = tried
  BY <1>1 DEF IInv, TypeOK
<1>2. ASSUME NEW c \in Clients, NEW id \in Identities, NEW p \in Payloads,
             Store(c, id, p)
      PROVE  /\ tried' \in [Identities -> SUBSET Payloads]
             /\ \A x \in Identities : tried[x] \subseteq tried'[x]
  BY <1>2 DEF Store, IInv, TypeOK
<1>. QED
  BY <1>1, <1>2 DEF Next, vars, history, Load, Delete, PutChunk, CompareChunk, Publish,
     Recheck, Fetch, Validate, Recover, Scan, Reload, Unlink, Hide, Sweep,
     Interrupt, Damage

\* Every step leaves every client with good locals.
LEMMA NextClients ==
    ASSUME IInv, [Next]_vars
    PROVE  at' \in [Clients -> Locals] /\ \A d \in Clients : GoodLocals(at'[d], tried')
<1>1. \A id \in Identities : tried[id] \subseteq tried'[id]
  BY TriedGrows
<1>2. \A d \in Clients : GoodLocals(at[d], tried')
  BY <1>1, GoodGrows DEF IInv
<1>3. ASSUME NEW c \in Clients, NEW id \in Identities, NEW p \in Payloads,
             Store(c, id, p)
      PROVE  at' \in [Clients -> Locals] /\ \A d \in Clients : GoodLocals(at'[d], tried')
  <2>1. GoodLocals(at'[c], tried') /\ at' = [at EXCEPT ![c] = at'[c]]
    BY <1>3, StoreCall
  <2>2. at'[c] \in Locals
    BY <2>1 DEF GoodLocals
  <2>. QED
    BY <1>2, <2>1, <2>2 DEF IInv, TypeOK
<1>4. ASSUME NEW c \in Clients,
             \/ \E id \in Identities : Load(c, id) \/ Delete(c, id)
             \/ PutChunk(c) \/ CompareChunk(c) \/ Publish(c) \/ Recheck(c)
             \/ Fetch(c) \/ Validate(c) \/ Recover(c) \/ Scan(c) \/ Reload(c)
             \/ Unlink(c) \/ Hide(c) \/ Sweep(c) \/ Interrupt(c)
      PROVE  at' \in [Clients -> Locals] /\ \A d \in Clients : GoodLocals(at'[d], tried')
  <2>1. GoodLocals(at'[c], tried) /\ at' = [at EXCEPT ![c] = at'[c]]
    BY <1>4, StoreSteps, LoadSteps, DeleteSteps
  <2>2. GoodLocals(at'[c], tried') /\ at'[c] \in Locals
    BY <1>1, <2>1, GoodGrows DEF GoodLocals
  <2>. QED
    BY <1>2, <2>1, <2>2 DEF IInv, TypeOK
<1>5. CASE Damage \/ UNCHANGED vars
  BY <1>2, <1>5 DEF Damage, vars, IInv, TypeOK
<1>. QED
  BY <1>3, <1>4, <1>5 DEF Next

-----------------------------------------------------------------------------
(* The device and the history *)

\* Every key keeps a record of its type.
LEMMA NextRecords ==
    ASSUME IInv, [Next]_vars
    PROVE  /\ DOMAIN records' = DeviceKeys
           /\ \A k \in DeviceKeys : records'[k] \in
                {None} \cup Chunk \cup (IF k[2] = 0 THEN Manifest ELSE {})
<1>. DEFINE Values(k) == {None} \cup Chunk \cup (IF k[2] = 0 THEN Manifest ELSE {})
<1>1. DOMAIN records = DeviceKeys /\ \A k \in DeviceKeys : records[k] \in Values(k)
  BY DEF IInv, TypeOK
<1>2. ASSUME NEW k, NEW v, records' = [records EXCEPT ![k] = v],
             k \in DeviceKeys => v \in Values(k)
      PROVE  DOMAIN records' = DeviceKeys /\ \A j \in DeviceKeys : records'[j] \in Values(j)
  <2>. HIDE DEF Values
  <2>. QED
    BY <1>1, <1>2
<1>3. CASE records' = records
  BY <1>1, <1>3
<1>4. ASSUME NEW c \in Clients, PutChunk(c), records' # records
      PROVE  DOMAIN records' = DeviceKeys /\ \A j \in DeviceKeys : records'[j] \in Values(j)
  <2>1. records' = [records EXCEPT ![ChunkKey(at[c].id, at[c].index)] =
                                       ChunkOf(at[c].payload, at[c].index)]
    BY <1>4 DEF PutChunk, Writes
  <2>2. at[c].payload \in Payloads /\ at[c].index \in Nat /\ at[c].index >= 1
    BY <1>4, ChunkCounts DEF PutChunk, IInv, GoodLocals, TypeOK
  <2>3. ChunkOf(at[c].payload, at[c].index) \in Chunk
    BY <2>2, ChunkTypes
  <2>. QED
    BY <1>2, <2>1, <2>3
<1>5. ASSUME NEW c \in Clients, Publish(c), records' # records
      PROVE  DOMAIN records' = DeviceKeys /\ \A j \in DeviceKeys : records'[j] \in Values(j)
  <2>1. records' = [records EXCEPT ![ManifestKey(at[c].id)] =
                                       ManifestOf(at[c].id, at[c].payload)]
    BY <1>5 DEF Publish, Writes
  <2>2. at[c].payload \in Payloads /\ at[c].id \in Identities
    BY <1>5 DEF Publish, IInv, GoodLocals, TypeOK
  <2>3. ManifestOf(at[c].id, at[c].payload) \in Manifest
    BY <2>2, ManifestTypes
  <2>4. ManifestKey(at[c].id)[2] = 0
    BY DEF ManifestKey
  <2>. QED
    BY <1>2, <2>1, <2>3, <2>4
<1>6. ASSUME NEW c \in Clients, Unlink(c) \/ Hide(c) \/ Sweep(c)
      PROVE  DOMAIN records' = DeviceKeys /\ \A j \in DeviceKeys : records'[j] \in Values(j)
  <2>1. PICK k : records' = [records EXCEPT ![k] = None]
    BY <1>6 DEF Unlink, Hide, Sweep, Writes
  <2>. QED
    BY <1>2, <2>1
<1>7. ASSUME Damage
      PROVE  DOMAIN records' = DeviceKeys /\ \A j \in DeviceKeys : records'[j] \in Values(j)
  <2>1. PICK k \in DeviceKeys :
          \/ records' = [records EXCEPT ![k] = Garbage]
          \/ k[2] = 0 /\ \E p \in Payloads :
               records' = [records EXCEPT ![k] = ManifestOf(Foreign, p)]
          \/ /\ IsManifest(records[k])
             /\ \E m \in Altered(records[k]) : records' = [records EXCEPT ![k] = m]
    BY <1>7 DEF Damage, Writes
  <2>2. Garbage \in Chunk
    BY DEF Garbage, Chunk
  <2>3. \A p \in Payloads : ManifestOf(Foreign, p) \in Manifest
    BY ManifestTypes
  <2>4. ASSUME IsManifest(records[k])
        PROVE  k[2] = 0 /\ \A m \in Altered(records[k]) : m \in Manifest
    <3>1. records[k] \in Manifest /\ k[2] = 0
      <4>1. records[k] \in {None} \cup Chunk \cup Manifest
        BY <1>1
      <4>2. records[k] \notin {None} \cup Chunk
        BY <2>4 DEF IsManifest, Chunk
      <4>. QED
        BY <1>1, <4>1, <4>2
    <3>. QED
      BY <3>1, AlteredManifest
  <2>. QED
    BY <1>2, <2>1, <2>2, <2>3, <2>4
<1>8. \/ records' = records
      \/ \E c \in Clients : \/ PutChunk(c) \/ Publish(c)
                            \/ Unlink(c) \/ Hide(c) \/ Sweep(c)
      \/ Damage
  BY DEF Next, vars, Store, Load, Delete, CompareChunk, Recheck, Fetch, Validate,
         Recover, Scan, Reload, Interrupt
<1>. QED
  BY <1>3, <1>4, <1>5, <1>6, <1>7, <1>8

\* Every step keeps the type invariant.
LEMMA NextTypes == IInv /\ [Next]_vars => TypeOK'
<1>. SUFFICES ASSUME IInv, [Next]_vars PROVE TypeOK'
  OBVIOUS
<1>1. /\ at' \in [Clients -> Locals]
      /\ \A c \in Clients : at'[c].pc \in {"fetch", "validate", "hide", "sweep"} =>
           at'[c].manifest \in Manifest
  BY NextClients DEF GoodLocals
<1>2. \/ acked' = acked
      \/ \E id \in Identities, P \in SUBSET Payloads :
           acked' = [acked EXCEPT ![id] = @ \cup P] \/ acked' = [acked EXCEPT ![id] = {}]
  <2>1. ASSUME NEW c \in Clients, Publish(c) \/ Recheck(c), acked' # acked
        PROVE  \E id \in Identities, P \in SUBSET Payloads :
                 acked' = [acked EXCEPT ![id] = @ \cup P]
    <3>1. at[c].id \in Identities /\ {at[c].payload} \in SUBSET Payloads
      BY <2>1 DEF Publish, Recheck, IInv, GoodLocals, TypeOK
    <3>2. acked' = [acked EXCEPT ![at[c].id] = @ \cup {at[c].payload}]
      BY <2>1 DEF Publish, Recheck, CheckExisting
    <3>. QED
      BY <3>1, <3>2
  <2>2. ASSUME NEW c \in Clients, NEW id \in Identities, NEW p \in Payloads,
               Store(c, id, p), acked' # acked
        PROVE  acked' = [acked EXCEPT ![id] = @ \cup {p}] /\ {p} \in SUBSET Payloads
    BY <2>2 DEF Store, CheckExisting
  <2>3. ASSUME NEW c \in Clients, NEW id \in Identities, Delete(c, id)
        PROVE  acked' = [acked EXCEPT ![id] = {}] /\ {} \in SUBSET Payloads
    BY <2>3 DEF Delete
  <2>4. \/ acked' = acked
        \/ \E c \in Clients : Publish(c) \/ Recheck(c)
        \/ \E c \in Clients, id \in Identities :
             Delete(c, id) \/ \E p \in Payloads : Store(c, id, p)
    BY DEF Next, vars, history, Load, PutChunk, CompareChunk, Fetch, Validate,
           Recover, Scan, Reload, Unlink, Hide, Sweep, Interrupt, Damage
  <2>. QED
    BY <2>1, <2>2, <2>3, <2>4
<1>3. acked' \in [Identities -> SUBSET Payloads]
  <2>1. acked \in [Identities -> SUBSET Payloads]
    BY DEF IInv, TypeOK
  <2>. QED BY ONLY <1>2, <2>1
<1>4. overlapped' \subseteq Identities
  BY DEF Next, vars, history, Store, Delete, Load, PutChunk, CompareChunk, Publish,
         Recheck, Fetch, Validate, Recover, Scan, Reload, Unlink, Hide, Sweep,
         Interrupt, Damage, IInv, TypeOK
<1>5. damages' \in 0 .. MaxDamages /\ begun' \in 0 .. MaxCalls
  <2>1. \/ damages' = damages
        \/ damages < MaxDamages /\ damages' = damages + 1
    BY DEF Next, vars, Store, Delete, Load, PutChunk, CompareChunk, Publish, Recheck,
         Fetch, Validate, Recover, Scan, Reload, Unlink, Hide, Sweep, Interrupt,
         Damage, Call, Within
  <2>2. \/ begun' = begun
        \/ begun < MaxCalls /\ begun' = begun + 1
    BY DEF Next, vars, Store, Delete, Load, PutChunk, CompareChunk, Publish, Recheck,
         Fetch, Validate, Recover, Scan, Reload, Unlink, Hide, Sweep, Interrupt,
         Damage, Call, Within
  <2>. QED
    BY <2>1, <2>2, KvStoreAssumption DEF IInv, TypeOK
<1>. QED
  BY <1>1, <1>3, <1>4, <1>5, NextRecords, TriedGrows DEF TypeOK

\* Only a published manifest appears under the key of the identity it names.
LEMMA NextManifestsTried == IInv /\ [Next]_vars => ManifestsTried'
<1>. SUFFICES ASSUME IInv, [Next]_vars PROVE ManifestsTried'
  OBVIOUS
<1>. DEFINE Fits(id, v) ==
              IsManifest(v) /\ v.identity = id => v.sha256 \in tried'[id] \cup {<<>>}
<1>1. \A id \in Identities : Fits(id, records[ManifestKey(id)])
  BY TriedGrows DEF IInv, ManifestsTried
<1>2. \A id \in Identities : Fits(id, None)
  BY DEF IsManifest
<1>3. DOMAIN records = DeviceKeys /\ \A id \in Identities : ManifestKey(id) \in DeviceKeys
  BY KeyFacts DEF IInv, TypeOK
<1>4. \A x, y : ManifestKey(x) = ManifestKey(y) => x = y
  BY DEF ManifestKey
<1>5. SUFFICES ASSUME NEW id \in Identities PROVE Fits(id, records'[ManifestKey(id)])
  BY <1>5 DEF ManifestsTried, IsManifest
<1>6. CASE records' = records
  BY <1>1, <1>6
<1>7. ASSUME NEW c \in Clients, PutChunk(c), records' # records
      PROVE  Fits(id, records'[ManifestKey(id)])
  <2>1. records' = [records EXCEPT ![ChunkKey(at[c].id, at[c].index)] =
                                       ChunkOf(at[c].payload, at[c].index)]
    BY <1>7 DEF PutChunk, Writes
  <2>2. at[c].id \in Identities /\ at[c].index \in Nat /\ at[c].index > 0
    BY <1>7, ChunkCounts DEF PutChunk, IInv, GoodLocals, TypeOK
  <2>3. records'[ManifestKey(id)] = records[ManifestKey(id)]
    BY <1>3, <2>1, <2>2, KeyFacts
  <2>. QED
    BY <1>1, <2>3
<1>8. ASSUME NEW c \in Clients, Publish(c), records' # records
      PROVE  Fits(id, records'[ManifestKey(id)])
  <2>1. records' = [records EXCEPT ![ManifestKey(at[c].id)] =
                                       ManifestOf(at[c].id, at[c].payload)]
    BY <1>8 DEF Publish, Writes
  <2>2. at[c].payload \in Payloads /\ at[c].id \in Identities
        /\ at[c].payload \in tried'[at[c].id]
    BY <1>8, TriedGrows DEF Publish, IInv, GoodLocals, TypeOK
  <2>3. Fits(at[c].id, ManifestOf(at[c].id, at[c].payload))
    BY <2>2, ManifestTypes
  <2>. HIDE DEF Fits
  <2>. QED
    BY <1>1, <1>3, <1>4, <2>1, <2>3
<1>9. ASSUME NEW c \in Clients, Unlink(c) \/ Hide(c) \/ Sweep(c)
      PROVE  Fits(id, records'[ManifestKey(id)])
  <2>1. PICK k : records' = [records EXCEPT ![k] = None]
    BY <1>9 DEF Unlink, Hide, Sweep, Writes
  <2>. HIDE DEF Fits
  <2>. QED
    BY <1>1, <1>2, <1>3, <2>1
<1>10. ASSUME Damage PROVE Fits(id, records'[ManifestKey(id)])
  <2>1. PICK k \in DeviceKeys :
          \/ records' = [records EXCEPT ![k] = Garbage]
          \/ \E p \in Payloads : records' = [records EXCEPT ![k] = ManifestOf(Foreign, p)]
          \/ /\ IsManifest(records[k])
             /\ \E m \in Altered(records[k]) : records' = [records EXCEPT ![k] = m]
    BY <1>10 DEF Damage, Writes
  <2>2. Fits(id, Garbage)
    BY DEF Garbage, IsManifest
  <2>3. \A p \in Payloads : Fits(id, ManifestOf(Foreign, p))
    BY ManifestTypes, KvStoreAssumption
  <2>4. \A v : IsManifest(v) /\ Fits(id, v) => \A m \in Altered(v) : Fits(id, m)
    BY DEF Altered
  <2>. HIDE DEF Fits
  <2>. QED
    BY <1>1, <1>3, <2>1, <2>2, <2>3, <2>4
<1>11. \/ records' = records
       \/ \E c \in Clients : \/ PutChunk(c) \/ Publish(c)
                             \/ Unlink(c) \/ Hide(c) \/ Sweep(c)
       \/ Damage
  BY DEF Next, vars, Store, Load, Delete, CompareChunk, Recheck, Fetch, Validate,
         Recover, Scan, Reload, Interrupt
<1>. QED
  BY <1>6, <1>7, <1>8, <1>9, <1>10, <1>11

-----------------------------------------------------------------------------
(* Identities no store of which overlapped a delete *)

\* The manifest of a calm identity is that of a payload a store was called with.
LEMMA CalmManifest ==
    ASSUME IInv, NEW x \in Identities, RecordsSound(x),
           records[ManifestKey(x)] # None
    PROVE  \E p \in tried[x] :
             /\ p \in Payloads
             /\ records[ManifestKey(x)] = ManifestOf(x, p)
             /\ records[ManifestKey(x)].chunks = ChunkCount(p)
             /\ records[ManifestKey(x)].sha256 = p
             /\ ChunkCount(p) \in 1 .. MaxChunks
<1>1. PICK p \in tried[x] : records[ManifestKey(x)] = ManifestOf(x, p)
  BY DEF RecordsSound
<1>2. p \in Payloads
  BY DEF IInv, TypeOK
<1>. QED
  BY <1>1, <1>2, ManifestTypes, ChunkCounts

\* What a step does to other identities, and what a load does, is no concern
\* of this one.
LEMMA CalmFrame ==
    ASSUME IInv, NEW x \in Identities, Calm(x),
           records'[ManifestKey(x)] = records[ManifestKey(x)],
           \A i \in 1 .. MaxChunks :
             records'[ChunkKey(x, i)] = records[ChunkKey(x, i)],
           tried'[x] = tried[x], acked'[x] = acked[x],
           \A d \in Clients : \/ at'[d] = at[d]
                              \/ at'[d].id # x
                              \/ at'[d].pc \notin {"put", "compare", "publish",
                                   "recheck", "raised", "hide", "sweep", "unlink"}
    PROVE  Calm(x)'
<1>1. RecordsSound(x)'
  BY DEF Calm, RecordsSound
<1>2. WholeObject(x)'
  <2>1. CASE records[ManifestKey(x)] = None
    BY <2>1 DEF Calm, WholeObject
  <2>2. CASE records[ManifestKey(x)] # None
    <3>1. PICK p \in tried[x] :
             /\ records[ManifestKey(x)].chunks = ChunkCount(p)
             /\ ChunkCount(p) \in 1 .. MaxChunks
      BY <2>2, CalmManifest DEF Calm
    <3>2. \A i \in 1 .. ChunkCount(p) : i \in 1 .. MaxChunks
      BY <3>1, ChunkCounts
    <3>. QED
      BY <2>2, <3>1, <3>2 DEF Calm, WholeObject
  <2>. QED
    BY <2>1, <2>2
<1>3. DeletesSound(x)'
  BY DEF Calm, DeletesSound, Deleting, Storing
<1>4. StoresSound(x)'
  <2>1. ASSUME NEW c \in Clients, at[c].id = x, at'[c] = at[c]
        PROVE  StoreSound(c, x)'
    <3>1. StoreSound(c, x) /\ GoodLocals(at[c], tried)
      BY <2>1 DEF Calm, StoresSound, IInv
    <3>2. at[c].pc \in {"put", "compare", "publish", "recheck"} =>
            ChunkCount(at[c].payload) \in 1 .. MaxChunks /\ MaxChunks \in Nat
      BY <3>1, ChunkCounts DEF GoodLocals, IInv, TypeOK
    <3>3. at[c].pc \in {"put", "compare"} => \A i \in 1 .. at[c].index : i \in 1 .. MaxChunks
      BY <3>1, <3>2 DEF GoodLocals
    <3>4. at[c].pc \in {"publish", "recheck"} =>
            \A i \in 1 .. ChunkCount(at[c].payload) : i \in 1 .. MaxChunks
      BY <3>2
    <3>5. at[c].pc \in {"put", "compare"} => /\ at[c].index \in 1 .. MaxChunks
             /\ \A i \in 1 .. at[c].index - 1 : i \in 1 .. MaxChunks
      BY <3>1, <3>2, <3>3 DEF GoodLocals
    <3>. QED
      BY <2>1, <3>1, <3>4, <3>5 DEF StoreSound
  <2>2. ASSUME NEW c \in Clients,
               at'[c].pc \notin {"put", "compare", "publish", "recheck", "raised"}
        PROVE  StoreSound(c, x)'
    BY <2>2 DEF StoreSound
  <2>. QED
    BY <2>1, <2>2 DEF StoresSound
<1>. QED
  BY <1>1, <1>2, <1>3, <1>4 DEF Calm

\* What a store relies on stays as long as no record is taken away.
LEMMA StoreKept ==
    ASSUME IInv, NEW x \in Identities, Calm(x), NEW c \in Clients,
           at[c].id = x, at'[c] = at[c],
           records[ManifestKey(x)] # None =>
             records'[ManifestKey(x)] = records[ManifestKey(x)],
           \A i \in 1 .. MaxChunks : records[ChunkKey(x, i)] # None =>
             records'[ChunkKey(x, i)] = records[ChunkKey(x, i)],
           tried[x] \subseteq tried'[x]
    PROVE  StoreSound(c, x)'
<1>1. StoreSound(c, x) /\ GoodLocals(at[c], tried)
  BY DEF Calm, StoresSound, IInv
<1>2. at[c].pc \in {"put", "compare", "publish", "recheck", "raised"} =>
        /\ at[c].payload \in Payloads /\ at[c].payload \in tried[x]
        /\ ChunkCount(at[c].payload) \in 1 .. MaxChunks /\ MaxChunks \in Nat
  BY <1>1, ChunkCounts DEF GoodLocals, IInv, TypeOK
<1>3. at[c].pc \in {"put", "compare"} => /\ at[c].index \in 1 .. MaxChunks
        /\ \A i \in 1 .. at[c].index - 1 : i \in 1 .. MaxChunks
  BY <1>1, <1>2 DEF GoodLocals
<1>4. at[c].pc \in {"publish", "recheck"} =>
        \A i \in 1 .. ChunkCount(at[c].payload) : i \in 1 .. MaxChunks
  BY <1>2
<1>5. at[c].pc \in {"put", "compare", "publish", "recheck"} =>
        \A i \in 1 .. MaxChunks : ChunkOf(at[c].payload, i) # None
  BY <1>2, ChunkTypes
<1>6. at[c].pc \in {"put", "compare"} => \A i \in 1 .. at[c].index - 1 :
        records'[ChunkKey(x, i)] = ChunkOf(at[c].payload, i)
  BY <1>1, <1>3, <1>5 DEF StoreSound
<1>7. at[c].pc \in {"publish", "recheck"} => \A i \in 1 .. ChunkCount(at[c].payload) :
        records'[ChunkKey(x, i)] = ChunkOf(at[c].payload, i)
  BY <1>1, <1>4, <1>5 DEF StoreSound
<1>8. at[c].pc = "compare" => records'[ChunkKey(x, at[c].index)] # None
  BY <1>1, <1>3 DEF StoreSound
<1>9. at[c].pc = "raised" => tried'[x] # {at[c].payload}
  BY <1>1, <1>2 DEF StoreSound
<1>. QED
  BY <1>1, <1>6, <1>7, <1>8, <1>9 DEF StoreSound

\* The call of store, for its identity.
LEMMA StoreCalm ==
    ASSUME IInv, NEW c \in Clients, NEW x \in Identities, NEW p \in Payloads,
           Store(c, x, p), Calm(x), x \notin overlapped', [Next]_vars
    PROVE  Calm(x)'
<1>. DEFINE v == records[ManifestKey(x)]
<1>1. /\ records' = records
      /\ at' = [at EXCEPT ![c] = at'[c]] /\ at \in [Clients -> Locals]
      /\ at[c] \in Locals
  BY StoreCall DEF Store, IInv, TypeOK
<1>2. tried'[x] = tried[x] \cup {p}
  BY DEF Store, IInv, TypeOK
<1>3. \/ v = None /\ acked' = acked /\ at'[c].pc = "put" /\ at'[c].index = 1
      \/ /\ v # None /\ v = ManifestOf(x, p)
         /\ acked' = [acked EXCEPT ![x] = @ \cup {p}] /\ at'[c].pc = "idle"
      \/ /\ v # None /\ v # ManifestOf(x, p) /\ acked' = acked
         /\ at'[c].pc = "raised" /\ at'[c].payload = p
  <2>1. CASE v = None
    <3>1. at'[c] = [Idle EXCEPT !.pc = "put", !.id = x, !.payload = p, !.index = 1]
          /\ acked' = acked
      BY <1>1, <2>1 DEF Store
    <3>2. [Idle EXCEPT !.pc = "put", !.id = x, !.payload = p, !.index = 1].pc = "put"
          /\ [Idle EXCEPT !.pc = "put", !.id = x, !.payload = p, !.index = 1].index = 1
      BY DEF Idle
    <3>. QED
      BY <2>1, <3>1, <3>2
  <2>2. CASE v # None
    BY <1>1, <2>2 DEF Store, CheckExisting, Returned, Idle, Locals
  <2>. QED
    BY <2>1, <2>2
<1>4. \A d \in Clients : ~ (Deleting(d) /\ at[d].id = x)
  BY DEF Store
<1>5. RecordsSound(x)'
  BY <1>1, <1>2 DEF Calm, RecordsSound
<1>6. WholeObject(x)'
  BY <1>1, <1>3 DEF Calm, WholeObject, IInv, TypeOK
<1>7. DeletesSound(x)'
  BY <1>1, <1>3, <1>4 DEF DeletesSound, Deleting
<1>8. ASSUME NEW d \in Clients, at'[d].id = x, d # c PROVE StoreSound(d, x)'
  BY <1>1, <1>2, <1>8, StoreKept
<1>9. StoreSound(c, x)'
  <2>1. at'[c].pc = "put" => \A i \in 1 .. at'[c].index - 1 : FALSE
    BY <1>3
  <2>2. at'[c].pc = "raised" => tried'[x] # {at'[c].payload}
    <3>1. CASE at'[c].pc = "raised"
      <4>1. PICK q \in tried[x] : v = ManifestOf(x, q)
        BY <1>3, <3>1, CalmManifest DEF Calm
      <4>. QED
        BY <1>2, <1>3, <3>1, <4>1
    <3>. QED
      BY <3>1
  <2>. QED
    BY <1>3, <2>1, <2>2 DEF StoreSound
<1>. QED
  BY <1>5, <1>6, <1>7, <1>8, <1>9 DEF Calm, StoresSound

\* What the steps of a store find.
LEMMA StorerFacts ==
    ASSUME IInv, NEW c \in Clients, Storing(c), Calm(at[c].id)
    PROVE  LET l == at[c] IN
           /\ l \in Locals /\ at \in [Clients -> Locals]
           /\ l.id \in Identities
           /\ l.payload \in Payloads /\ l.payload \in tried[l.id]
           /\ ChunkCount(l.payload) \in 1 .. MaxChunks /\ MaxChunks \in Nat
           /\ l.pc \in {"put", "compare"} => l.index \in 1 .. ChunkCount(l.payload)
           /\ StoreSound(c, l.id)
           /\ \A d \in Clients : ~ (Deleting(d) /\ at[d].id = l.id)
<1>1. GoodLocals(at[c], tried) /\ at \in [Clients -> Locals]
  BY DEF IInv, TypeOK
<1>2. at[c].id \in Identities /\ at[c].payload \in tried[at[c].id]
      /\ (at[c].pc \in {"put", "compare"} => at[c].index \in 1 .. ChunkCount(at[c].payload))
  BY <1>1 DEF GoodLocals, Storing
<1>3. at[c].payload \in Payloads
  BY <1>2 DEF IInv, TypeOK
<1>. QED
  BY <1>1, <1>2, <1>3, ChunkCounts DEF Calm, StoresSound, DeletesSound

\* A step of a store that takes no record away disturbs neither a delete nor
\* another store.
LEMMA StorerStep ==
    ASSUME IInv, NEW c \in Clients, NEW x \in Identities, Storing(c), x = at[c].id,
           Calm(x), tried' = tried, at' = [at EXCEPT ![c] = at'[c]],
           at'[c].pc \notin {"hide", "sweep", "unlink"},
           records[ManifestKey(x)] # None =>
             records'[ManifestKey(x)] = records[ManifestKey(x)],
           \A i \in 1 .. MaxChunks : records[ChunkKey(x, i)] # None =>
             records'[ChunkKey(x, i)] = records[ChunkKey(x, i)],
           RecordsSound(x)', WholeObject(x)', StoreSound(c, x)'
    PROVE  Calm(x)'
<1>1. at \in [Clients -> Locals] /\ \A d \in Clients : ~ (Deleting(d) /\ at[d].id = x)
  BY StorerFacts
<1>2. DeletesSound(x)'
  BY <1>1 DEF DeletesSound, Deleting
<1>3. ASSUME NEW d \in Clients, at'[d].id = x, d # c PROVE StoreSound(d, x)'
  BY <1>1, <1>3, StoreKept
<1>. QED
  BY <1>2, <1>3 DEF Calm, StoresSound

\* The next chunk or the manifest: the chunk under the index is the payload's.
LEMMA AdvanceSound ==
    ASSUME IInv, NEW c \in Clients, NEW x \in Identities, x = at[c].id,
           at[c].pc \in {"put", "compare"}, Calm(x), Advance(c),
           \A i \in 1 .. at[c].index :
             records'[ChunkKey(x, i)] = ChunkOf(at[c].payload, i)
    PROVE  StoreSound(c, x)' /\ at'[c].pc \in {"put", "publish"}
<1>. DEFINE l == at[c]
<1>1. /\ l \in Locals /\ at \in [Clients -> Locals]
      /\ l.index \in 1 .. ChunkCount(l.payload) /\ ChunkCount(l.payload) \in Nat
  BY StorerFacts DEF Storing
<1>2. CASE l.index < ChunkCount(l.payload)
  <2>1. at'[c] = [l EXCEPT !.pc = "put", !.index = @ + 1]
    BY <1>1, <1>2 DEF Advance
  <2>2. at'[c].pc = "put" /\ at'[c].index = l.index + 1 /\ at'[c].payload = l.payload
    BY <1>1, <2>1 DEF Locals
  <2>3. at'[c].index - 1 = l.index
    BY <1>1, <2>2
  <2>. QED
    BY <2>2, <2>3 DEF StoreSound
<1>3. CASE ~ (l.index < ChunkCount(l.payload))
  <2>1. at'[c] = [l EXCEPT !.pc = "publish"]
    BY <1>1, <1>3 DEF Advance, Goes
  <2>2. at'[c].pc = "publish" /\ at'[c].payload = l.payload
    BY <1>1, <2>1 DEF Locals
  <2>3. l.index = ChunkCount(l.payload)
    BY <1>1, <1>3
  <2>. QED
    BY <2>2, <2>3 DEF StoreSound
<1>. QED
  BY <1>2, <1>3

\* store_if_absent of a chunk, for the identity of the store.
LEMMA PutCalm ==
    ASSUME IInv, NEW c \in Clients, NEW x \in Identities, x = at[c].id,
           PutChunk(c), Calm(x)
    PROVE  Calm(x)'
<1>. DEFINE l == at[c]
            k == ChunkKey(x, l.index)
<1>1. /\ l \in Locals /\ at \in [Clients -> Locals] /\ l.pc = "put" /\ Storing(c)
      /\ l.payload \in Payloads /\ l.payload \in tried[x]
      /\ ChunkCount(l.payload) \in 1 .. MaxChunks /\ MaxChunks \in Nat
      /\ l.index \in 1 .. ChunkCount(l.payload)
      /\ StoreSound(c, x)
  BY StorerFacts DEF Storing, PutChunk
<1>2. at' = [at EXCEPT ![c] = at'[c]] /\ tried' = tried /\ acked' = acked
  BY StoreSteps DEF PutChunk, history
<1>3. l.index \in 1 .. MaxChunks /\ l.index \in Nat /\ l.index > 0
  BY <1>1
<1>4. CASE records[k] = None
  <2>1. records' = [records EXCEPT ![k] = ChunkOf(l.payload, l.index)] /\ Advance(c)
    BY <1>4 DEF PutChunk, Writes
  <2>2. /\ DOMAIN records = DeviceKeys /\ k \in DeviceKeys
        /\ ManifestKey(x) \in DeviceKeys /\ ManifestKey(x) # k
        /\ \A i \in 1 .. MaxChunks : ChunkKey(x, i) \in DeviceKeys
        /\ \A i \in 1 .. MaxChunks : i # l.index => ChunkKey(x, i) # k
    BY <1>3, KeyFacts DEF IInv, TypeOK, ChunkKey
  <2>. HIDE DEF k
  <2>3. /\ records'[ManifestKey(x)] = records[ManifestKey(x)]
        /\ records'[k] = ChunkOf(l.payload, l.index)
        /\ \A i \in 1 .. MaxChunks : i # l.index =>
             records'[ChunkKey(x, i)] = records[ChunkKey(x, i)]
    BY <2>1, <2>2
  <2>4. \A i \in 1 .. MaxChunks : records[ChunkKey(x, i)] # None =>
             records'[ChunkKey(x, i)] = records[ChunkKey(x, i)]
    BY <1>4, <2>3 DEF k
  <2>5. RecordsSound(x)'
    BY <1>1, <1>2, <2>3 DEF Calm, RecordsSound, k
  <2>6. WholeObject(x)'
    <3>1. CASE records[ManifestKey(x)] = None
      BY <1>2, <2>3, <3>1 DEF Calm, WholeObject
    <3>2. CASE records[ManifestKey(x)] # None
      <4>1. PICK p \in tried[x] :
               /\ p \in Payloads
               /\ records[ManifestKey(x)].chunks = ChunkCount(p)
               /\ records[ManifestKey(x)].sha256 = p
               /\ ChunkCount(p) \in 1 .. MaxChunks
        BY <3>2, CalmManifest DEF Calm
      <4>2. \A i \in 1 .. ChunkCount(p) : i \in 1 .. MaxChunks /\ i \in Nat /\ i >= 1
        BY <1>1, <4>1
      <4>3. \A i \in 1 .. ChunkCount(p) : records[ChunkKey(x, i)] = ChunkOf(p, i)
        BY <3>2, <4>1 DEF Calm, WholeObject
      <4>4. \A i \in 1 .. ChunkCount(p) : records'[ChunkKey(x, i)] = ChunkOf(p, i)
        BY <2>4, <4>1, <4>2, <4>3, ChunkTypes
      <4>. QED
        BY <1>2, <2>3, <3>2, <4>1, <4>4 DEF Calm, WholeObject
    <3>. QED
      BY <3>1, <3>2
  <2>7. \A i \in 1 .. l.index : records'[ChunkKey(x, i)] = ChunkOf(l.payload, i)
    <3>1. \A i \in 1 .. l.index : i = l.index \/ (i \in 1 .. l.index - 1 /\ i \in 1 .. MaxChunks
                                                 /\ i # l.index)
      BY <1>1, <1>3
    <3>2. \A i \in 1 .. l.index - 1 : records[ChunkKey(x, i)] = ChunkOf(l.payload, i)
      BY <1>1 DEF StoreSound
    <3>. QED
      BY <2>3, <3>1, <3>2 DEF k
  <2>8. StoreSound(c, x)' /\ at'[c].pc \in {"put", "publish"}
    BY <1>1, <2>1, <2>7, AdvanceSound
  <2>. QED
    BY <1>1, <1>2, <2>3, <2>4, <2>5, <2>6, <2>8, StorerStep
<1>5. CASE records[k] # None
  <2>1. at'[c] = [l EXCEPT !.pc = "compare"] /\ records' = records
    BY <1>1, <1>5 DEF PutChunk, Goes
  <2>2. at'[c].pc = "compare" /\ at'[c].payload = l.payload /\ at'[c].index = l.index
    BY <1>1, <2>1 DEF Locals
  <2>3. StoreSound(c, x)'
    BY <1>1, <1>5, <2>1, <2>2 DEF StoreSound
  <2>4. RecordsSound(x)' /\ WholeObject(x)'
    BY <1>2, <2>1 DEF Calm, RecordsSound, WholeObject
  <2>. QED
    BY <1>1, <1>2, <2>1, <2>2, <2>3, <2>4, StorerStep
<1>. QED
  BY <1>4, <1>5

\* The comparison with a chunk that was there.
LEMMA CompareCalm ==
    ASSUME IInv, NEW c \in Clients, NEW x \in Identities, x = at[c].id,
           CompareChunk(c), Calm(x)
    PROVE  Calm(x)'
<1>. DEFINE l == at[c]
            k == ChunkKey(x, l.index)
<1>1. /\ l \in Locals /\ at \in [Clients -> Locals] /\ l.pc = "compare" /\ Storing(c)
      /\ l.payload \in Payloads /\ l.payload \in tried[x]
      /\ ChunkCount(l.payload) \in 1 .. MaxChunks /\ MaxChunks \in Nat
      /\ l.index \in 1 .. ChunkCount(l.payload)
      /\ StoreSound(c, x)
  BY StorerFacts DEF Storing, CompareChunk
<1>2. /\ at' = [at EXCEPT ![c] = at'[c]]
      /\ records' = records /\ tried' = tried /\ acked' = acked
  BY StoreSteps DEF CompareChunk, history
<1>3. l.index \in 1 .. MaxChunks /\ l.index \in Nat
  BY <1>1
<1>4. RecordsSound(x)' /\ WholeObject(x)'
  BY <1>2 DEF Calm, RecordsSound, WholeObject
<1>5. StoreSound(c, x)' /\ at'[c].pc \in {"put", "publish", "raised"}
  <2>1. CASE records[k] = ChunkOf(l.payload, l.index)
    <3>1. \A i \in 1 .. l.index : i = l.index \/ i \in 1 .. l.index - 1
      BY <1>3
    <3>2. \A i \in 1 .. l.index : records'[ChunkKey(x, i)] = ChunkOf(l.payload, i)
      BY <1>1, <1>2, <2>1, <3>1 DEF StoreSound
    <3>3. Advance(c)
      BY <2>1 DEF CompareChunk
    <3>. QED
      BY <1>1, <3>2, <3>3, AdvanceSound
  <2>2. CASE records[k] # ChunkOf(l.payload, l.index)
    <3>1. at'[c] = [l EXCEPT !.pc = "raised"]
      BY <1>1, <2>2 DEF CompareChunk, Goes
    <3>2. at'[c].pc = "raised" /\ at'[c].payload = l.payload
      BY <1>1, <3>1 DEF Locals
    <3>3. records[k] # None
      BY <1>1 DEF StoreSound
    <3>4. PICK q \in tried[x] : records[k] = ChunkOf(q, l.index)
      BY <1>3, <3>3 DEF Calm, RecordsSound
    <3>5. tried[x] # {l.payload}
      BY <2>2, <3>4
    <3>. QED
      BY <1>2, <3>2, <3>5 DEF StoreSound
  <2>. QED
    BY <2>1, <2>2
<1>. QED
  BY <1>1, <1>2, <1>4, <1>5, StorerStep

\* store_if_absent of the manifest: every chunk is there by then.
LEMMA PublishCalm ==
    ASSUME IInv, NEW c \in Clients, NEW x \in Identities, x = at[c].id,
           Publish(c), Calm(x)
    PROVE  Calm(x)'
<1>. DEFINE l == at[c]
            k == ManifestKey(x)
<1>1. /\ l \in Locals /\ at \in [Clients -> Locals] /\ l.pc = "publish" /\ Storing(c)
      /\ l.payload \in Payloads /\ l.payload \in tried[x]
      /\ ChunkCount(l.payload) \in 1 .. MaxChunks /\ MaxChunks \in Nat
      /\ StoreSound(c, x)
  BY StorerFacts DEF Storing, Publish
<1>2. at' = [at EXCEPT ![c] = at'[c]] /\ tried' = tried
  BY StoreSteps DEF Publish
<1>3. CASE records[k] = None
  <2>1. /\ records' = [records EXCEPT ![k] = ManifestOf(x, l.payload)]
        /\ at'[c].pc = "idle"
        /\ acked' = [acked EXCEPT ![x] = @ \cup {l.payload}]
    BY <1>1, <1>3, IdleFacts DEF Publish, Writes, Returned
  <2>2. /\ DOMAIN records = DeviceKeys /\ k \in DeviceKeys
        /\ \A i \in 1 .. MaxChunks : ChunkKey(x, i) \in DeviceKeys /\ ChunkKey(x, i) # k
    BY <1>1, KeyFacts DEF IInv, TypeOK
  <2>3. /\ records'[k] = ManifestOf(x, l.payload)
        /\ \A i \in 1 .. MaxChunks : records'[ChunkKey(x, i)] = records[ChunkKey(x, i)]
    BY <2>1, <2>2
  <2>4. acked[x] = {}
    <3>1. ASSUME NEW p \in acked[x] PROVE FALSE
      <4>1. p \in Payloads /\ records[k] = ManifestOf(x, p)
        BY <3>1 DEF Calm, WholeObject, IInv, TypeOK
      <4>. QED
        BY <1>3, <4>1, ManifestTypes
    <3>. QED
      BY <3>1
  <2>5. acked'[x] = {l.payload}
    BY <2>1, <2>4 DEF IInv, TypeOK
  <2>6. RecordsSound(x)'
    BY <1>1, <1>2, <2>3 DEF Calm, RecordsSound
  <2>7. WholeObject(x)'
    <3>1. records'[k].chunks = ChunkCount(l.payload) /\ records'[k].sha256 = l.payload
      BY <1>1, <2>3, ManifestTypes
    <3>2. \A i \in 1 .. ChunkCount(l.payload) :
            i \in 1 .. MaxChunks /\ records[ChunkKey(x, i)] = ChunkOf(l.payload, i)
      BY <1>1 DEF StoreSound
    <3>. QED
      BY <2>3, <2>5, <3>1, <3>2 DEF WholeObject
  <2>8. StoreSound(c, x)'
    BY <2>1 DEF StoreSound
  <2>. QED
    BY <1>1, <1>2, <1>3, <2>1, <2>3, <2>6, <2>7, <2>8, StorerStep
<1>4. CASE records[k] # None
  <2>1. at'[c] = [l EXCEPT !.pc = "recheck"] /\ records' = records /\ acked' = acked
    BY <1>1, <1>4 DEF Publish, Goes
  <2>2. at'[c].pc = "recheck" /\ at'[c].payload = l.payload
    BY <1>1, <2>1 DEF Locals
  <2>3. StoreSound(c, x)'
    BY <1>1, <1>4, <2>1, <2>2 DEF StoreSound
  <2>4. RecordsSound(x)' /\ WholeObject(x)'
    BY <1>2, <2>1 DEF Calm, RecordsSound, WholeObject
  <2>. QED
    BY <1>1, <1>2, <2>1, <2>2, <2>3, <2>4, StorerStep
<1>. QED
  BY <1>3, <1>4

\* The second look at the manifest.
LEMMA RecheckCalm ==
    ASSUME IInv, NEW c \in Clients, NEW x \in Identities, x = at[c].id,
           Recheck(c), Calm(x)
    PROVE  Calm(x)'
<1>. DEFINE l == at[c]
            v == records[ManifestKey(x)]
<1>1. /\ l \in Locals /\ at \in [Clients -> Locals] /\ l.pc = "recheck" /\ Storing(c)
      /\ l.payload \in tried[x]
      /\ StoreSound(c, x)
  BY StorerFacts DEF Storing, Recheck
<1>2. at' = [at EXCEPT ![c] = at'[c]] /\ tried' = tried /\ records' = records
  BY StoreSteps DEF Recheck
<1>3. v # None
  BY <1>1 DEF StoreSound
<1>4. \/ /\ v = ManifestOf(x, l.payload) /\ at'[c].pc = "idle"
         /\ acked' = [acked EXCEPT ![x] = @ \cup {l.payload}]
      \/ /\ v # ManifestOf(x, l.payload) /\ acked' = acked
         /\ at'[c].pc = "raised" /\ at'[c].payload = l.payload
  BY <1>1, IdleFacts DEF Recheck, CheckExisting, Returned, Locals
<1>5. RecordsSound(x)'
  BY <1>2 DEF Calm, RecordsSound
<1>6. WholeObject(x)'
  BY <1>2, <1>4 DEF Calm, WholeObject, IInv, TypeOK
<1>7. StoreSound(c, x)'
  <2>1. CASE at'[c].pc = "raised"
    <3>1. PICK q \in tried[x] : v = ManifestOf(x, q)
      BY <1>3, CalmManifest DEF Calm
    <3>2. tried[x] # {l.payload}
      BY <1>4, <2>1, <3>1
    <3>. QED
      BY <1>2, <1>4, <2>1, <3>2 DEF StoreSound
  <2>. QED
    BY <1>4, <2>1 DEF StoreSound
<1>. QED
  BY <1>1, <1>2, <1>4, <1>5, <1>6, <1>7, StorerStep

\* The call of delete, for its identity.
LEMMA DeleteCalm ==
    ASSUME IInv, NEW c \in Clients, NEW x \in Identities, Delete(c, x), Calm(x),
           x \notin overlapped'
    PROVE  Calm(x)'
<1>. DEFINE v == records[ManifestKey(x)]
<1>1. /\ at' = [at EXCEPT ![c] = at'[c]] /\ at \in [Clients -> Locals]
      /\ records' = records /\ tried' = tried
  BY DeleteSteps DEF Delete, IInv, TypeOK
<1>2. acked'[x] = {}
  BY DEF Delete, IInv, TypeOK
<1>3. \/ at'[c].pc = "idle"
      \/ v # None /\ at'[c].pc \in {"hide", "unlink"}
  <2>1. at'[c] = IF v = None \/ (IsManifest(v) /\ v.identity # x) THEN Idle
                 ELSE [Idle EXCEPT !.pc = IF IsManifest(v) THEN "hide" ELSE "unlink",
                                   !.id = x, !.manifest = v, !.index = 1]
    BY <1>1 DEF Delete
  <2>2. ASSUME NEW pc PROVE
        [Idle EXCEPT !.pc = pc, !.id = x, !.manifest = v, !.index = 1].pc = pc
    BY DEF Idle
  <2>. QED
    BY <2>1, <2>2, IdleFacts
<1>4. v # None => \A d \in Clients : ~ (Storing(d) /\ at[d].id = x)
  BY DEF Delete
<1>5. RecordsSound(x)' /\ WholeObject(x)'
  BY <1>1, <1>2 DEF Calm, RecordsSound, WholeObject
<1>6. DeletesSound(x)'
  <2>1. ASSUME NEW d \in Clients, at'[d].pc \in {"hide", "sweep", "unlink"}, at'[d].id = x
        PROVE  /\ \A e \in Clients : ~ (at'[e].pc \in {"put", "compare", "publish", "recheck"}
                                        /\ at'[e].id = x)
               /\ at'[d].pc = "sweep" => records'[ManifestKey(x)] = None
    <3>1. CASE d = c
      BY <1>1, <1>3, <1>4, <2>1, <3>1 DEF Storing
    <3>2. CASE d # c
      BY <1>1, <1>3, <2>1, <3>2 DEF Calm, DeletesSound, Deleting, Storing
    <3>. QED
      BY <3>1, <3>2
  <2>. QED
    BY <1>2, <2>1 DEF DeletesSound, Deleting, Storing
<1>7. ASSUME NEW d \in Clients, at'[d].id = x, d # c PROVE StoreSound(d, x)'
  BY <1>1, <1>7, StoreKept
<1>8. StoreSound(c, x)'
  BY <1>3 DEF StoreSound
<1>. QED
  BY <1>5, <1>6, <1>7, <1>8 DEF Calm, StoresSound

\* A delete takes a record away: nobody stores, nothing is acknowledged, and a
\* chunk goes only when the manifest is gone.
LEMMA DeleterCalm ==
    ASSUME IInv, NEW c \in Clients, NEW x \in Identities, x = at[c].id, Calm(x),
           Unlink(c) \/ Hide(c) \/ Sweep(c)
    PROVE  Calm(x)'
<1>. DEFINE l == at[c]
<1>1. /\ at \in [Clients -> Locals] /\ l \in Locals
      /\ tried' = tried /\ acked' = acked
      /\ at' = [at EXCEPT ![c] = at'[c]]
      /\ Deleting(c)
  BY DeleteSteps DEF Unlink, Hide, Sweep, history, IInv, TypeOK, Deleting
<1>2. /\ acked[x] = {}
      /\ \A d \in Clients : ~ (Storing(d) /\ at[d].id = x)
  BY <1>1 DEF Calm, DeletesSound
<1>3. \/ at'[c].pc = "idle"
      \/ at'[c].pc = "sweep"
  <2>1. \/ at'[c] = Idle
        \/ at'[c] = [l EXCEPT !.pc = "sweep"]
        \/ at'[c] = [l EXCEPT !.index = @ + 1] /\ l.pc = "sweep"
    BY <1>1 DEF Unlink, Hide, Sweep, Returned, Goes
  <2>. QED
    BY <1>1, <2>1, IdleFacts DEF Locals
<1>4. PICK k : /\ records' = [records EXCEPT ![k] = None]
               /\ k = ManifestKey(x) \/ (l.pc = "sweep" /\ k = ChunkKey(x, l.index))
  BY DEF Unlink, Hide, Sweep, Writes
<1>5. l.pc = "sweep" => records[ManifestKey(x)] = None
  BY <1>1 DEF Calm, DeletesSound
<1>6. /\ DOMAIN records = DeviceKeys /\ ManifestKey(x) \in DeviceKeys
      /\ \A i \in 1 .. MaxChunks : ChunkKey(x, i) \in DeviceKeys
  BY KeyFacts DEF IInv, TypeOK
<1>7. records'[ManifestKey(x)] = None
  BY <1>4, <1>5, <1>6
<1>8. \A i \in 1 .. MaxChunks : \/ records'[ChunkKey(x, i)] = None
                                \/ records'[ChunkKey(x, i)] = records[ChunkKey(x, i)]
  BY <1>4, <1>6
<1>9. RecordsSound(x)'
  BY <1>1, <1>7, <1>8 DEF Calm, RecordsSound
<1>10. WholeObject(x)'
  BY <1>1, <1>2, <1>7 DEF WholeObject
<1>11. DeletesSound(x)'
  BY <1>1, <1>2, <1>3, <1>7 DEF DeletesSound, Storing
<1>12. ASSUME NEW d \in Clients, at'[d].id = x PROVE StoreSound(d, x)'
  <2>1. CASE d = c
    BY <1>3, <2>1 DEF StoreSound
  <2>2. CASE d # c
    BY <1>1, <1>2, <1>12, <2>2 DEF StoreSound, Storing, Calm, StoresSound
  <2>. QED
    BY <2>1, <2>2
<1>. QED
  BY <1>9, <1>10, <1>11, <1>12 DEF Calm, StoresSound

\* The steps of a call leave the records and the history of every identity but
\* the call's own alone.
LEMMA OthersCalm ==
    ASSUME IInv, NEW c \in Clients, NEW id \in Identities, NEW x \in Identities,
           x # id, Calm(x), at' = [at EXCEPT ![c] = at'[c]],
           at'[c].id = id \/ at'[c].pc = "idle",
           \/ records' = records
           \/ \E k, v : k[1] = id /\ records' = [records EXCEPT ![k] = v],
           tried' = tried \/ \E T : tried' = [tried EXCEPT ![id] = T],
           acked' = acked \/ \E A : acked' = [acked EXCEPT ![id] = A]
    PROVE  Calm(x)'
<1>1. /\ at \in [Clients -> Locals]
      /\ DOMAIN records = DeviceKeys /\ ManifestKey(x) \in DeviceKeys
      /\ \A i \in 1 .. MaxChunks : ChunkKey(x, i) \in DeviceKeys
  BY KeyFacts DEF IInv, TypeOK
<1>2. ManifestKey(x)[1] = x /\ \A i \in 1 .. MaxChunks : ChunkKey(x, i)[1] = x
  BY DEF ManifestKey, ChunkKey
<1>3. /\ records'[ManifestKey(x)] = records[ManifestKey(x)]
      /\ \A i \in 1 .. MaxChunks : records'[ChunkKey(x, i)] = records[ChunkKey(x, i)]
  BY <1>1, <1>2
<1>4. tried'[x] = tried[x] /\ acked'[x] = acked[x]
  BY DEF IInv, TypeOK
<1>5. \A d \in Clients : \/ at'[d] = at[d]
                         \/ at'[d].id # x
                         \/ at'[d].pc = "idle"
  BY <1>1
<1>. QED
  BY <1>3, <1>4, <1>5, CalmFrame

\* A load or an interruption changes nothing an identity depends on.
LEMMA LoadCalm ==
    ASSUME IInv, NEW c \in Clients, NEW x \in Identities, Calm(x),
           \/ \E id \in Identities : Load(c, id)
           \/ Fetch(c) \/ Validate(c) \/ Recover(c) \/ Scan(c) \/ Reload(c)
           \/ Interrupt(c)
    PROVE  Calm(x)'
<1>1. records' = records /\ tried' = tried /\ acked' = acked
  BY DEF Load, Fetch, Validate, Recover, Scan, Reload, Interrupt, history
<1>2. at' = [at EXCEPT ![c] = at'[c]] /\ at \in [Clients -> Locals] /\ at[c] \in Locals
  BY LoadSteps, DeleteSteps DEF IInv, TypeOK
<1>3. at'[c].pc \in {"idle", "scan", "reload", "fetch", "validate"}
  <2>1. ASSUME NEW T PROVE Scanning(T).pc \in {"idle", "scan"} /\ Idle.pc = "idle"
    BY DEF Scanning, Idle
  <2>2. ASSUME NEW T, NEW v, NEW id PROVE Opened(id, v, T).pc \in {"idle", "scan", "fetch"}
    <3>1. [Idle EXCEPT !.pc = "fetch", !.id = id, !.manifest = v, !.todo = T].pc = "fetch"
      BY DEF Idle
    <3>. QED
      BY <2>1, <3>1 DEF Opened
  <2>3. CASE Fetch(c)
    <3>1. PICK got, pc : at'[c] = [at[c] EXCEPT !.got = got, !.pc = pc]
                         /\ pc \in {"fetch", "validate"}
      BY <1>2, <2>3 DEF Fetch, Locals
    <3>. QED
      BY <1>2, <3>1 DEF Locals
  <2>4. CASE Scan(c)
    <3>1. PICK k \in at[c].todo :
            \/ at'[c] = [Idle EXCEPT !.pc = "reload", !.id = k[1], !.todo = at[c].todo \ {k}]
            \/ at'[c] = Scanning(at[c].todo \ {k})
      BY <1>2, <2>4 DEF Scan
    <3>2. Scanning(at[c].todo \ {k}).pc \in {"idle", "scan"}
      BY <2>1
    <3>3. [Idle EXCEPT !.pc = "reload", !.id = k[1], !.todo = at[c].todo \ {k}].pc = "reload"
      BY DEF Idle
    <3>. QED
      BY <3>1, <3>2, <3>3
  <2>5. CASE Reload(c)
    <3>1. PICK id, v, T : at'[c] = Opened(id, v, T)
      BY <1>2, <2>5 DEF Reload
    <3>. QED
      BY <2>2, <3>1
  <2>6. CASE \E id \in Identities : Load(c, id)
    <3>1. PICK id, v, T : at'[c] = Opened(id, v, T)
      BY <1>2, <2>6 DEF Load
    <3>. QED
      BY <2>2, <3>1
  <2>7. CASE Validate(c) \/ Recover(c)
    <3>1. PICK T : at'[c] = Scanning(T)
      BY <1>2, <2>7 DEF Validate, Recover
    <3>. QED
      BY <2>1, <3>1
  <2>8. CASE Interrupt(c)
    BY <1>2, <2>1, <2>8 DEF Interrupt, Returned
  <2>. QED
    BY <2>3, <2>4, <2>5, <2>6, <2>7, <2>8
<1>4. \A d \in Clients : \/ at'[d] = at[d]
                         \/ at'[d].pc \in {"idle", "scan", "reload", "fetch", "validate"}
  BY <1>2, <1>3
<1>. QED
  BY <1>1, <1>4, CalmFrame

\* The locals after a step of a store or a delete still name its identity,
\* unless the call is over.
LEMMA SameIdentity ==
    ASSUME IInv, NEW c \in Clients,
           \/ PutChunk(c) \/ CompareChunk(c) \/ Publish(c) \/ Recheck(c)
           \/ Unlink(c) \/ Hide(c) \/ Sweep(c)
    PROVE  /\ at[c].id \in Identities
           /\ at'[c].id = at[c].id \/ at'[c].pc = "idle"
<1>. DEFINE l == at[c]
<1>1. l \in Locals /\ at \in [Clients -> Locals] /\ GoodLocals(l, tried)
  BY DEF IInv, TypeOK
<1>2. l.id \in Identities
  BY <1>1 DEF GoodLocals, PutChunk, CompareChunk, Publish, Recheck, Unlink, Hide, Sweep
<1>3. \/ at' = [at EXCEPT ![c] = Idle]
      \/ \E pc : at' = [at EXCEPT ![c].pc = pc]
      \/ at' = [at EXCEPT ![c].pc = "put", ![c].index = @ + 1]
      \/ at' = [at EXCEPT ![c].index = @ + 1]
      \/ at' = [at EXCEPT ![c].pc = "raised", ![c].id = l.id, ![c].payload = l.payload]
  BY DEF PutChunk, CompareChunk, Publish, Recheck, Advance, Goes, Returned,
         CheckExisting, Unlink, Hide, Sweep
<1>4. at'[c].id = l.id \/ at'[c] = Idle
  BY <1>1, <1>3 DEF Locals
<1>. QED
  BY <1>2, <1>4, IdleFacts

\* Every step keeps CalmInv.
LEMMA NextCalm == IInv /\ [Next]_vars => \A x \in Identities : CalmInv(x)'
<1>. SUFFICES ASSUME IInv, [Next]_vars, NEW x \in Identities,
                     x \notin overlapped', damages' = 0
              PROVE  Calm(x)'
  BY DEF CalmInv
<1>1. x \notin overlapped /\ damages = 0
  <2>1. overlapped \subseteq overlapped'
    BY DEF Next, vars, history, Store, Delete, Load, PutChunk, CompareChunk, Publish,
         Recheck, Fetch, Validate, Recover, Scan, Reload, Unlink, Hide, Sweep,
         Interrupt, Damage
  <2>2. damages' = damages \/ damages' = damages + 1
    BY DEF Next, vars, Store, Delete, Load, PutChunk, CompareChunk, Publish, Recheck,
         Fetch, Validate, Recover, Scan, Reload, Unlink, Hide, Sweep, Interrupt,
         Damage, Call, Within
  <2>. QED
    BY <2>1, <2>2, KvStoreAssumption DEF IInv, TypeOK
<1>2. Calm(x)
  BY <1>1 DEF IInv, CalmInv
<1>3. ASSUME NEW c \in Clients, NEW id \in Identities, NEW p \in Payloads,
             Store(c, id, p)
      PROVE  Calm(x)'
  <2>1. CASE x = id
    BY <1>2, <1>3, <2>1, StoreCalm
  <2>2. CASE x # id
    <3>1. /\ at' = [at EXCEPT ![c] = at'[c]] /\ at \in [Clients -> Locals]
          /\ at[c] \in Locals
      BY <1>3, StoreCall DEF IInv, TypeOK
    <3>2. \/ at'[c] = Idle
          \/ at'[c] = [Idle EXCEPT !.pc = "put", !.id = id, !.payload = p, !.index = 1]
          \/ at'[c] = [at[c] EXCEPT !.pc = "raised", !.id = id, !.payload = p]
      BY <1>3, <3>1 DEF Store, CheckExisting, Returned, Locals
    <3>3. at'[c].id = id \/ at'[c].pc = "idle"
      BY <3>1, <3>2, IdleFacts DEF Locals
    <3>4. /\ records' = records
          /\ tried' = [tried EXCEPT ![id] = tried[id] \cup {p}]
          /\ acked' = acked \/ acked' = [acked EXCEPT ![id] = acked[id] \cup {p}]
      BY <1>3 DEF Store, CheckExisting
    <3>. QED
      BY <1>2, <2>2, <3>1, <3>3, <3>4, OthersCalm
  <2>. QED
    BY <2>1, <2>2
<1>4. ASSUME NEW c \in Clients, NEW id \in Identities, Delete(c, id)
      PROVE  Calm(x)'
  <2>1. CASE x = id
    BY <1>2, <1>4, <2>1, DeleteCalm
  <2>2. CASE x # id
    <3>1. at' = [at EXCEPT ![c] = at'[c]] /\ at \in [Clients -> Locals]
      BY <1>4, DeleteSteps DEF IInv, TypeOK
    <3>2. PICK pc, m : \/ at'[c] = Idle
                       \/ at'[c] = [Idle EXCEPT !.pc = pc, !.id = id, !.manifest = m,
                                                !.index = 1]
      BY <1>4, <3>1 DEF Delete
    <3>3. at'[c].id = id \/ at'[c].pc = "idle"
      <4>1. [Idle EXCEPT !.pc = pc, !.id = id, !.manifest = m, !.index = 1].id = id
        BY DEF Idle
      <4>. QED
        BY <3>2, <4>1, IdleFacts
    <3>4. /\ records' = records /\ tried' = tried
          /\ acked' = [acked EXCEPT ![id] = {}]
      BY <1>4 DEF Delete
    <3>. QED
      BY <1>2, <2>2, <3>1, <3>3, <3>4, OthersCalm
  <2>. QED
    BY <2>1, <2>2
<1>5. ASSUME NEW c \in Clients,
             \/ PutChunk(c) \/ CompareChunk(c) \/ Publish(c) \/ Recheck(c)
             \/ Unlink(c) \/ Hide(c) \/ Sweep(c)
      PROVE  Calm(x)'
  <2>1. CASE x = at[c].id
    BY <1>2, <1>5, <2>1, PutCalm, CompareCalm, PublishCalm, RecheckCalm, DeleterCalm
  <2>2. CASE x # at[c].id
    <3>1. at' = [at EXCEPT ![c] = at'[c]]
      BY <1>5, StoreSteps, DeleteSteps
    <3>2. at[c].id \in Identities /\ (at'[c].id = at[c].id \/ at'[c].pc = "idle")
      BY <1>5, SameIdentity
    <3>3. \A i : ManifestKey(at[c].id)[1] = at[c].id /\ ChunkKey(at[c].id, i)[1] = at[c].id
      BY DEF ManifestKey, ChunkKey
    <3>4. \/ records' = records
          \/ \E k, v : k[1] = at[c].id /\ records' = [records EXCEPT ![k] = v]
      BY <1>5, <3>3 DEF PutChunk, CompareChunk, Publish, Recheck, Unlink, Hide, Sweep,
                        Writes
    <3>5. /\ tried' = tried
          /\ acked' = acked \/ \E A : acked' = [acked EXCEPT ![at[c].id] = A]
      BY <1>5 DEF PutChunk, CompareChunk, Publish, Recheck, CheckExisting, Unlink,
                  Hide, Sweep, history
    <3>. QED
      BY <1>2, <2>2, <3>1, <3>2, <3>4, <3>5, OthersCalm
  <2>. QED
    BY <2>1, <2>2
<1>6. ASSUME NEW c \in Clients,
             \/ \E id \in Identities : Load(c, id)
             \/ Fetch(c) \/ Validate(c) \/ Recover(c) \/ Scan(c) \/ Reload(c)
             \/ Interrupt(c)
      PROVE  Calm(x)'
  BY <1>2, <1>6, LoadCalm
<1>7. CASE Damage
  BY <1>1, <1>7 DEF Damage
<1>8. CASE UNCHANGED vars
  BY <1>2, <1>8, CalmFrame DEF vars, history
<1>. QED
  BY <1>3, <1>4, <1>5, <1>6, <1>7, <1>8 DEF Next

-----------------------------------------------------------------------------
(* Theorems *)

\* The device starts empty and every client idle.
LEMMA InitIInv == Init => IInv
<1>. SUFFICES ASSUME Init PROVE IInv
  OBVIOUS
<1>1. \A c \in Clients : at[c] = Idle
  BY DEF Init
<1>2. Idle \in Locals /\ Idle.pc = "idle"
  BY IdleFacts
<1>3. TypeOK
  BY <1>1, <1>2, KvStoreAssumption DEF Init, TypeOK
<1>4. \A c \in Clients : GoodLocals(at[c], tried)
  BY <1>1, <1>2, GoodIdle
<1>5. \A id \in Identities : records[ManifestKey(id)] = None
        /\ \A i \in 1 .. MaxChunks : records[ChunkKey(id, i)] = None
  BY KeyFacts DEF Init
<1>6. ManifestsTried
  BY <1>5 DEF ManifestsTried, IsManifest
<1>7. ASSUME NEW id \in Identities PROVE Calm(id)
  <2>1. RecordsSound(id)
    BY <1>5 DEF RecordsSound
  <2>2. WholeObject(id)
    BY <1>5 DEF WholeObject, Init
  <2>3. DeletesSound(id) /\ StoresSound(id)
    BY <1>1, <1>2 DEF DeletesSound, StoresSound, StoreSound, Deleting
  <2>. QED
    BY <2>1, <2>2, <2>3 DEF Calm
<1>. QED
  BY <1>3, <1>4, <1>6, <1>7 DEF IInv, CalmInv

\* IInv is inductive.
LEMMA NextIInv == IInv /\ [Next]_vars => IInv'
<1>. SUFFICES ASSUME IInv, [Next]_vars PROVE IInv'
  OBVIOUS
<1>1. \A c \in Clients : GoodLocals(at'[c], tried')
  BY NextClients
<1>2. (\A c \in Clients : GoodLocals(at[c], tried))'
  BY <1>1 DEF GoodLocals
<1>. QED
  BY <1>2, NextTypes, NextManifestsTried, NextCalm DEF IInv

\* In every reachable state the invariant holds.
LEMMA SpecIInv == Spec => []IInv
BY InitIInv, NextIInv, PTL DEF Spec

\* The records of the device, the locals of every call and the history keep
\* their types, whatever the payloads: no plan has more chunks than the longest
\* payload's, no call leaves the keys of its object.
THEOREM SpecTypeOK == Spec => []TypeOK
<1>1. IInv => TypeOK
  BY DEF IInv
<1>. QED
  BY <1>1, SpecIInv, PTL

\* What load and recover_identities return is a whole payload that store was
\* called with for the identity, for every number of clients, every
\* interleaving of their engine calls, any interruption and any damage.
THEOREM SpecLoadsWhole == Spec => []LoadsWhole
<1>1. IInv => LoadsWhole
  <2>. SUFFICES ASSUME IInv, NEW c \in Clients, at[c].pc = "validate",
                       LoadResult(c) # None
                PROVE  LoadResult(c) \in tried[at[c].id]
    BY DEF LoadsWhole
  <2>1. at[c].manifest.sha256 \in tried[at[c].id] \cup {<<>>}
    BY DEF IInv, GoodLocals
  <2>2. /\ LoadResult(c) = at[c].manifest.sha256
        /\ Len(LoadResult(c)) > 0
    BY DEF LoadResult, ValidPayload, ValidManifest
  <2>3. LoadResult(c) # <<>>
    BY <2>2
  <2>. QED
    BY <2>1, <2>2, <2>3
<1>. QED
  BY <1>1, SpecIInv, PTL

\* As long as no store of an identity overlaps a delete of it and nothing is
\* damaged, the manifest makes exactly the chunks of one payload visible, and
\* what a store returned for stays visible until a delete begins.
THEOREM SpecVisibleIsWhole == Spec => []VisibleIsWhole
<1>1. IInv => VisibleIsWhole
  BY DEF IInv, CalmInv, Calm, WholeObject, VisibleIsWhole
<1>. QED
  BY <1>1, SpecIInv, PTL

\* A store conflicts only with another payload, an overlapping delete or a
\* damaged record, so that an interrupted store can be repeated.
THEOREM SpecConflictsHaveCause == Spec => []ConflictsHaveCause
<1>1. IInv => ConflictsHaveCause
  <2>. SUFFICES ASSUME IInv, NEW c \in Clients, at[c].pc = "raised",
                       at[c].id \notin overlapped, ~ (damages > 0)
                PROVE  tried[at[c].id] # {at[c].payload}
    BY DEF ConflictsHaveCause
  <2>1. damages = 0
    BY DEF IInv, TypeOK
  <2>2. at[c].id \in Identities
    BY DEF IInv, GoodLocals
  <2>3. StoreSound(c, at[c].id)
    BY <2>1, <2>2 DEF IInv, CalmInv, Calm, StoresSound
  <2>. QED
    BY <2>3 DEF StoreSound
<1>. QED
  BY <1>1, SpecIInv, PTL
=============================================================================
