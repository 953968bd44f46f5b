---------------------------- MODULE KvObjectStore ----------------------------
(***************************************************************************)
(* nvme-kv/src/lmcache_spdk_connector_kv/kv_store.py and kv_format.py:      *)
(* objects larger than a device value, kept as chunks and a manifest that   *)
(* is stored last and deleted first.                                        *)
(*                                                                          *)
(* Clients (processes with a KvObjectStore each) call store, load, delete   *)
(* and recover_identities on one device. Each call of the KvEngine is one   *)
(* atomic step; between two of them the others may do anything, the engine  *)
(* may raise and the process may stop. The device keeps its records, and    *)
(* may damage one. SHA-256 is taken to be free of collisions: a device key  *)
(* is the pair it is derived from and a checksum is the payload itself.     *)
(* MaxValueBytes splits payloads; that a manifest fits a value as well, or   *)
(* make_object_plan refuses the object, is left out.                        *)
(***************************************************************************)
EXTENDS Naturals, Sequences

LOCAL INSTANCE SequencesExt

CONSTANTS
    Clients,
    Identities,     \* the identities clients use
    Foreign,        \* an identity only a misplaced manifest names
    Payloads,       \* what clients store: sequences of bytes
    MaxValueBytes,  \* engine.max_value_bytes
    MaxCalls,       \* bound: calls in one behaviour
    MaxDamages,     \* bound: records the device damages
    None

ASSUME KvStoreAssumption ==
    /\ Foreign \notin Identities
    /\ MaxValueBytes \in Nat \ {0}
    /\ Payloads \subseteq Seq(Nat) \ {<<>>}
    /\ \E p \in Payloads : \A q \in Payloads : Len(q) <= Len(p)
    /\ None \notin Identities
    /\ None \notin [bytes : Seq(Nat)]
    /\ None \notin [identity : Identities \cup {Foreign}, length : Nat,
                    chunks : Nat, sha256 : Payloads \cup {<<>>}]
    /\ MaxCalls \in Nat
    /\ MaxDamages \in Nat

-----------------------------------------------------------------------------
(* kv_format.py *)

\* Faulty: a partial last chunk is dropped.
ChunkCountDown(p) == Len(p) \div MaxValueBytes

ChunkCount(p) == (Len(p) + MaxValueBytes - 1) \div MaxValueBytes

\* The i-th chunk of make_object_plan.
ChunkOf(p, i) ==
    [bytes |-> SubSeq(p, (i - 1) * MaxValueBytes + 1,
                      IF i * MaxValueBytes < Len(p) THEN i * MaxValueBytes
                                                    ELSE Len(p))]

ManifestOf(id, p) ==
    [identity |-> id, length |-> Len(p), chunks |-> ChunkCount(p), sha256 |-> p]

\* _validate_manifest does not raise. (Identities are not empty and checksums
\* are checksums here.)
ValidManifest(m) == m.length > 0 /\ m.chunks > 0

\* decode_manifest accepts what encode_manifest wrote and nothing else.
IsManifest(v) == v # None /\ "identity" \in DOMAIN v /\ ValidManifest(v)

\* _derive_key: chunk_key, and manifest_key with an index no chunk has.
ChunkKey(id, i) == <<id, i>>
ManifestKey(id) == <<id, 0>>

MaxChunks == CHOOSE n \in {ChunkCount(p) : p \in Payloads} :
                 \A p \in Payloads : ChunkCount(p) <= n

DeviceKeys == Identities \X (0 .. MaxChunks)

\* Faulty: only count and length are compared.
ValidPayloadByLength(m, chunks) ==
    /\ Len(chunks) = m.chunks
    /\ Len(FlattenSeq([i \in DOMAIN chunks |-> chunks[i].bytes])) = m.length

\* validate_payload does not raise.
ValidPayload(m, chunks) ==
    /\ ValidManifest(m)
    /\ Len(chunks) = m.chunks
    /\ LET payload == FlattenSeq([i \in DOMAIN chunks |-> chunks[i].bytes])
       IN Len(payload) = m.length /\ payload = m.sha256

-----------------------------------------------------------------------------
VARIABLES
    records,     \* the device: a value or None per key
    at,          \* client: the step it takes next and its local variables
    tried,       \* identity: payloads store was called with
    acked,       \* identity: payloads a store returned for, since a delete began
    overlapped,  \* identities a store and a delete were under way for together
    damages,     \* records damaged so far
    begun        \* calls so far

history == <<tried, acked, overlapped>>
vars == <<records, at, history, damages, begun>>

Idle == [pc |-> "idle", id |-> None, payload |-> <<>>, index |-> 0,
         manifest |-> None, got |-> <<>>, todo |-> {}]

Init ==
    /\ records = [k \in DeviceKeys |-> None]
    /\ at = [c \in Clients |-> Idle]
    /\ tried = [id \in Identities |-> {}]
    /\ acked = [id \in Identities |-> {}]
    /\ overlapped = {}
    /\ damages = 0
    /\ begun = 0

Storing(c) == at[c].pc \in {"put", "compare", "publish", "recheck"}
Deleting(c) == at[c].pc \in {"hide", "sweep", "unlink"}

\* Client c calls an operation.
Call(c) ==
    /\ at[c].pc = "idle"
    /\ begun < MaxCalls
    /\ begun' = begun + 1
    /\ UNCHANGED damages

Returned(c) == at' = [at EXCEPT ![c] = Idle]
Goes(c, pc) == at' = [at EXCEPT ![c].pc = pc]

\* Step of a call under way: the engine changes the record of key k to v.
Writes(k, v) ==
    records' = [records EXCEPT ![k] = v]
Within == UNCHANGED <<damages, begun>>

-----------------------------------------------------------------------------
(* store *)

\* _check_existing_manifest: the object is there, or KvObjectConflict.
CheckExisting(c, id, p, v) ==
    IF v = ManifestOf(id, p)
    THEN Returned(c) /\ acked' = [acked EXCEPT ![id] = @ \cup {p}]
    ELSE at' = [at EXCEPT ![c].pc = "raised", ![c].id = id, ![c].payload = p]
           /\ UNCHANGED acked

\* make_object_plan and the retrieve of the manifest.
Store(c, id, p) ==
    LET v == records[ManifestKey(id)] IN
    /\ Call(c)
    /\ IF v = None
       THEN at' = [at EXCEPT ![c] = [Idle EXCEPT !.pc = "put", !.id = id,
                                        !.payload = p, !.index = 1]]
              /\ UNCHANGED acked
       ELSE CheckExisting(c, id, p, v)
    /\ tried' = [tried EXCEPT ![id] = @ \cup {p}]
    /\ overlapped' = overlapped \cup
         {i \in {id} : \E d \in Clients : Deleting(d) /\ at[d].id = id}
    /\ UNCHANGED records

\* The next chunk, or the manifest after the last.
Advance(c) ==
    IF at[c].index < ChunkCount(at[c].payload)
    THEN at' = [at EXCEPT ![c].pc = "put", ![c].index = @ + 1]
    ELSE Goes(c, "publish")

\* store_if_absent of a chunk.
PutChunk(c) ==
    LET k == ChunkKey(at[c].id, at[c].index) IN
    /\ at[c].pc = "put"
    /\ IF records[k] = None
       THEN Writes(k, ChunkOf(at[c].payload, at[c].index)) /\ Advance(c)
       ELSE Goes(c, "compare") /\ UNCHANGED records
    /\ Within
    /\ UNCHANGED history

\* Faulty: any chunk that is already there is a conflict.
CompareChunkNever(c) ==
    /\ at[c].pc = "compare"
    /\ Goes(c, "raised")
    /\ Within
    /\ UNCHANGED <<records, history>>

\* The retrieve of a chunk that was there: a leftover of the same object, or
\* KvObjectConflict.
CompareChunk(c) ==
    /\ at[c].pc = "compare"
    /\ IF records[ChunkKey(at[c].id, at[c].index)] = ChunkOf(at[c].payload, at[c].index)
       THEN Advance(c) ELSE Goes(c, "raised")
    /\ Within
    /\ UNCHANGED <<records, history>>

\* store_if_absent of the manifest.
Publish(c) ==
    LET k == ManifestKey(at[c].id) IN
    /\ at[c].pc = "publish"
    /\ IF records[k] = None
       THEN /\ Writes(k, ManifestOf(at[c].id, at[c].payload))
            /\ Returned(c)
            /\ acked' = [acked EXCEPT ![at[c].id] = @ \cup {at[c].payload}]
       ELSE Goes(c, "recheck") /\ UNCHANGED <<records, acked>>
    /\ Within
    /\ UNCHANGED <<tried, overlapped>>

\* Somebody else has published, and may have deleted again.
Recheck(c) ==
    /\ at[c].pc = "recheck"
    /\ CheckExisting(c, at[c].id, at[c].payload, records[ManifestKey(at[c].id)])
    /\ Within
    /\ UNCHANGED <<records, tried, overlapped>>

-----------------------------------------------------------------------------
(* load and recover_identities *)

\* The loop of recover_identities with these keys left.
Scanning(keys) ==
    IF keys = {} THEN Idle ELSE [Idle EXCEPT !.pc = "scan", !.todo = keys]

\* Where a load that found v under the manifest's key goes on; rest: the
\* keys a recovery has still to look at.
Opened(id, v, rest) ==
    IF IsManifest(v) /\ v.identity = id
    THEN [Idle EXCEPT !.pc = "fetch", !.id = id, !.manifest = v, !.todo = rest]
    ELSE Scanning(rest)

Load(c, id) ==
    /\ Call(c)
    /\ at' = [at EXCEPT ![c] = Opened(id, records[ManifestKey(id)], {})]
    /\ UNCHANGED <<records, history>>

\* The retrieve of one chunk.
Fetch(c) ==
    LET m == at[c].manifest
        got == Append(at[c].got, records[ChunkKey(at[c].id, Len(at[c].got) + 1)])
    IN /\ at[c].pc = "fetch"
       /\ at' = [at EXCEPT ![c].got = got,
                           ![c].pc = IF Len(got) = m.chunks THEN "validate" ELSE @]
       /\ Within
       /\ UNCHANGED <<records, history>>

\* What load returns: the payload, or None for a chunk that is missing and
\* whatever validate_payload rejects.
LoadResult(c) ==
    LET got == at[c].got IN
    IF (\A i \in DOMAIN got : got[i] # None) /\ ValidPayload(at[c].manifest, got)
    THEN FlattenSeq([i \in DOMAIN got |-> got[i].bytes]) ELSE None

\* load returns, to its caller or to the loop of recover_identities.
Validate(c) ==
    /\ at[c].pc = "validate"
    /\ at' = [at EXCEPT ![c] = Scanning(at[c].todo)]
    /\ Within
    /\ UNCHANGED <<records, history>>

\* list_keys
Recover(c) ==
    /\ Call(c)
    /\ at' = [at EXCEPT ![c] = Scanning({k \in DeviceKeys : records[k] # None})]
    /\ UNCHANGED <<records, history>>

\* One key of the listing: a manifest under its own key is loaded.
Scan(c) ==
    /\ at[c].pc = "scan"
    /\ \E k \in at[c].todo :
         LET v == records[k]
             rest == at[c].todo \ {k}
         IN at' = [at EXCEPT ![c] =
                     IF IsManifest(v) /\ ManifestKey(v.identity) = k
                     THEN [Idle EXCEPT !.pc = "reload", !.id = k[1], !.todo = rest]
                     ELSE Scanning(rest)]
    /\ Within
    /\ UNCHANGED <<records, history>>

\* The retrieve of the manifest in the load of a recovery.
Reload(c) ==
    /\ at[c].pc = "reload"
    /\ at' = [at EXCEPT ![c] = Opened(@.id, records[ManifestKey(@.id)], @.todo)]
    /\ Within
    /\ UNCHANGED <<records, history>>

-----------------------------------------------------------------------------
(* delete *)

\* The retrieve of the manifest decides: nothing to do, a malformed record to
\* remove, somebody else's, or an object to hide.
Delete(c, id) ==
    LET v == records[ManifestKey(id)] IN
    /\ Call(c)
    /\ at' = [at EXCEPT ![c] =
                IF v = None \/ (IsManifest(v) /\ v.identity # id) THEN Idle
                ELSE [Idle EXCEPT !.pc = IF IsManifest(v) THEN "hide" ELSE "unlink",
                                  !.id = id, !.manifest = v, !.index = 1]]
    /\ acked' = [acked EXCEPT ![id] = {}]
    /\ overlapped' = overlapped \cup
         {i \in {id} : v # None /\ \E s \in Clients : Storing(s) /\ at[s].id = id}
    /\ UNCHANGED <<records, tried>>

Unlink(c) ==
    /\ at[c].pc = "unlink"
    /\ Writes(ManifestKey(at[c].id), None)
    /\ Returned(c)
    /\ Within
    /\ UNCHANGED history

\* Faulty: the chunks go while the manifest still shows them.
HideNothing(c) ==
    /\ at[c].pc = "hide"
    /\ Goes(c, "sweep")
    /\ Within
    /\ UNCHANGED <<records, history>>

\* The manifest goes first.
Hide(c) ==
    /\ at[c].pc = "hide"
    /\ Writes(ManifestKey(at[c].id), None)
    /\ Goes(c, "sweep")
    /\ Within
    /\ UNCHANGED history

\* One chunk.
Sweep(c) ==
    /\ at[c].pc = "sweep"
    /\ Writes(ChunkKey(at[c].id, at[c].index), None)
    /\ IF at[c].index < at[c].manifest.chunks
       THEN at' = [at EXCEPT ![c].index = @ + 1] ELSE Returned(c)
    /\ Within
    /\ UNCHANGED history

-----------------------------------------------------------------------------
(* What can go wrong *)

\* The engine raises, the process stops, or a KvObjectConflict reaches the
\* caller: the call is over, what it did to the device stays.
Interrupt(c) ==
    /\ at[c].pc # "idle"
    /\ Returned(c)
    /\ Within
    /\ UNCHANGED <<records, history>>

Garbage == [bytes |-> <<0>>]

\* A manifest that still names its identity: any length and any count of
\* chunks that fit the device, and its checksum or one of no payload. (One of
\* another payload would be a forgery; a larger count finds a chunk missing, as
\* one that is merely too large does.)
Altered(m) ==
    [identity : {m.identity}, length : 1 .. MaxChunks * MaxValueBytes,
     chunks : 1 .. MaxChunks, sha256 : {m.sha256, <<>>}]

\* A record turns into other bytes, a manifest into one of another object or
\* into another one of its own.
Damage ==
    /\ damages < MaxDamages
    /\ damages' = damages + 1
    /\ \E k \in DeviceKeys :
         /\ records[k] # None
         /\ \/ Writes(k, Garbage)
            \/ k[2] = 0 /\ \E p \in Payloads : Writes(k, ManifestOf(Foreign, p))
            \/ /\ IsManifest(records[k])
               /\ \E m \in Altered(records[k]) : Writes(k, m)
    /\ UNCHANGED <<at, history, begun>>

Next ==
    \/ \E c \in Clients, id \in Identities :
         \/ \E p \in Payloads : Store(c, id, p)
         \/ Load(c, id)
         \/ Delete(c, id)
    \/ \E c \in Clients :
         \/ PutChunk(c) \/ CompareChunk(c) \/ Publish(c) \/ Recheck(c)
         \/ Fetch(c) \/ Validate(c) \/ Recover(c) \/ Scan(c) \/ Reload(c)
         \/ Unlink(c) \/ Hide(c) \/ Sweep(c) \/ Interrupt(c)
    \/ Damage

Spec == Init /\ [][Next]_vars

-----------------------------------------------------------------------------
(* Properties *)

\* A manifest on the device or in a client's hands has a chunk
\* (_validate_manifest) and no more than the plans of make_object_plan;
\* <<>> stands for a checksum of no payload.
Manifest == [identity : Identities \cup {Foreign}, length : Nat \ {0},
             chunks : 1 .. MaxChunks, sha256 : Payloads \cup {<<>>}]
Chunk == [bytes : Seq(Nat)]

\* The locals of a call.
Locals ==
    [pc : {"idle", "put", "compare", "publish", "recheck", "raised", "fetch",
           "validate", "scan", "reload", "unlink", "hide", "sweep"},
     id : Identities \cup {None}, payload : Payloads \cup {<<>>},
     index : 0 .. MaxChunks, manifest : {None} \cup Chunk \cup Manifest,
     got : Seq(Chunk \cup {None}), todo : SUBSET DeviceKeys]

\* Types of the state: what the device keeps under a key, the calls, and the
\* history.
TypeOK ==
    /\ DOMAIN records = DeviceKeys
    /\ \A k \in DeviceKeys :
         records[k] \in {None} \cup Chunk \cup (IF k[2] = 0 THEN Manifest ELSE {})
    /\ at \in [Clients -> Locals]
    /\ \A c \in Clients : at[c].pc \in {"fetch", "validate", "hide", "sweep"} =>
         at[c].manifest \in Manifest
    /\ tried \in [Identities -> SUBSET Payloads]
    /\ acked \in [Identities -> SUBSET Payloads]
    /\ overlapped \subseteq Identities
    /\ damages \in 0 .. MaxDamages
    /\ begun \in 0 .. MaxCalls

\* What load returns, to its caller or inside recover_identities, is a whole
\* payload that store was called with for this identity, whatever stores and
\* deletes ran between its retrieves, wherever a process stopped and whatever
\* the device damaged; anything else is a miss.
LoadsWhole ==
    \A c \in Clients :
        at[c].pc = "validate" /\ LoadResult(c) # None => LoadResult(c) \in tried[at[c].id]

\* "The committed record that makes all chunks of one object visible": as
\* long as no store of an identity overlaps a delete of it and the device
\* damages nothing, a manifest on the device has every chunk of its payload
\* beside it, and a payload a store returned for has its manifest there
\* until a delete begins, wherever calls were interrupted.
VisibleIsWhole ==
    \A id \in Identities \ overlapped : damages = 0 =>
        LET v == records[ManifestKey(id)] IN
        /\ v # None => \A i \in 1 .. v.chunks :
                          records[ChunkKey(id, i)] = ChunkOf(v.sha256, i)
        /\ \A p \in acked[id] : v = ManifestOf(id, p)

\* store raises KvObjectConflict only when another payload was stored under
\* the identity, a delete overlapped, or a record was damaged: repeating a
\* store that was interrupted anywhere, or racing the same store, is safe.
ConflictsHaveCause ==
    \A c \in Clients : at[c].pc = "raised" =>
        \/ tried[at[c].id] # {at[c].payload}
        \/ at[c].id \in overlapped
        \/ damages > 0
=============================================================================
