---------------------------- MODULE SpdkConnector ----------------------------
(***************************************************************************)
(* bdev/csrc/spdk_connector.cpp: the connector's request workers, the       *)
(* per-key mutexes and entries, and the bdev pages the entries point at.    *)
(*                                                                          *)
(* ConnectorBase (LMCache, external) hands each worker one request at a     *)
(* time. PageExtentAllocator is used through the contract PageReservation   *)
(* states: allocate takes the n lowest free pages, release returns them,    *)
(* each in one step, since both hold the allocator's mutex throughout. A    *)
(* page is the unit of I/O: AppendSegments issues at least one segment per  *)
(* extent and no page is in two, so the segments of a batch end one by one  *)
(* and each may fail.                                                       *)
(*                                                                          *)
(* Keys are natural numbers whose order stands for the order of the         *)
(* addresses of their KeyState objects, which LockStates sorts by. A        *)
(* KeyState is made by StateFor on first use and never removed: each key    *)
(* has its own from the start.                                              *)
(***************************************************************************)
EXTENDS Naturals, FiniteSets, Sequences

CONSTANTS
    Workers,      \* worker threads of ConnectorBase
    Keys,         \* object names, a set of naturals
    Values,       \* payloads
    PageCount,    \* geometry().page_count
    PageSize,     \* geometry().page_size in bytes
    Requests,     \* the requests that may arrive: [op, items]
    MaxRequests,  \* bound: requests begun in one behaviour
    None,         \* std::nullopt, no owner, no request
    Torn          \* what a failed write may leave on a page

Ops == {"set", "get", "exists", "delete"}

Item == [key : Keys, size : Nat, value : Values]

ASSUME ConnectorAssumption ==
    /\ Keys \subseteq Nat
    /\ PageCount \in Nat \ {0}
    /\ PageSize \in Nat \ {0}
    /\ MaxRequests \in Nat
    /\ Requests \subseteq [op : Ops, items : Seq(Item) \ {<<>>}]
    /\ Torn \notin Values
    /\ None \notin Workers \cup Values \cup Requests
    /\ None \notin [size : Nat, pages : SUBSET (0 .. PageCount - 1)]
    /\ None \notin [size : Nat, value : Values \cup {Torn}]
    /\ None \notin {"ok", "failed", "yes", "no"}
    /\ \A r \in Requests :
         None \notin [DOMAIN r.items -> Values \cup {Torn, None}]

VARIABLES
    free,        \* the allocator's free pages
    disk,        \* the content of every page of the bdev
    entry,       \* KeyState::entry: None or [size, pages]
    owner,       \* KeyState::mutex: the worker that holds it, or None
    available,   \* context_.is_available()
    pc,          \* where each worker is
    req,         \* the request each worker serves
    idx,         \* the item do_batch_set's loop is at
    reservations, \* do_batch_set's reservations, and what delete took out
    io,          \* bdev I/O outstanding: pairs of item and page
    bad,         \* items with a failed segment
    buf,         \* page contents delivered into each item's buffer
    reply,       \* the request's result once it is decided
    begun        \* number of requests begun

vars == <<free, disk, entry, owner, available, pc, req, idx, reservations, io,
          bad, buf, reply, begun>>

Pages == 0 .. PageCount - 1

Indices(w) == DOMAIN req[w].items

KeyOf(w, i) == req[w].items[i].key

-----------------------------------------------------------------------------
Init ==
    /\ free = Pages
    /\ disk = [p \in Pages |-> Torn]
    /\ entry = [k \in Keys |-> None]
    /\ owner = [k \in Keys |-> None]
    /\ available = TRUE
    /\ pc = [w \in Workers |-> "idle"]
    /\ req = [w \in Workers |-> None]
    /\ idx = [w \in Workers |-> 0]
    /\ reservations = [w \in Workers |-> {}]
    /\ io = [w \in Workers |-> {}]
    /\ bad = [w \in Workers |-> {}]
    /\ buf = [w \in Workers |-> <<>>]
    /\ reply = [w \in Workers |-> None]
    /\ begun = 0

\* A worker of ConnectorBase takes a request off the queue. choose_num_tiles
\* keeps a batch store in one piece. A get may be split into tiles: each tile
\* is a request of its own.
Begin(w, r) ==
    /\ pc[w] = "idle"
    /\ begun < MaxRequests
    /\ begun' = begun + 1
    /\ pc' = [pc EXCEPT ![w] = "lock"]
    /\ req' = [req EXCEPT ![w] = r]
    /\ idx' = [idx EXCEPT ![w] = 1]
    /\ buf' = [buf EXCEPT ![w] = [i \in DOMAIN r.items |-> {}]]
    /\ UNCHANGED <<free, disk, entry, owner, available, reservations, io, bad,
                   reply>>

\* The keys of the request whose mutex the worker does not hold yet: the
\* deduplicated list of LockStates.
Unlocked(w) == {k \in {KeyOf(w, i) : i \in Indices(w)} : owner[k] # w}

\* Faulty: the mutexes are taken in the order of the items.
NextToLockByItem(w) ==
    {KeyOf(w, i) : i \in {i \in Indices(w) :
        /\ KeyOf(w, i) \in Unlocked(w)
        /\ \A j \in Indices(w) : KeyOf(w, j) \in Unlocked(w) => i <= j}}

\* LockStates takes them in the order of their addresses.
NextToLock(w) == {k \in Unlocked(w) : \A j \in Unlocked(w) : k <= j}

\* Faulty: the request does not wait for the holder of the mutex.
LockUnguarded(w) ==
    /\ pc[w] = "lock"
    /\ \E k \in NextToLock(w) :
         /\ owner' = [owner EXCEPT ![k] = w]
         /\ pc' = [pc EXCEPT ![w] = IF Unlocked(w) = {k} THEN req[w].op ELSE "lock"]
    /\ UNCHANGED <<free, disk, entry, available, req, idx, reservations, io,
                   bad, buf, reply, begun>>

\* One mutex is taken. With the last one the request's body begins.
Lock(w) ==
    /\ pc[w] = "lock"
    /\ \E k \in NextToLock(w) :
         /\ owner[k] = None
         /\ owner' = [owner EXCEPT ![k] = w]
         /\ pc' = [pc EXCEPT ![w] = IF Unlocked(w) = {k} THEN req[w].op ELSE "lock"]
    /\ UNCHANGED <<free, disk, entry, available, req, idx, reservations, io,
                   bad, buf, reply, begun>>

(* do_batch_set, and do_single_set, which is the batch of one item *)

PagesForBytes(n) == (n + PageSize - 1) \div PageSize

\* What allocate returns.
LowestFree(n, P) ==
    /\ P \subseteq free
    /\ Cardinality(P) = n
    /\ \A p \in P, q \in free \ P : p < q

\* "batch store contains a duplicate key", "values must not be empty"
Rejected(w, i) ==
    \/ \E j \in Indices(w) : j < i /\ KeyOf(w, j) = KeyOf(w, i)
    \/ req[w].items[i].size = 0

Current(w, i) == entry[KeyOf(w, i)]

\* The key holds a value of another size: immutable, the item is passed over.
Skipped(w, i) ==
    Current(w, i) # None /\ Current(w, i).size # req[w].items[i].size

\* Where the loop goes after item i.
AfterItem(w) ==
    /\ idx' = [idx EXCEPT ![w] = idx[w] + 1]
    /\ pc' = [pc EXCEPT ![w] = IF idx[w] + 1 \in Indices(w) THEN "set" ELSE "submit"]

SkipItem(w) ==
    /\ pc[w] = "set"
    /\ ~ Rejected(w, idx[w])
    /\ Skipped(w, idx[w])
    /\ AfterItem(w)
    /\ UNCHANGED <<free, disk, entry, owner, available, req, reservations, io,
                   bad, buf, reply, begun>>

PagesAt(e) == IF e = None THEN {} ELSE e.pages

\* Faulty: a value of the same size is written in place.
ReserveItemInPlace(w) ==
    /\ pc[w] = "set"
    /\ ~ Rejected(w, idx[w])
    /\ ~ Skipped(w, idx[w])
    /\ \E P \in SUBSET free \cup {PagesAt(Current(w, idx[w]))} :
         /\ IF Current(w, idx[w]) # None THEN P = Current(w, idx[w]).pages
            ELSE LowestFree(PagesForBytes(req[w].items[idx[w]].size), P)
         /\ free' = free \ P
         /\ reservations' = [reservations EXCEPT ![w] = @ \cup
                {[index |-> idx[w], pages |-> P, previous |-> {}]}]
    /\ AfterItem(w)
    /\ UNCHANGED <<disk, entry, owner, available, req, io, bad, buf, reply,
                   begun>>

\* AllocateEntry succeeds and the reservation remembers the entry it replaces.
ReserveItem(w) ==
    /\ pc[w] = "set"
    /\ ~ Rejected(w, idx[w])
    /\ ~ Skipped(w, idx[w])
    /\ \E P \in SUBSET free :
         /\ LowestFree(PagesForBytes(req[w].items[idx[w]].size), P)
         /\ free' = free \ P
         /\ reservations' = [reservations EXCEPT ![w] = @ \cup
                {[index |-> idx[w], pages |-> P,
                  previous |-> PagesAt(Current(w, idx[w]))]}]
    /\ AfterItem(w)
    /\ UNCHANGED <<disk, entry, owner, available, req, io, bad, buf, reply,
                   begun>>

\* The throw of a bad item or of an exhausted allocator reaches the catch
\* block.
ItemThrows(w) ==
    /\ pc[w] = "set"
    /\ \/ Rejected(w, idx[w])
       \/ /\ ~ Skipped(w, idx[w])
          /\ PagesForBytes(req[w].items[idx[w]].size) > Cardinality(free)
    /\ pc' = [pc EXCEPT ![w] = "rollback"]
    /\ reply' = [reply EXCEPT ![w] = "failed"]
    /\ UNCHANGED <<free, disk, entry, owner, available, req, idx, reservations,
                   io, bad, buf, begun>>

Segments(w) ==
    {s \in Indices(w) \X Pages :
        \E r \in reservations[w] : r.index = s[1] /\ s[2] \in r.pages}

\* write_batch hands every reserved page to the bdev; with none reserved it is
\* not called.
SubmitWrites(w) ==
    /\ pc[w] = "submit"
    /\ reservations[w] # {} => available
    /\ io' = [io EXCEPT ![w] = Segments(w)]
    /\ pc' = [pc EXCEPT ![w] = "write"]
    /\ UNCHANGED <<free, disk, entry, owner, available, req, idx, reservations,
                   bad, buf, reply, begun>>

\* write_batch throws because the context is shut down.
SubmitThrows(w) ==
    /\ pc[w] = "submit"
    /\ reservations[w] # {}
    /\ ~ available
    /\ pc' = [pc EXCEPT ![w] = "rollback"]
    /\ reply' = [reply EXCEPT ![w] = "failed"]
    /\ UNCHANGED <<free, disk, entry, owner, available, req, idx, reservations,
                   io, bad, buf, begun>>

\* The bdev ends one page of a write, in any order.
WriteDone(w) ==
    /\ pc[w] = "write"
    /\ \E s \in io[w] :
         /\ disk' = [disk EXCEPT ![s[2]] = req[w].items[s[1]].value]
         /\ io' = [io EXCEPT ![w] = @ \ {s}]
    /\ UNCHANGED <<free, entry, owner, available, pc, req, idx, reservations,
                   bad, buf, reply, begun>>

\* A failed write leaves the page as it was, written, or neither.
WriteFails(w) ==
    /\ pc[w] = "write"
    /\ \E s \in io[w] :
         /\ \E c \in {disk[s[2]], req[w].items[s[1]].value, Torn} :
              disk' = [disk EXCEPT ![s[2]] = c]
         /\ io' = [io EXCEPT ![w] = @ \ {s}]
         /\ bad' = [bad EXCEPT ![w] = @ \cup {s[1]}]
    /\ UNCHANGED <<free, entry, owner, available, pc, req, idx, reservations,
                   buf, reply, begun>>

\* RequireSuccess throws once the whole batch has ended.
WritesThrow(w) ==
    /\ pc[w] = "write"
    /\ io[w] = {}
    /\ bad[w] # {}
    /\ pc' = [pc EXCEPT ![w] = "rollback"]
    /\ reply' = [reply EXCEPT ![w] = "failed"]
    /\ UNCHANGED <<free, disk, entry, owner, available, req, idx, reservations,
                   io, bad, buf, begun>>

ReservationsOf(w, k) == {r \in reservations[w] : KeyOf(w, r.index) = k}

\* Faulty: the results of the writes are not looked at.
PublishUnchecked(w) ==
    /\ pc[w] = "write"
    /\ io[w] = {}
    /\ entry' = [k \in Keys |->
                   IF ReservationsOf(w, k) = {} THEN entry[k]
                   ELSE LET r == CHOOSE r \in ReservationsOf(w, k) : TRUE
                        IN [size |-> req[w].items[r.index].size, pages |-> r.pages]]
    /\ pc' = [pc EXCEPT ![w] = "retire"]
    /\ reply' = [reply EXCEPT ![w] = "ok"]
    /\ UNCHANGED <<free, disk, owner, available, req, idx, reservations, io,
                   bad, buf, begun>>

\* Every write succeeded: the new entries replace the old ones. The worker
\* holds the mutex of each of these keys, so no one sees the assignments
\* halfway.
Publish(w) ==
    /\ pc[w] = "write"
    /\ io[w] = {}
    /\ bad[w] = {}
    /\ entry' = [k \in Keys |->
                   IF ReservationsOf(w, k) = {} THEN entry[k]
                   ELSE LET r == CHOOSE r \in ReservationsOf(w, k) : TRUE
                        IN [size |-> req[w].items[r.index].size, pages |-> r.pages]]
    /\ pc' = [pc EXCEPT ![w] = "retire"]
    /\ reply' = [reply EXCEPT ![w] = "ok"]
    /\ UNCHANGED <<free, disk, owner, available, req, idx, reservations, io,
                   bad, buf, begun>>

First(r, R) == \A q \in R : r.index <= q.index

\* Faulty: the failed reservation is dropped and not released.
RollBackLeaks(w) ==
    /\ pc[w] = "rollback"
    /\ \E r \in reservations[w] :
         /\ First(r, reservations[w])
         /\ reservations' = [reservations EXCEPT ![w] = @ \ {r}]
    /\ UNCHANGED <<free, disk, entry, owner, available, pc, req, idx, io, bad,
                   buf, reply, begun>>

\* The catch block releases one new extent list.
RollBack(w) ==
    /\ pc[w] = "rollback"
    /\ \E r \in reservations[w] :
         /\ First(r, reservations[w])
         /\ free' = free \cup r.pages
         /\ reservations' = [reservations EXCEPT ![w] = @ \ {r}]
    /\ UNCHANGED <<disk, entry, owner, available, pc, req, idx, io, bad, buf,
                   reply, begun>>

\* After publication, or a delete, one replaced extent list is released.
RetirePrevious(w) ==
    /\ pc[w] = "retire"
    /\ \E r \in reservations[w] :
         /\ First(r, reservations[w])
         /\ free' = free \cup r.previous
         /\ reservations' = [reservations EXCEPT ![w] = @ \ {r}]
    /\ UNCHANGED <<disk, entry, owner, available, pc, req, idx, io, bad, buf,
                   reply, begun>>

(* do_batch_get, and do_single_get, which is the batch of one item *)

Hit(w, i) ==
    Current(w, i) # None /\ Current(w, i).size = req[w].items[i].size

\* The segments of the hits go to read_batch; the other items are misses.
SubmitReads(w) ==
    /\ pc[w] = "get"
    /\ (\E i \in Indices(w) : Hit(w, i)) => available
    /\ bad' = [bad EXCEPT ![w] = {i \in Indices(w) : ~ Hit(w, i)}]
    /\ io' = [io EXCEPT ![w] = {s \in Indices(w) \X Pages :
                                  Hit(w, s[1]) /\ s[2] \in Current(w, s[1]).pages}]
    /\ pc' = [pc EXCEPT ![w] = "read"]
    /\ UNCHANGED <<free, disk, entry, owner, available, req, idx, reservations,
                   buf, reply, begun>>

\* read_batch throws: every item becomes a miss.
ReadThrows(w) ==
    /\ pc[w] = "get"
    /\ \E i \in Indices(w) : Hit(w, i)
    /\ ~ available
    /\ bad' = [bad EXCEPT ![w] = Indices(w)]
    /\ pc' = [pc EXCEPT ![w] = "read"]
    /\ UNCHANGED <<free, disk, entry, owner, available, req, idx, reservations,
                   io, buf, reply, begun>>

\* The bdev delivers one page into its item's buffer.
ReadDone(w) ==
    /\ pc[w] = "read"
    /\ \E s \in io[w] :
         /\ buf' = [buf EXCEPT ![w][s[1]] = @ \cup {disk[s[2]]}]
         /\ io' = [io EXCEPT ![w] = @ \ {s}]
    /\ UNCHANGED <<free, disk, entry, owner, available, pc, req, idx,
                   reservations, bad, reply, begun>>

ReadFails(w) ==
    /\ pc[w] = "read"
    /\ \E s \in io[w] :
         /\ bad' = [bad EXCEPT ![w] = @ \cup {s[1]}]
         /\ io' = [io EXCEPT ![w] = @ \ {s}]
    /\ UNCHANGED <<free, disk, entry, owner, available, pc, req, idx,
                   reservations, buf, reply, begun>>

\* The value a set of page contents amounts to.
Assembled(C) == IF \E v \in Values : C = {v}
                THEN CHOOSE v \in Values : C = {v} ELSE Torn

\* per_key_results: the items without a failed segment are hits.
ReadsEnd(w) ==
    /\ pc[w] = "read"
    /\ io[w] = {}
    /\ reply' = [reply EXCEPT ![w] =
                   [i \in Indices(w) |->
                       IF i \in bad[w] THEN None ELSE Assembled(buf[w][i])]]
    /\ pc' = [pc EXCEPT ![w] = "retire"]
    /\ UNCHANGED <<free, disk, entry, owner, available, req, idx, reservations,
                   io, bad, buf, begun>>

(* do_single_exists and do_single_delete *)

Exists(w) ==
    /\ pc[w] = "exists"
    /\ reply' = [reply EXCEPT ![w] = IF Current(w, 1) # None THEN "yes" ELSE "no"]
    /\ pc' = [pc EXCEPT ![w] = "retire"]
    /\ UNCHANGED <<free, disk, entry, owner, available, req, idx, reservations,
                   io, bad, buf, begun>>

\* The entry is moved out first and its pages are released after.
Delete(w) ==
    /\ pc[w] = "delete"
    /\ IF Current(w, 1) = None
       THEN /\ reply' = [reply EXCEPT ![w] = "no"]
            /\ UNCHANGED <<entry, reservations>>
       ELSE /\ reply' = [reply EXCEPT ![w] = "yes"]
            /\ entry' = [entry EXCEPT ![KeyOf(w, 1)] = None]
            /\ reservations' = [reservations EXCEPT ![w] =
                 {[index |-> 1, pages |-> {}, previous |-> Current(w, 1).pages]}]
    /\ pc' = [pc EXCEPT ![w] = "retire"]
    /\ UNCHANGED <<free, disk, owner, available, req, idx, io, bad, buf, begun>>

\* Faulty: the worker goes idle and its future is never completed.
ReturnSilently(w) ==
    /\ pc[w] \in {"rollback", "retire"}
    /\ reservations[w] = {}
    /\ owner' = [k \in Keys |-> IF owner[k] = w THEN None ELSE owner[k]]
    /\ pc' = [pc EXCEPT ![w] = "idle"]
    /\ UNCHANGED <<free, disk, entry, available, req, idx, reservations, io,
                   bad, buf, reply, begun>>

\* The function returns or throws: its locks go out of scope, and
\* ConnectorBase completes the future.
Return(w) ==
    /\ pc[w] \in {"rollback", "retire"}
    /\ reservations[w] = {}
    /\ owner' = [k \in Keys |-> IF owner[k] = w THEN None ELSE owner[k]]
    /\ pc' = [pc EXCEPT ![w] = "idle"]
    /\ req' = [req EXCEPT ![w] = None]
    /\ idx' = [idx EXCEPT ![w] = 0]
    /\ bad' = [bad EXCEPT ![w] = {}]
    /\ buf' = [buf EXCEPT ![w] = <<>>]
    /\ reply' = [reply EXCEPT ![w] = None]
    /\ UNCHANGED <<free, disk, entry, available, reservations, io, begun>>

\* The runtime stops or the bdev is removed: later batches are refused.
ContextLost ==
    /\ available
    /\ available' = FALSE
    /\ UNCHANGED <<free, disk, entry, owner, pc, req, idx, reservations, io,
                   bad, buf, reply, begun>>

\* Everything a worker does once it has a request.
Step(w) ==
    \/ Lock(w)
    \/ SkipItem(w)
    \/ ReserveItem(w)
    \/ ItemThrows(w)
    \/ SubmitWrites(w)
    \/ SubmitThrows(w)
    \/ WriteDone(w)
    \/ WriteFails(w)
    \/ WritesThrow(w)
    \/ Publish(w)
    \/ RollBack(w)
    \/ RetirePrevious(w)
    \/ SubmitReads(w)
    \/ ReadThrows(w)
    \/ ReadDone(w)
    \/ ReadFails(w)
    \/ ReadsEnd(w)
    \/ Exists(w)
    \/ Delete(w)
    \/ Return(w)

Next ==
    \/ \E w \in Workers : Step(w) \/ \E r \in Requests : Begin(w, r)
    \/ ContextLost

Spec == Init /\ [][Next]_vars

\* A worker runs on while it can: the bdev ends every I/O it accepted, and a
\* mutex that stays free is granted.
FairSpec == Spec /\ \A w \in Workers : WF_vars(Step(w))

-----------------------------------------------------------------------------
(* Properties *)

Entry == [size : Nat, pages : SUBSET Pages]

Reservation == [index : Nat, pages : SUBSET Pages, previous : SUBSET Pages]

\* The type invariant: what each field of the connector and each local of a
\* request body holds.
TypeOK ==
    /\ free \subseteq Pages
    /\ disk \in [Pages -> Values \cup {Torn}]
    /\ entry \in [Keys -> Entry \cup {None}]
    /\ owner \in [Keys -> Workers \cup {None}]
    /\ available \in BOOLEAN
    /\ pc \in [Workers -> {"idle", "lock", "submit", "write", "rollback",
                           "retire", "read"} \cup Ops]
    /\ req \in [Workers -> Requests \cup {None}]
    /\ \A w \in Workers : req[w] = None <=> pc[w] = "idle"
    /\ idx \in [Workers -> Nat]
    /\ reservations \in [Workers -> SUBSET Reservation]
    /\ io \in [Workers -> SUBSET (Nat \X Pages)]
    /\ bad \in [Workers -> SUBSET Nat]
    /\ DOMAIN buf = Workers
    /\ \A w \in Workers : pc[w] # "idle" =>
         buf[w] \in [Indices(w) -> SUBSET (Values \cup {Torn})]
    /\ DOMAIN reply = Workers
    /\ begun \in 0 .. MaxRequests

\* The pages a request in progress owns by one of its reservations: the new
\* ones until they are published, the replaced ones after.
HeldBy(w, r) == IF pc[w] = "retire" THEN r.previous ELSE r.pages

\* Every page is free, or part of one entry, or owned by one reservation of
\* one request: across copy-on-write replacement, rollback after any failure
\* and delete, none is leaked and none belongs to two.
PagesOwnedOnce ==
    /\ \A p \in Pages :
         \/ p \in free
         \/ \E k \in Keys : p \in PagesAt(entry[k])
         \/ \E w \in Workers : \E r \in reservations[w] : p \in HeldBy(w, r)
    /\ \A k \in Keys : PagesAt(entry[k]) \cap free = {}
    /\ \A j, k \in Keys : j # k => PagesAt(entry[j]) \cap PagesAt(entry[k]) = {}
    /\ \A w \in Workers : \A r \in reservations[w] :
         /\ HeldBy(w, r) \cap free = {}
         /\ \A k \in Keys : HeldBy(w, r) \cap PagesAt(entry[k]) = {}
         /\ \A v \in Workers : \A q \in reservations[v] :
              v # w \/ q # r => HeldBy(w, r) \cap HeldBy(v, q) = {}

\* "A concurrent Store/Delete therefore cannot free or repurpose extents being
\* read" (spdk_connector.cpp:139-140): a page with a read outstanding belongs
\* to the entry of the key it is read for.
ReadsStayInEntry ==
    \A w \in Workers : pc[w] = "read" =>
        \A s \in io[w] : s[2] \in PagesAt(Current(w, s[1]))

\* No step changes a page of an entry that stays: writes reach unpublished
\* pages only.
CommittedPagesUntouched ==
    [][\A k \in Keys : entry[k] # None /\ entry'[k] = entry[k]
         => \A p \in entry[k].pages : disk'[p] = disk[p]]_vars

\* The value a key holds is what its pages contain.
StoredValue(k) ==
    IF entry[k] = None THEN None
    ELSE [size |-> entry[k].size,
          value |-> Assembled({disk[p] : p \in entry[k].pages})]

Cache == INSTANCE KeyValueCache
            WITH store <- [k \in Keys |-> StoredValue(k)], call <- req

\* The connector implements the cache of atomic requests: concurrent stores,
\* lookups and deletes of overlapping key sets take effect one at a time, a
\* batch store is all-or-nothing whatever fails, and no lookup delivers
\* anything but the value its key holds.
ImplementsCache == Cache!Spec

\* Every request ends: overlapping key sets, in any order and with repeated
\* keys, never deadlock the workers, and no failure leaves one behind.
RequestsEnd ==
    \A w \in Workers : (pc[w] # "idle") ~> (pc[w] = "idle")
=============================================================================
