# Verification of spdk-connector

TLA+ specifications of the LMCache storage connectors in this repository, model
checked with TLC and, for every component with state, proved with TLAPS for all
sizes (section 4). Every
definition that stands for code names the code's function or field in its
comment; `PROJECT.json` maps each to its source lines.

## 1. The system

LMCache hands key-value cache objects to a native plugin. There are two
plugins: `bdev/` keeps objects on an SPDK block device, `nvme-kv/` on an
NVMe-KV namespace. Both are caches: nothing survives a restart of the bdev
plugin, because its page map is in memory.

| Component | State | Operations | Who touches it |
|---|---|---|---|
| `PageExtentAllocator` | ordered map of free extents, free count, one mutex | `allocate`, `release` | every connector worker |
| `SpdkConnector` | `KeyState` per key: mutex and entry (size, extents) | single and batch get/set, exists, delete | ConnectorBase's worker threads |
| `SpdkBdevContext`, I/O | stack-owned batches, one `IoWorker` per SPDK thread with channel, DMA pool and FIFO | `read_batch`/`write_batch`, the SPDK callbacks | callers on ordinary threads, workers on reactors |
| `SpdkBufferPool` | free list of DMA buffers | `initialize`, `try_acquire`, `release`, `release_all` | one SPDK thread |
| `SpdkBdevContext`, lifecycle | published/closed/shutdown flags, worker counts, bdev descriptor | constructor, `close`, bdev events, `request_shutdown` | the owner's thread, the application thread, the workers |
| `SpdkRuntime` | the one SPDK application of the process, claimed bdevs, a reference count | `Acquire`, `ClaimBdev`, `ReleaseBdev`, `stop` | every context |
| `StorageGeometry` | none | derives page, segment and buffer sizes | the opening handler |
| native NVMe-KV connector | one queue pair per worker, a command result on the stack | get, set, exists, delete, polling with a 10 s deadline | ConnectorBase's workers |
| `KvObjectStore` | chunks and a manifest per object on the device | `store`, `load`, `delete`, `recover_identities` | any process with the device |
| Python packages | configuration | parsing, plugin entry points | LMCache |

A store goes: a ConnectorBase worker locks the keys of the batch, reserves
pages in the allocator, hands segments to `SpdkBdevContext`, which spreads them
over the I/O workers; each leases a DMA buffer and submits a bdev command on its
own thread; the completion callback returns the lease and counts the batch
down; the caller wakes, publishes the new entries and releases the replaced
extents, then unlocks.

What is hard: key locks taken several at a time; copy-on-write replacement
with failures at every step; messages, completions and retries on a worker that
has one FIFO and few buffers; a batch on the caller's stack that callbacks point
to; the removal of a bdev while all of this is running; several contexts that
share one SPDK application whose last user must not be its own thread. In the
NVMe-KV plugin: a command whose waiter gave up, but which the device still has;
a delete of two commands; objects of many records that several processes write,
delete and read without a lock, each of which may stop at any point.

Correct means: the allocator never loses a page or gives it out twice and its
free list stays coalesced; the connector is an atomic cache whose batch stores
are all-or-nothing and whose lookups return the value of their key or a miss;
every I/O request completes exactly once and every batch returns; DMA buffers
are neither leaked nor shared; a bdev has one descriptor at a time; whatever
fails, constructors and `close` return and nothing SPDK owns is left behind; an
entry's segments move each of its bytes once and are acceptable to the bdev. On
NVMe-KV: what a request reports is what the device did for it, and it ends even
if the device does not answer; a loaded object is one that was stored, whole.
The hazards, each at its line and with the properties that would catch it, are
in `PROJECT.json`.

## 2. Modules

| Module | Models | Granularity |
|---|---|---|
| `PageReservation` | abstract: a pool of pages with atomic `Reserve`/`Return` | one step per call |
| `PageExtentAllocator` | `page_extent_allocator.cpp` | one step per loop iteration inside the mutex |
| `KeyValueCache` | abstract: a cache with atomic requests | one step per request, between its call and its return |
| `StorageSegments` | `storage_geometry.cpp`, `PagesForBytes` and `AppendSegments`, `validate_item`, the conversion to blocks | operators, over the states of `PageExtentAllocator` |
| `SpdkConnector` | `spdk_connector.cpp` over pages of a bdev | one step per lock, item, page of I/O, release |
| `SpdkBdevIo` | the I/O path of `spdk_bdev_context.cpp` and `spdk_buffer_pool.cpp`, with teardown | one step per submission, completion, message, critical section |
| `SpdkLifecycle` | `spdk_runtime.cpp` and construction/teardown of contexts | one step per critical section, post, notification |
| `NvmeKvConnector` | `native_kv_connector.cpp`, with the device | one step per submission, completion callback, command of the device, end of a wait |
| `KvObjectStore` | `kv_store.py` and `kv_format.py` | one step per call of the `KvEngine` |
| `..._proofs` | the theorems about the module of that name, the refinements included | |
| `QueueOccurrences` | lemmas: how often a queue holds a message, after `Append` and `Tail` | |
| `MC...` | the instances for TLC | |

How they compose: `SpdkConnector` uses the allocator through the contract of
`PageReservation` (`LowestFree` and returning whole reservations), which
`PageExtentAllocator` is proved to implement, and the bdev context through what
`SpdkBdevIo` establishes: each segment ends once, with success or failure, in
any order, before the batch returns. `SpdkBdevIo` starts from a context that
`SpdkLifecycle` published (`AvailableMeansReady`). `StorageSegments` extends
`PageExtentAllocator`: the entries it splits are the allocations of that module's
reachable states, so what it shows holds for the fragmentation that occurs.
`NvmeKvConnector` and `KvObjectStore` stand apart, as in the code: the native
connector maps one object to one value, the object store is written for an engine
that does not exist yet (`KvEngine` is a protocol).

**PageExtentAllocator.** `free_extents` is the `std::map` as a set of
`[first_page, page_count]` records; `op` says which call holds the mutex and in
which loop it is; `result`, `remaining`, `todo` are that call's locals;
`allocations` is what callers own. `MaxUint64` scales down 2^64 - 1, so that the
overflow guard of `release` matters in a small instance. Callers release what
they own, once; `ReleaseRefused` covers calls whose first extent the checks reject,
which throw before anything changed. (A later extent that is bad would throw after
the earlier ones were put back; owners release what `allocate` gave them, so there
is no such call. `RefusalExact` evaluates the checks also between two iterations of
a release. A second release of pages that meanwhile belong to someone else is
accepted by the code: the free list cannot tell. That is why the callers'
discipline is an assumption here and a checked property, `PagesOwnedOnce`, in
`SpdkConnector`.)

**StorageSegments.** A bdev with its configuration is a record; `Refused` is the
disjunction of the throws of `BuildStorageGeometry`, `Opened` the geometries it
builds for `TotalPages` pages. `SegmentsStep` is one iteration of the two loops of
`AppendSegments`: it leaves the extent, throws, or appends a segment; its record
holds the loops' variables (the extent, the position in it, the position in the
value) and the items so far. `AppendSegments` is what `SegmentsLoop` has after as
many iterations as there are extents and bytes, which is enough: an iteration that
does not throw leaves an extent or moves a byte, and after the last extent nothing
changes (`LoopRuns` and `SegmentsOfEntry` prove that it ends there). `MaxBytes` is 2^64 - 1 at the scale of bytes (`MaxUint64` is the
same limit at the scale of pages).

**SpdkConnector.** A worker's `pc` follows the body of the request; `owner` is
the key mutexes. Keys are numbers, ordered as the addresses of their `KeyState`s
are. `reservations` is the vector of `do_batch_set`, and carries the extents
`do_single_delete` moved out. Single get and set are batches of one: they lock,
check, allocate, write, publish and release in the same order. (Two differences
are abstracted: an empty single value is rejected before the lock and not after
it, and a missed single lookup throws where a batch records a miss.) A failed
page write leaves the old, the new or a torn page. `disk` holds one value per
page: bytes inside a page and their padding are data no property tells apart.

**SpdkBdevIo.** Callers run `submit_batch_and_wait`; workers are SPDK threads
with a queue of messages. `todo` is the rest of the dispatch being executed, a
set: the dispatch's vector is in item order, so its next request is the one with
the lowest item (`Earliest`). `draining` is the drain loop, `stopping` the inside
of `shutdown_io_worker`, `notify` the gap between the unlock and `notify_one` in
`complete_request`. SPDK is external: submission accepts, answers ENOMEM or fails;
an accepted command completes once; an exiting thread is destroyed when nothing is
left for it. `SendFails` is a dispatch that cannot be posted, because the worker's
thread is gone or because SPDK has no message left.

**SpdkLifecycle.** Each context has an owner thread whose `pc` follows the
constructor and `close`; `at` is where an SPDK thread is inside a handler that
dropped `state_mutex_`. `Holders` counts `shared_ptr<SpdkRuntime>`s by who has
them. `Failures` names the SPDK calls that may fail: `flag`, `start`, `open`,
`geometry`, `thread`, `init`, `send`, `ack`. A secondary that shuts down posts its
acknowledgement (`TakeShutdown`) and then reads its wrapper to have its thread exit
(`ExitThread`, `at` = `exit`); the application ends (`TakeStop`) when no other thread
is inside a handler.

**NvmeKvConnector.** A worker's `req`, `step`, `cur`, `result` and `staging` are the
locals of `do_single_*`; `sq` and `cq` are its queue pair, `records` the namespace.
The device executes a submitted command at any time, in any order, with success or
an error, or never. `GiveUp` is the deadline or a failed poll: the frame is gone,
the command stays. From then on the pointers the command carries dangle, and what
they hit is a choice: a late `complete` sets the result of the worker's present
request or nothing, a late transfer reads or writes the freed memory or the buffer
of whoever was given it since. `own` records what the device did for the command
a worker waits for; `exposed` that an abandoned command existed at some moment of
the request. A request completed by somebody else's completion leaves its own
command behind in turn, so one timeout can go on for ever; this is why
`AnswersTruthful` speaks of requests that met no abandoned command, and `kv_late`
shows what the others may see.

**KvObjectStore.** `records` maps `<<identity, index>>` to a value, index 0 being
the manifest; SHA-256 has no collisions, so a key is the pair it is derived from
and a checksum is its payload. `at` holds each client's program counter and locals;
a recovery is a loop of loads over `todo`. `Interrupt` ends a call after any of its
steps: the engine raised, the process stopped, or the conflict reached the caller. Engine
calls are atomic: one that raised has either taken effect or never will. (That the
native connector does not give this, a command may still be executed after its call
raised, is part of what `kv_late` shows of it.)
`Damage` replaces a record by other bytes, or a manifest by one that names another
identity or keeps its own and decodes to another length, number of chunks or
checksum (`Altered`). `overlapped` collects identities for which a store and a delete ran at the
same time. For those the code keeps less: the delete may remove chunks that the
store found in place and then published, which leaves a manifest without its chunks
(every load misses, and a store of the same payload returns without writing until
somebody deletes the object). `LoadsWhole` holds for them too.

Operators marked `Faulty` are variants of the definition that follows them, with
a bug someone might write there. They are used by no specification; with one of
them in place of the original, TLC must find the property of the corresponding
entry of `mutants` violated.

## 3. Runs

| Run | Instance | Shows |
|---|---|---|
| `allocator` | 6 pages, 64-bit limit scaled to 7; 61 thousand states | map coalesced, pages partitioned, count exact, internal throws unreachable, refusals exact; implements `PageReservation`. With 22 geometries (12 different page and segment sizes): segments transfer their entry and fit the device |
| `connector` | 2 workers, 2 keys, 4 pages, 9 request shapes, 3 requests; 135 thousand states | pages owned once, reads stay inside their entry, committed pages untouched; implements `KeyValueCache`; requests end |
| `io` | 2 callers (one reads, one writes), 1 worker, 1 buffer, 2 segments per batch, 3 batches, 1 ENOMEM, 1 error, removal; 79 thousand states | each request in one place, leases exact, nobody stranded or overtaken, batches return |
| `io_teardown` | 1 caller, 2 workers, 1 buffer each, 4 segments, 2 batches, 1 ENOMEM, removal; 43 thousand states | shutdown completes after every pool is released, and the batch returns |
| `lifecycle` | 2 contexts for the same bdev, 2 workers, failures of flag/start/geometry/thread/init, events; 36 thousand states | exclusive descriptors, nothing left behind, never joins itself, owners return |
| `lifecycle_faults` | 2 contexts, 2 bdevs, failures of init/open/send/ack, events; 856 thousand states | one teardown only, whatever fails |
| `kv_connector` | 2 connectors, 2 + 1 workers, 1 key, 3 payloads, 2 lengths, queue depth 2, 2 requests; 49 thousand states | answers truthful, one environment, requests and closes end |
| `kv_store` | 2 clients, 1 identity, 3 payloads of 1 or 2 chunks, 5 calls, 1 damaged record; 2.2 million states up to symmetry | loads are whole, manifests have their chunks, conflicts have a cause |
| `io_notify`, `io_buffers`, `lifecycle_open`, `kv_late` | smallest that shows it | violations, section 5 |

Bounds. Six pages give every pattern of free, held and in-transit extents with
both neighbors merging; the theorems remove this bound. In the connector two
large values fill the bdev, so that a replacement finds it exhausted; the
request shapes include both key orders, a repeated key, an empty value, a size
change and a lookup of a repeated key; three requests are enough for one to
free pages that a second reuses while a third reads. One buffer and two segments
make starvation certain; three batches let a batch begin while another is being
torn down, and let one caller reuse its stack. Two workers are the least with an
acknowledgement that has to travel; two contexts the least that share a runtime.
The geometries have one to four bytes in a page and one to twelve pages in a
segment, with and without a transfer limit (also one that is no multiple of the
page) and a partial final write unit, and reach the integer limit. Two requests and
a queue of two give a command left behind and one that meets it, on the same or on
another worker; two connectors are the least that compete for the flag. Payloads of
`kv_store` share their first chunk, differ in the last, or differ in their number of
chunks; five calls let two objects come and go under a load.
Counters of requests, batches, retries and errors are bounds of the model
(`MaxRequests`, `MaxBatches`, `MaxRetries`, `MaxErrors`, `MaxCalls`, `MaxDamages`),
not of the code.
Since bounded behaviours end, deadlock is not checked in these runs; the
liveness properties take its place. The allocator's run checks it.

Fairness. A thread that can run, runs: a worker inside a request, a caller inside a batch, an owner inside its
constructor or `close`, an SPDK thread (polled for ever by its reactor) with a
handler or a message. The bdev ends each command it accepted. No fairness is
assumed of arriving requests, of calls to `close`, of bdev events or of the
destruction of threads. In `kv_connector` nothing is assumed of the device: a
waiting worker's clock reaches the deadline. `kv_store` states no liveness: its
calls have no loops but over chunks and keys. Weak fairness suffices: a key mutex that stays free is
granted, and no property needs it to be granted to a particular waiter under
endless contention, because requests are bounded. With an unbounded stream of
requests `RequestsEnd` would need a fair mutex, which `std::mutex` does not
promise.

## 4. Proofs

Each `..._proofs` module has an invariant `IInv` that is inductive (`Init` gives
it, every step keeps it, it gives the properties), a lemma per action or group of
actions, and one theorem per property. All theorems are about `Spec`, without
fairness. The assumptions on the constants are in the modules that declare them,
and TLC evaluates them on the instances. They say three kinds of things: sizes
are positive numbers; `None`, `Thrown`, `Torn` and `Foreign` differ from the data
they stand beside (in the code they are an absent `optional`, an exception, a torn
page, a foreign identity); and the payloads of an object store have a longest one
(`MaxChunks` is its number of chunks). `LifecycleAssumption` also says that a
context is not a pair: the names of owners and of SPDK threads differ.

**PageExtentAllocator_proofs**, for every number of pages and every limit
(`SizeAssumption`: at least one page, and the count fits the integer type): the
run's six invariants `TypeCorrect`, `AlwaysCoalesced`, `NoPageLostOrShared`,
`CountExact`, `NoCorruption`, `RefusesOnlyOverlaps`, and `RefinesReservation`:
`Spec` implements `PageReservation`. That the map is coalesced and that pages are
partitioned is not inductive: nothing in it says that the extents the scan
collected are still in the map when the second loop looks for them, nor that the
count covers them. `IInv` adds what holds inside the loops: `Scanning` (the result
so far is made of extents of the map, lower than the rest, and together with
`remaining` amounts to the request) and `Carving` (what is still to be cut is at
the front of free extents, and the result is the lowest free pages), that no caller
owns an empty list, and `CountComplementsHeld`, which states the count as the pages
*not* in callers' hands, so that it changes only where the code changes it. The
central lemma is `InsertedSpec`: `insert_free_extent_locked` on a coalesced map and
an extent outside it gives a coalesced map of exactly the pages of both; it rests on
`TouchingIsNeighbor`, the claim of the code's comment that only the immediate
neighbors can touch. The refinement maps a reservation to the return of
`allocate` and a return to the moment `release` takes the lock; `Carving` gives
that the pages are the lowest.

**SpdkConnector_proofs**, for any workers, keys, values, requests and pages:
`SpecTypeOK`, `SpecPagesOwnedOnce`, `SpecReadsStayInEntry` and the action property
`SpecCommittedPagesUntouched`. `PagesOwnedOnce` alone is lost at publication, where
a reservation becomes an entry and the old entry a reservation to be returned: one
needs that the entry is still the one the reservation remembers. That is
`ReservationsSound`, which holds because of `LocksHeld`: from its first statement to
its return a request has the mutex of every key it names, so nobody else changes
those entries. `IoSound` keeps writes to reserved pages and reads to pages of the
locked entry.

Its second part proves `RefinesCache`: `Spec` implements `KeyValueCache`. A store takes effect when it publishes, a lookup when its last
read has ended. `RInv` adds to `IInv` what the data is: a reserved page whose write
has ended holds its item's payload unless a write of the item failed
(`WritesSound`), and a buffer that may still become a hit holds what the pages read
so far hold (`ReadsSound`); other workers cannot disturb either, because their
writes go to pages of their own (`OthersWritesApart`).

**StorageSegments_proofs**, for every bdev and configuration (`SegmentsAssumption`:
their fields are natural numbers), every reachable state of the allocator and every
length the allocation is right for: `SegmentsTransfer` and `SegmentsFit`, that
`SegmentsTransferEntry` and `SegmentsFitDevice` are invariants of the allocator's
`Spec`. Of the allocator they use its proved invariants: an allocation is made of
disjoint nonempty extents inside the bdev. What remains is about one entry.

- `OpenedGeometry`: for a geometry that was not refused, the page is a positive
  multiple of the write unit, the segment size of the page, both within the
  transfer limit, and the pages end before the bdev does. `LengthBounds`: a length
  that `PagesForBytes` gives n pages for ends in the last of them.
- `ExtentVectorOrdered`: the vector has the allocation's extents in page order,
  each once. A `CHOOSE` by rank says so only if every rank is taken: extents apart
  from each other differ in rank, so as many ranks occur as there are extents.
- `LoopAt`, the invariant of the loops: the segments so far pass on the bytes of the
  value without a gap (`Chained`), and split the pages of the extents that were left
  and of the part of the present one that was passed (`Split`). The throw for a segment
  without bytes cannot occur because every page that is left still has bytes of the
  value (`PageLeft`); `LoopStep` takes `LoopAt` through an iteration.
- `WholeFits`: a segment of whole pages within the segment size is one of whole
  blocks and write units, and fits.

The induction over the iterations does without the library's theorems, whose
hypotheses are operators: `NatInSet` is induction for membership in a set, from the
least number outside it, and `IterationExists` builds the sequence of states that
the recursive definition chooses.

**KvObjectStore_proofs**, for any clients, identities, calls and damages:
`SpecTypeOK`, `SpecLoadsWhole`, `SpecVisibleIsWhole`, `SpecConflictsHaveCause`.
`LoadsWhole` needs of the device only `ManifestsTried` (a manifest under its own
identity's key is of a payload somebody stored): a load checks the checksum of what
it put together, so no damage and no race can make it return anything else.
`VisibleIsWhole` needs the history of the identities that no store and delete
overlapped on (`Calm`): a store's chunks stay in place while it goes on
(`StoresSound`), and a delete removes chunks only after the manifest
(`DeletesSound`).

**NvmeKvConnector_proofs**, for any connectors, workers, keys and requests:
`SpecTypeOK`, `SpecOneEnvironment`, `SpecAnswersTruthful`. `OneEnvironment` rests on
one connector at most having the flag (`ConnectorsSound`). `AnswersTruthful` needs,
for a request that met no abandoned command, that the only command that could set
its result is its own, and what the device did for it when it answers (`Did`).

**SpdkLifecycle_proofs**, for any contexts, bdevs and workers. At two levels.

- Whatever fails: `SpecTypeOK`, `SpecTeardownStartsOnce`, `SpecAvailableMeansReady`,
  from `IInv`. `TeardownOnce` says that the right to start a context's teardown is
  in one place at most: with the owner about to post it, with a handler about to
  post it, in the application thread's queue, or used. `InitCounted` says that
  `initializing` is the number of workers whose initialization is still to run
  (in the application thread's handler or at the head of a secondary's queue), so
  that the context is published by the last of them, when no worker without a pool
  is left. `BeforeOpen` gives both their start. Counting messages in queues is what
  `QueueOccurrences` is for.
- When `open`, `send` and `ack` do not fail (`Contained`; all other failures and
  bdev events may happen): `SpecDescriptorsExclusive`, `SpecResourcesReleasedFirst`
  and `SpecNeverJoinsItself`, from `CInv`. It adds `RuntimeSound` (who is in the
  registry, who has a pointer to the runtime, and that a context has its claim as
  long as its owner is in a call, or open, or waits for the teardown) and
  `TeardownSound`: `shutting` is the number of shutdown messages and
  acknowledgements on their way, whoever still has a pool or something to run
  (other than the exit of a thread that has acknowledged) is among the workers to stop, and a context whose shutdown is complete has nothing
  left with SPDK (`Still`). The hypothesis is not a convenience: TLC finds
  `NeverJoinsItself` violated with `open` failures, `ResourcesReleasedFirst` with
  `ack` failures, and all three with `send` failures (sections 5 and 6).

**SpdkBdevIo_proofs**, for any callers, workers, buffers and items, any number of
batches, retries and errors, and a bdev event at any time: `SpecTypeOK`,
`SpecRequestsInOnePlace`, `SpecLeasesExact`, `SpecNoStrandedRequest`,
`SpecPoolsReleasedFirst` and the action property `SpecNoOvertaking`. `IInv` has
three parts that each step is taken through separately.

- `CallerSound` and `PlaceSound`. `Here(r, w)` counts the references worker `w` has
  to request `r`; a request that is waited for and was posted is with its own worker
  (`Home`) once, and no worker has any other. `RequestsInOnePlace` speaks of a
  request's own worker only and is not inductive: without "no other worker has it"
  the completion of a request elsewhere would go unnoticed, and a new batch, whose
  requests get other workers, would meet its predecessor's leftovers. The steps of
  the workers then fall into those that move a request (`Moved`: every count stays)
  and those that complete one (`Left`: one count goes down by one).
- `PoolSound` and `LeaseSound`: free list and leases make up the pool, and what waits
  in the FIFO waits because no buffer is free, unless the drain is under way. That
  is the argument for `NoStrandedRequest` and `NoOvertaking`: while the FIFO is not
  empty only the drain submits, from its head, and outside the drain a free buffer
  means an empty FIFO, so an ENOMEM has nothing to drain.
- `TeardownSound`: the right to begin is in one message at most; after
  `begin_shutdown_on_app_thread` the count is that of the workers with a pool and
  of the acknowledgements under way (`Begun`), so zero means no pool is left.

A proof that failed changed a model: the two guards of a `CASE` in
`NvmeKvConnector.Reply` overlapped, so TLC took the first and the logic said nothing;
it is an `IF` now, as in the code. A proof that could not be stated changed another:
`todo` in `SpdkBdevIo` was a sequence filtered out of all requests, which needs an
induction to reason about, and is a set with `Earliest` now; the reachable states
are as many as before. `AppendSegments` was a recursion that put each item in front
of the items of the rest, about which no induction over the iterations can be
stated; as a step that is repeated it has the loops' own variables.

Every invariant and action property that a passing run checks, and both refinements,
are stated by a theorem. Only model-checked is liveness (`RequestsEnd`, `BatchesReturn`, `ShutdownEnds`, `OwnersReturn` and the others), since
the prover does not treat fairness; and the four violations of section 5.

## 5. Where the code and its documentation part

1. `io_notify` (`NotifiesLiveBatch`). `complete_request` notifies the batch's
   condition variable after it dropped the batch's mutex; the caller may have
   seen `remaining == 0` by itself and destroyed the batch. The comment at
   `spdk_bdev_context.cpp:731` says no callback retains the pointer then.
2. `io_buffers` (`InFlightBuffersExist`). `shutdown_io_worker` frees the DMA pool
   without waiting for the commands that use it. The completions survive it (the
   throws of the pool are caught, and `io`/`io_teardown` show that each request
   still completes once), the memory the device transfers to does not.
3. `lifecycle_open` (`CallbacksFindContext`). After a failed open the handler goes
   on using the context that its publication allowed the constructor to destroy,
   if another context keeps the runtime running. With a single context the same
   window lets the handler's local `shared_ptr` be the last one, so `stop()` would
   run on, and join, its own thread: `NeverJoinsItself` therefore is checked in a
   run without `open` failures.
4. `kv_late` (`StoresCompleteOnDevice`). A request that gives up in
   `wait_for_completion` leaves its command outstanding, with a `CommandResult` on a
   frame that is gone. The next request of the worker builds its own in the same
   place, and the late completion finishes it: a store returns success before the
   device has executed it, against `nvme-kv/docs/architecture.md:114-116`.
   The staging buffers have the same fate: with three requests an abandoned RETRIEVE
   may also write into the buffer of a later set, whose STORE then stores other bytes
   (the second clause of the property), and an abandoned STORE may read memory that
   was freed or given to another request, which leaves bytes under the key of a set
   that threw.

Two handlers have the shape of 1 as well. `finish_shutdown_on_app_thread` calls
`notify_all` after the unlock, on a context whose owner may be gone; and
`shutdown_io_worker` reads `worker->thread`, to have the thread exit, after it has
posted the acknowledgement that may let `close()` return and the context be destroyed
with its workers. `CallbacksFindContext` covers both, and for these nothing has to
fail: with `Failures = {}` and no events in `MCSpdkLifecycleOpen.cfg`, TLC finds it
violated by `TakeShutdown`, `TakeAck`, `CloseReleases` and `Drop` before `ExitThread`,
while another context keeps the runtime alive. (A last owner joins the runtime's
thread first, so it waits for them.)

Two more places where the code does less than its comments suggest are in the
models without a run of their own. A worker that cannot deliver its shutdown
acknowledgement stops the application "instead of hanging"
(`spdk_bdev_context.cpp:628-629`); nothing then sets `shutdown_complete_` and
`close()` waits for ever, so `OwnersReturn` is checked without `ack` failures. And
`do_single_get` copies as many bytes as the caller asked for whatever the length of
the record: a shorter record is filled with zeros, a longer one cut off, and the
request succeeds (`Fit` in `Truthful`).

## 6. Not modelled

- Metrics, JSON event records, `last_error` texts, CPU pinning, core masks,
  Python bindings and configuration parsing: no control depends on them, or they
  are string handling.
- The text of a manifest (JSON, base64) and SHA-256: `IsManifest` and `ValidPayload`
  state what decoding and checking accept. That a manifest is small enough for one
  value, which `make_object_plan` checks, is left out.
- ConnectorBase's queues and batching, SPDK and the devices: external, modelled
  from how this code uses them.
- A send failure of the shutdown message while requests wait in that worker's
  FIFO: needs the I/O and the lifecycle model together.

## 7. Plan

Done: `PageReservation`, `PageExtentAllocator`, `KeyValueCache`, `SpdkConnector`,
`NvmeKvConnector`, `KvObjectStore`, `SpdkLifecycle` and `SpdkBdevIo`, with their
proofs and both refinements; `StorageSegments` with its proofs.

Next: a send failure of the shutdown message in the I/O model, which breaks
`BatchesReturn` but should keep `RequestsInOnePlace`.
