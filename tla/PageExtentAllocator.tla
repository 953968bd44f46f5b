------------------------- MODULE PageExtentAllocator -------------------------
(***************************************************************************)
(* bdev/csrc/page_extent_allocator.cpp: the first-fit allocator of fixed    *)
(* size pages that places every object of the bdev connector.               *)
(*                                                                          *)
(* The std::map free_extents_ (first page -> page count) is the set of its  *)
(* entries, each a PageExtent record. mutex_ is held exactly while op is    *)
(* not "idle", so the calls of all threads are one after another; each      *)
(* iteration of a loop is a step, which exposes the free list in the states *)
(* where the code's internal checks (the logic_error and invalid_argument   *)
(* throws) are evaluated. A vector of extents is the set of its elements:   *)
(* allocate fills it in ascending page order and every loop over one visits *)
(* it in that order.                                                        *)
(***************************************************************************)
EXTENDS Naturals, FiniteSets

CONSTANTS
    TotalPages,   \* total_page_count_
    MaxUint64     \* std::numeric_limits<std::uint64_t>::max(), scaled down

\* The constructor rejects 0 pages; the count is itself a std::uint64_t.
ASSUME SizeAssumption ==
    /\ TotalPages \in Nat \ {0}
    /\ MaxUint64 \in Nat
    /\ TotalPages <= MaxUint64

VARIABLES
    free_extents,      \* free_extents_
    free_page_count,   \* free_page_count_
    op,                \* the call inside mutex_: "idle", "scan", "carve", "release"
    requested,         \* allocate: page_count
    remaining,         \* allocate: remaining
    result,            \* allocate: result
    todo,              \* the extents the current loop has not visited
    allocations,       \* the vectors callers own: returned and not yet released
    outcome            \* how the last call that ended did, and what an
                       \* exhausted one had asked for

vars == <<free_extents, free_page_count, op, requested, remaining, result,
          todo, allocations, outcome>>

-----------------------------------------------------------------------------
(* Extents *)

Uint64 == 0 .. MaxUint64

PageNumbers == 0 .. TotalPages - 1

PageExtent == [first_page : Uint64, page_count : Uint64]

End(e) == e.first_page + e.page_count

Covers(e, p) == e.first_page <= p /\ p < End(e)

\* The pages of all extents of S.
PagesOf(S) == {p \in PageNumbers : \E e \in S : Covers(e, p)}

\* e comes first in the order of the map.
IsLowest(e, S) == e \in S /\ \A d \in S : e.first_page <= d.first_page

-----------------------------------------------------------------------------
Init ==
    /\ free_extents = {[first_page |-> 0, page_count |-> TotalPages]}
    /\ free_page_count = TotalPages
    /\ op = "idle"
    /\ requested = 0
    /\ remaining = 0
    /\ result = {}
    /\ todo = {}
    /\ allocations = {}
    /\ outcome = [result |-> "ok", pages |-> 0]

(* allocate *)

\* The argument and capacity checks pass and the scan begins.
Allocate(n) ==
    /\ op = "idle"
    /\ n > 0
    /\ n <= free_page_count
    /\ op' = "scan"
    /\ requested' = n
    /\ remaining' = n
    /\ result' = {}
    /\ UNCHANGED <<free_extents, free_page_count, todo, allocations, outcome>>

\* "page allocation must not be empty"
AllocateNothing ==
    /\ op = "idle"
    /\ outcome' = [result |-> "refused", pages |-> 0]
    /\ UNCHANGED <<free_extents, free_page_count, op, requested, remaining,
                   result, todo, allocations>>

\* Faulty: the capacity check compares with >=.
AllocateExhaustedEarly(n) ==
    /\ op = "idle"
    /\ n >= free_page_count
    /\ outcome' = [result |-> "exhausted", pages |-> n]
    /\ UNCHANGED <<free_extents, free_page_count, op, requested, remaining,
                   result, todo, allocations>>

\* "page allocator capacity exhausted"
AllocateExhausted(n) ==
    /\ op = "idle"
    /\ n > free_page_count
    /\ outcome' = [result |-> "exhausted", pages |-> n]
    /\ UNCHANGED <<free_extents, free_page_count, op, requested, remaining,
                   result, todo, allocations>>

\* One iteration of the first-fit scan. The loop ends when nothing remains.
ScanStep ==
    /\ op = "scan"
    /\ \E e \in free_extents :
         /\ IsLowest(e, free_extents \ result)
         /\ LET allocated == IF remaining < e.page_count
                             THEN remaining ELSE e.page_count
                taken == [first_page |-> e.first_page, page_count |-> allocated]
            IN /\ result' = result \cup {taken}
               /\ remaining' = remaining - allocated
               /\ IF remaining = allocated
                  THEN op' = "carve" /\ todo' = result'
                  ELSE UNCHANGED <<op, todo>>
    /\ UNCHANGED <<free_extents, free_page_count, requested, allocations,
                   outcome>>

\* Faulty: the remainder goes back also when it is empty.
RemainderEvenEmpty(e, r) ==
    {[first_page |-> r.first_page + r.page_count,
      page_count |-> e.page_count - r.page_count]}

\* Faulty: the remainder is erased with the extent.
RemainderDropped(e, r) == {}

\* What is left of free extent e after r was cut from its front.
Remainder(e, r) ==
    IF e.page_count = r.page_count
    THEN {}
    ELSE {[first_page |-> r.first_page + r.page_count,
           page_count |-> e.page_count - r.page_count]}

\* One iteration of the second loop: find, erase, emplace.
CarveStep ==
    /\ op = "carve"
    /\ \E r \in todo, e \in free_extents :
         /\ IsLowest(r, todo)
         /\ e.first_page = r.first_page
         /\ e.page_count >= r.page_count
         /\ free_extents' = (free_extents \ {e}) \cup Remainder(e, r)
         /\ todo' = todo \ {r}
    /\ UNCHANGED <<free_page_count, op, requested, remaining, result,
                   allocations, outcome>>

\* Faulty: the pages are not charged to free_page_count_.
AllocateReturnUncharged ==
    /\ op = "carve"
    /\ todo = {}
    /\ allocations' = allocations \cup {result}
    /\ op' = "idle"
    /\ requested' = 0
    /\ result' = {}
    /\ outcome' = [result |-> "ok", pages |-> 0]
    /\ UNCHANGED <<free_extents, free_page_count, remaining, todo>>

\* The count is charged, the lock dropped and the caller owns the result.
AllocateReturn ==
    /\ op = "carve"
    /\ todo = {}
    /\ free_page_count' = free_page_count - requested
    /\ allocations' = allocations \cup {result}
    /\ op' = "idle"
    /\ requested' = 0
    /\ result' = {}
    /\ outcome' = [result |-> "ok", pages |-> 0]
    /\ UNCHANGED <<free_extents, remaining, todo>>

(* release *)

\* std::prev(lower_bound(x)) and lower_bound(x): sets of at most one extent.
Previous(S, x) ==
    {e \in S : /\ e.first_page < x.first_page
               /\ \A d \in S : d.first_page < x.first_page
                                 => d.first_page <= e.first_page}

Following(S, x) ==
    {e \in S : /\ e.first_page >= x.first_page
               /\ \A d \in S : d.first_page >= x.first_page
                                 => e.first_page <= d.first_page}

\* "page extent release overlaps free space": the two neighbor checks of
\* insert_free_extent_locked.
OverlapsNeighbor(S, x) ==
    \/ \E e \in Previous(S, x) : End(e) > x.first_page
    \/ \E e \in Following(S, x) : End(x) > e.first_page

\* Faulty: without the overflow guard the end of the extent wraps.
OutOfRangeUnguarded(x) ==
    \/ x.page_count = 0
    \/ End(x) % (MaxUint64 + 1) > TotalPages

\* "invalid page extent release": the range check, whose sum wraps at 2^64
\* when its overflow guard does not stop it first.
OutOfRange(x) ==
    \/ x.page_count = 0
    \/ x.first_page > MaxUint64 - x.page_count
    \/ End(x) % (MaxUint64 + 1) > TotalPages

Accepts(x) == ~ OutOfRange(x) /\ ~ OverlapsNeighbor(free_extents, x)

\* The neighbor that ends where x begins.
MergePrevious(S, x) == {e \in Previous(S, x) : End(e) = x.first_page}

\* Faulty: only the previous neighbor is merged.
MergeNextNever(S, x) == {}

\* The neighbor that begins where x ends.
MergeNext(S, x) == {e \in Following(S, x) : e.first_page = End(x)}

\* The map after x went into it and absorbed the neighbors it touches.
Inserted(S, x) ==
    LET before == MergePrevious(S, x)
        after == MergeNext(S, x)
        lows == IF before = {} THEN {x.first_page}
                ELSE {e.first_page : e \in before}
        highs == IF after = {} THEN {End(x)} ELSE {End(e) : e \in after}
    IN (S \ (before \cup after))
         \cup {[first_page |-> lo, page_count |-> hi - lo] :
                  lo \in lows, hi \in highs}

\* A caller hands back a vector it owns.
Release(a) ==
    /\ op = "idle"
    /\ op' = "release"
    /\ todo' = a
    /\ allocations' = allocations \ {a}
    /\ UNCHANGED <<free_extents, free_page_count, requested, remaining, result,
                   outcome>>

\* Faulty: an extent goes back into the map and is not counted.
ReleaseStepUncounted ==
    /\ op = "release"
    /\ \E x \in todo :
         /\ IsLowest(x, todo)
         /\ Accepts(x)
         /\ free_extents' = Inserted(free_extents, x)
         /\ todo' = todo \ {x}
    /\ UNCHANGED <<free_page_count, op, requested, remaining, result,
                   allocations, outcome>>

\* One iteration of release.
ReleaseStep ==
    /\ op = "release"
    /\ \E x \in todo :
         /\ IsLowest(x, todo)
         /\ Accepts(x)
         /\ free_extents' = Inserted(free_extents, x)
         /\ free_page_count' = free_page_count + x.page_count
         /\ todo' = todo \ {x}
    /\ UNCHANGED <<op, requested, remaining, result, allocations, outcome>>

ReleaseReturn ==
    /\ op = "release"
    /\ todo = {}
    /\ op' = "idle"
    /\ outcome' = [result |-> "ok", pages |-> 0]
    /\ UNCHANGED <<free_extents, free_page_count, requested, remaining, result,
                   todo, allocations>>

\* A call whose first extent the checks throw out, before anything changed. A
\* later extent is refused only in a vector that adds foreign extents to the
\* caller's own (the code leaves the earlier ones released); what the checks
\* say of any extent between two iterations is RefusalExact's.
ReleaseRefused(x) ==
    /\ op = "idle"
    /\ ~ Accepts(x)
    /\ outcome' = [result |-> "refused", pages |-> 0]
    /\ UNCHANGED <<free_extents, free_page_count, op, requested, remaining,
                   result, todo, allocations>>

Next ==
    \/ \E n \in Uint64 : Allocate(n) \/ AllocateExhausted(n)
    \/ AllocateNothing
    \/ ScanStep
    \/ CarveStep
    \/ AllocateReturn
    \/ \E a \in allocations : Release(a)
    \/ ReleaseStep
    \/ ReleaseReturn
    \/ \E x \in PageExtent : ReleaseRefused(x)

Spec == Init /\ [][Next]_vars

-----------------------------------------------------------------------------
(* Properties *)

\* An extent of at least one page inside the managed range.
ValidExtent == {e \in PageExtent : e.page_count > 0 /\ End(e) <= TotalPages}

Outcome == [result : {"ok", "exhausted", "refused"}, pages : Uint64]

\* The type invariant: what every field of the allocator and local of its two
\* loops holds.
TypeOK ==
    /\ free_extents \subseteq ValidExtent
    /\ free_page_count \in 0 .. TotalPages
    /\ op \in {"idle", "scan", "carve", "release"}
    /\ requested \in 0 .. TotalPages
    /\ remaining \in 0 .. TotalPages
    /\ result \subseteq ValidExtent
    /\ todo \subseteq ValidExtent
    /\ allocations \subseteq SUBSET ValidExtent
    /\ outcome \in Outcome

\* Two extents of a coalesced list neither overlap nor touch.
Apart(d, e) == End(d) < e.first_page \/ End(e) < d.first_page

Coalesced(S) == \A d, e \in S : d # e => Apart(d, e)

\* "The ordered map stays disjoint and maximally coalesced"
\* (page_extent_allocator.cpp:91), also between two iterations of allocate's
\* second loop and of release.
FreeSpaceCoalesced == Coalesced(free_extents)

\* What allocate has cut out of the map and not yet handed over, and what
\* release was given and has not yet put back.
InTransit ==
    CASE op = "carve" -> result \ todo
      [] op = "release" -> todo
      [] OTHER -> {}

\* What the atomic view of the pool calls free.
AvailablePages == PagesOf(free_extents \cup InTransit)

Share(d, e) == \E p \in PageNumbers : Covers(d, p) /\ Covers(e, p)

\* No page is lost and no page has two owners: every page is in the map, in
\* an allocation a caller holds or on its way between the two, in exactly one
\* extent.
PagesPartitioned ==
    /\ \A p \in PageNumbers :
         \/ p \in PagesOf(free_extents)
         \/ p \in PagesOf(InTransit)
         \/ \E a \in allocations : p \in PagesOf(a)
    /\ PagesOf(free_extents) \cap PagesOf(InTransit) = {}
    /\ \A d, e \in InTransit : d # e => ~ Share(d, e)
    /\ \A a \in allocations :
         /\ PagesOf(a) \cap PagesOf(free_extents) = {}
         /\ PagesOf(a) \cap PagesOf(InTransit) = {}
         /\ \A d, e \in a : d # e => ~ Share(d, e)
    /\ \A a, b \in allocations : a # b => PagesOf(a) \cap PagesOf(b) = {}

\* free_page_count_, which allocate trusts to admit a request, is the number
\* of pages in the map whenever the lock is free.
AccountingExact ==
    op = "idle" => free_page_count = Cardinality(PagesOf(free_extents))

\* None of the four throws that guard against corruption can happen: the scan
\* finds the pages the count promised (lines 46-48), each extent it chose is
\* still in the map and large enough (51-53), and an extent a caller owns
\* passes the range and the neighbor checks of release (68-73, 99, 107).
ThrowsUnreachable ==
    /\ op = "scan" => free_extents \ result # {}
    /\ op = "carve" =>
         \A r \in todo : \E e \in free_extents :
            e.first_page = r.first_page /\ e.page_count >= r.page_count
    /\ op = "release" => \A x \in todo : Accepts(x)

\* "Only the immediate neighbors can overlap" (page_extent_allocator.cpp:91):
\* looking at two neighbors, with sums that wrap, refuses exactly the extents
\* that are empty, leave the managed range or share a page with free space.
RefusalExact ==
    \A x \in PageExtent :
        Accepts(x) <=>
            /\ x.page_count > 0
            /\ End(x) <= TotalPages
            /\ \A e \in free_extents : ~ Share(x, e)

\* The pages callers own, those of a vector being released included until
\* its extent is back in the map.
HeldPages ==
    {p \in PageNumbers :
        \/ \E a \in allocations : \E e \in a : Covers(e, p)
        \/ op = "release" /\ \E e \in todo : Covers(e, p)}

\* The count is the complement of what callers own in every state, not only
\* when the lock is free.
CountComplementsHeld ==
    Cardinality(HeldPages) + free_page_count = TotalPages

\* Between two iterations of the scan: result is an initial part of the map
\* that holds fewer pages than the count promised.
Scanning ==
    op = "scan" =>
        /\ result \subseteq free_extents
        /\ remaining > 0
        /\ requested <= free_page_count
        /\ Cardinality(PagesOf(result)) + remaining = requested
        /\ \A r \in result, e \in free_extents \ result :
              r.first_page < e.first_page

\* Between two iterations of the second loop: result holds the requested
\* number of pages, lower than all other free ones, and what is still to be
\* cut is at the front of free extents.
Carving ==
    op = "carve" =>
        /\ todo \subseteq result
        /\ result # {}
        /\ requested <= free_page_count
        /\ Cardinality(PagesOf(result)) = requested
        /\ \A d, e \in result : d # e => ~ Share(d, e)
        /\ \A r \in todo : \E e \in free_extents :
              e.first_page = r.first_page /\ e.page_count >= r.page_count
        /\ \A p \in PagesOf(result),
              q \in AvailablePages \ PagesOf(result) : p < q

\* The inductive invariant behind the theorems of PageExtentAllocator_proofs.
\* FreeSpaceCoalesced and PagesPartitioned alone are not inductive: that the
\* second loop finds what the scan chose rests on Scanning and Carving, and
\* that the scan finds enough on CountComplementsHeld.
IInv ==
    /\ TypeOK
    /\ FreeSpaceCoalesced
    /\ PagesPartitioned
    /\ CountComplementsHeld
    /\ \A a \in allocations : a # {}
    /\ Scanning
    /\ Carving

\* What a caller sees is a pool of pages with atomic calls. A reservation
\* takes effect when allocate returns, a return when release gets the lock.
Reservation ==
    INSTANCE PageReservation
        WITH free <- AvailablePages,
             held <- {PagesOf(a) : a \in allocations},
             outcome <- IF op = "release" THEN [result |-> "ok", pages |-> 0]
                        ELSE outcome

\* The allocator implements the atomic pool: first fit, over any number of
\* fragments, is "the n lowest free pages", and exhaustion is reported exactly
\* when fewer than n pages are free.
ImplementsReservation == Reservation!Spec
=============================================================================
