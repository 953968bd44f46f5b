--------------------------- MODULE PageReservation ---------------------------
(***************************************************************************)
(* What PageExtentAllocator (bdev/csrc/page_extent_allocator.h, lines       *)
(* 24-43) promises its callers, without extents, maps or loops: a pool of   *)
(* page numbers from which a caller reserves the n lowest free pages in one *)
(* atomic step, or is told that the pool is exhausted, and to which it      *)
(* returns a whole reservation at once.                                     *)
(***************************************************************************)
EXTENDS Naturals, FiniteSets

CONSTANTS
    TotalPages,   \* pages 0 .. TotalPages-1 are managed
    MaxUint64     \* the largest value a std::uint64_t holds

VARIABLES
    free,         \* the pages nobody owns
    held,         \* the reservations outstanding: a set of sets of pages
    outcome       \* how the last call that ended did: result "ok", "refused" or
                  \* "exhausted", with the pages an exhausted call asked for

Pages == 0 .. TotalPages - 1

Init ==
    /\ free = Pages
    /\ held = {}
    /\ outcome = [result |-> "ok", pages |-> 0]

\* allocate(n) gives the n lowest free pages to a new reservation.
Reserve(n) ==
    /\ n > 0
    /\ \E P \in SUBSET free :
         /\ Cardinality(P) = n
         /\ \A p \in P, q \in free \ P : p < q
         /\ free' = free \ P
         /\ held' = held \cup {P}
    /\ outcome' = [result |-> "ok", pages |-> 0]

\* allocate(n) fails, and changes nothing, only when fewer than n pages are free.
Exhausted(n) ==
    /\ n > Cardinality(free)
    /\ outcome' = [result |-> "exhausted", pages |-> n]
    /\ UNCHANGED <<free, held>>

\* release gives every page of one reservation back.
Return(P) ==
    /\ held' = held \ {P}
    /\ free' = free \cup P
    /\ outcome' = [result |-> "ok", pages |-> 0]

\* A call with an argument the allocator does not accept changes nothing.
Refuse ==
    /\ outcome' = [result |-> "refused", pages |-> 0]
    /\ UNCHANGED <<free, held>>

Next ==
    \/ \E n \in 0 .. MaxUint64 : Reserve(n) \/ Exhausted(n)
    \/ \E P \in held : Return(P)
    \/ Refuse

vars == <<free, held, outcome>>

Spec == Init /\ [][Next]_vars
=============================================================================
