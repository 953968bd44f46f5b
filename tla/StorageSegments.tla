--------------------------- MODULE StorageSegments ---------------------------
(***************************************************************************)
(* From the pages an allocation owns to the commands the bdev gets:         *)
(* storage_geometry.cpp, PagesForBytes and AppendSegments of                *)
(* spdk_connector.cpp, validate_item and the conversion to blocks of        *)
(* spdk_bdev_context.cpp, put on top of PageExtentAllocator: the entries    *)
(* split up here are the allocations that module reaches.                   *)
(*                                                                          *)
(* A bdev and its configuration are a record. An exception is an outcome    *)
(* (Refused, ThrowItem). Buffers, a pointer in the code, are the offset     *)
(* into the caller's value.                                                 *)
(***************************************************************************)
EXTENDS PageExtentAllocator, Sequences

CONSTANTS
    Bdevs,         \* the bdevs and configurations a context may open
    MaxBytes       \* the largest uint64_t, at the scale of these bytes

ASSUME SegmentsAssumption ==
    /\ MaxBytes \in Nat
    /\ Bdevs \subseteq [num_blocks : Nat, block_size : Nat, write_unit_blocks : Nat,
                        buffer_alignment : Nat, io_segment_size : Nat,
                        max_rw_blocks : Nat, buffer_count : Nat]

Smaller(a, b) == IF a < b THEN a ELSE b

-----------------------------------------------------------------------------
(* BuildStorageGeometry *)

\* CheckedMultiply throws.
Overflows(left, right) == left # 0 /\ right > MaxBytes \div left

IsPowerOfTwo(value) == \E n \in 0 .. value : value = 2 ^ n

PageSize(b) == b.block_size * b.write_unit_blocks

\* bdev_max_rw_size_blocks = 0 means that the bdev sets no limit.
EffectiveSegmentSize(b) ==
    IF b.max_rw_blocks = 0 THEN b.io_segment_size
    ELSE Smaller(b.io_segment_size,
                 ((b.max_rw_blocks * b.block_size) \div PageSize(b)) * PageSize(b))

\* Faulty: a partial final write unit is counted.
PageCountUp(b) == (b.num_blocks * b.block_size + PageSize(b) - 1) \div PageSize(b)

PageCount(b) == (b.num_blocks * b.block_size) \div PageSize(b)

\* BuildStorageGeometry throws.
Refused(b) ==
    \/ 0 \in {b.num_blocks, b.block_size, b.write_unit_blocks, b.buffer_count}
    \/ ~ IsPowerOfTwo(b.buffer_alignment)
    \/ Overflows(b.num_blocks, b.block_size)
    \/ Overflows(b.block_size, b.write_unit_blocks)
    \/ Overflows(b.max_rw_blocks, b.block_size)
    \/ EffectiveSegmentSize(b) < PageSize(b)
    \/ EffectiveSegmentSize(b) % PageSize(b) # 0
    \/ PageCount(b) = 0
    \/ Overflows(PageCount(b), PageSize(b))

BuildStorageGeometry(b) ==
    [page_size |-> PageSize(b),
     page_count |-> PageCount(b),
     usable_capacity_bytes |-> PageCount(b) * PageSize(b),
     io_segment_size |-> EffectiveSegmentSize(b),
     block_size |-> b.block_size,
     bdev |-> b]

\* The geometries an allocator of TotalPages pages is constructed for.
Opened ==
    {BuildStorageGeometry(b) : b \in {x \in Bdevs : ~ Refused(x) /\ PageCount(x) = TotalPages}}

-----------------------------------------------------------------------------
(* The entries of SpdkConnector and their segments *)

\* The lengths PagesForBytes gives this many pages for, without a throw.
LengthsOfPages(g, pages) ==
    {value \in 0 .. g.usable_capacity_bytes :
        /\ value <= MaxBytes - (g.page_size - 1)
        /\ (value + g.page_size - 1) \div g.page_size = pages}

\* The vector of extents of allocation a, which allocate filled in page order.
ExtentVector(a) ==
    [i \in 1 .. Cardinality(a) |->
        CHOOSE e \in a : Cardinality({f \in a : f.first_page < e.first_page}) = i - 1]

\* Stands for the logic_error of AppendSegments.
ThrowItem == [buffer |-> 0, logical_length |-> 0, byte_offset |-> 0, physical_length |-> 0]

\* Faulty: every segment but a value's last is taken to be full.
AppendSegmentsFull(g, entry) ==
    LET Count == (entry.logical_size + g.io_segment_size - 1) \div g.io_segment_size
    IN [i \in 1 .. Count |->
         [buffer |-> (i - 1) * g.io_segment_size,
          logical_length |-> Smaller(g.io_segment_size,
                                     entry.logical_size - (i - 1) * g.io_segment_size),
          byte_offset |-> entry.extents[1].first_page * g.page_size
                            + (i - 1) * g.io_segment_size,
          physical_length |-> g.io_segment_size]]

\* AppendSegments before its first iteration.
SegmentsStart ==
    [extent |-> 1, physical |-> 0, logical |-> 0, items |-> <<>>, thrown |-> FALSE]

\* One iteration of its two loops, in extent s.extent, from byte s.physical of it
\* and byte s.logical of the value on: a segment never crosses an extent's end.
SegmentsStep(g, entry, s) ==
    LET extent == entry.extents[s.extent]
        bytes == extent.page_count * g.page_size
        segment_physical == Smaller(g.io_segment_size, bytes - s.physical)
        segment_logical == Smaller(segment_physical, entry.logical_size - s.logical)
    IN IF s.thrown \/ s.extent > Len(entry.extents) THEN s
       ELSE IF s.physical >= bytes
       THEN [s EXCEPT !.extent = s.extent + 1, !.physical = 0]
       ELSE IF segment_logical = 0 THEN [s EXCEPT !.thrown = TRUE]
       ELSE [s EXCEPT !.physical = s.physical + segment_physical,
                      !.logical = s.logical + segment_logical,
                      !.items = Append(s.items,
                          [buffer |-> s.logical,
                           logical_length |-> segment_logical,
                           byte_offset |-> extent.first_page * g.page_size + s.physical,
                           physical_length |-> segment_physical])]

\* AppendSegments after n iterations.
SegmentsLoop(g, entry) ==
    LET After[n \in Nat] ==
          IF n = 0 THEN SegmentsStart ELSE SegmentsStep(g, entry, After[n - 1])
    IN After

\* The segments of entry. An iteration that does not throw leaves an extent or
\* moves a byte, so that there are no more iterations than extents and bytes.
AppendSegments(g, entry) ==
    LET end == SegmentsLoop(g, entry)[Len(entry.extents) + entry.logical_size]
    IN IF end.thrown \/ end.logical # entry.logical_size
       THEN Append(end.items, ThrowItem)
       ELSE end.items

\* validate_item does not throw.
ValidItem(g, item) ==
    /\ item.logical_length # 0
    /\ item.physical_length >= item.logical_length
    /\ item.physical_length <= g.io_segment_size
    /\ item.byte_offset % g.page_size = 0
    /\ item.physical_length % g.page_size = 0
    /\ item.byte_offset <= g.usable_capacity_bytes
    /\ item.physical_length <= g.usable_capacity_bytes - item.byte_offset

\* The blocks submit hands to spdk_bdev_read_blocks or spdk_bdev_write_blocks.
BlockOffset(g, item) == item.byte_offset \div g.block_size
BlockCount(g, item) == item.physical_length \div g.block_size

-----------------------------------------------------------------------------
(* Properties *)

\* Only a call that succeeds changes the allocations, so the entries are looked
\* at when one has.
Settled == {a \in allocations : op = "idle" /\ outcome.result = "ok"}

\* The lengths of the values that get allocation a: PagesForBytes of them is the
\* number of its pages.
Sizes(g, a) == LengthsOfPages(g, Cardinality(PagesOf(a)))

EntrySegments(g, a, n) ==
    AppendSegments(g, [logical_size |-> n, extents |-> ExtentVector(a)])

\* The pages an item reads or writes.
PagesOfItem(g, item) ==
    (item.byte_offset \div g.page_size) ..
        ((item.byte_offset + item.physical_length) \div g.page_size - 1)

\* Neither logic_error of AppendSegments can be thrown, and its segments move
\* each byte of the value once, in order, to or from each page of the
\* allocation once: whatever the fragmentation, for lengths that fill the last
\* page and lengths that do not, and segments that do not divide an extent.
SegmentsTransferEntry ==
    \A g \in Opened, a \in Settled : \A n \in Sizes(g, a) :
        LET items == EntrySegments(g, a, n)
        IN /\ \A i \in DOMAIN items : items[i] # ThrowItem
           /\ \A i \in DOMAIN items :
                items[i].buffer + items[i].logical_length
                    = IF i = Len(items) THEN n ELSE items[i + 1].buffer
           /\ items # <<>> => items[1].buffer = 0
           /\ \A i, j \in DOMAIN items :
                i # j => PagesOfItem(g, items[i]) \cap PagesOfItem(g, items[j]) = {}
           /\ UNION {PagesOfItem(g, items[i]) : i \in DOMAIN items} = PagesOf(a)

\* Every segment passes validate_item, and the command made of it covers whole
\* blocks of the bdev, whole write units, and no more than the bdev takes in
\* one command: the last page ends before a partial final write unit.
SegmentsFitDevice ==
    \A g \in Opened, a \in Settled : \A n \in Sizes(g, a) :
        LET items == EntrySegments(g, a, n)
            b == g.bdev
        IN \A i \in DOMAIN items :
             /\ ValidItem(g, items[i])
             /\ BlockOffset(g, items[i]) * g.block_size = items[i].byte_offset
             /\ BlockCount(g, items[i]) * g.block_size = items[i].physical_length
             /\ BlockOffset(g, items[i]) + BlockCount(g, items[i]) <= b.num_blocks
             /\ BlockCount(g, items[i]) % b.write_unit_blocks = 0
             /\ b.max_rw_blocks # 0 => BlockCount(g, items[i]) <= b.max_rw_blocks
=============================================================================
