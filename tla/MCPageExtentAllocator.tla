------------------------ MODULE MCPageExtentAllocator ------------------------
(* A bdev of MCTotalPages pages: enough for three free fragments and for an  *)
(* allocation that takes two whole fragments and part of a third. MCMaxUint64 *)
(* leaves room above the managed range, so that release is also called with  *)
(* extents whose end wraps. The bdevs have one to four bytes in a page and   *)
(* one to twelve pages in a segment, with and without a limit on commands and *)
(* a partial final write unit; the larger ones reach MCMaxBytes.             *)
EXTENDS StorageSegments

MCTotalPages == 6
MCMaxUint64 == 7
MCMaxBytes == 26

MCBdevs ==
    [num_blocks : {0, 6, 11, 13}, block_size : {0, 1, 2, 3},
     write_unit_blocks : {0, 1, 2}, buffer_alignment : {2, 3},
     io_segment_size : {5, 12}, max_rw_blocks : {0, 2, 5}, buffer_count : {0, 1}]
=============================================================================
