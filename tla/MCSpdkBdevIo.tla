---------------------------- MODULE MCSpdkBdevIo ----------------------------
(* Two callers, one reading and one writing, over one worker with one buffer *)
(* pile the requests of both batches up in its FIFO. One caller over two     *)
(* workers splits its batch, fills both FIFOs and meets the teardown         *)
(* handshake at every point.                                                 *)
EXTENDS SpdkBdevIo

CONSTANTS c1, c2

MCCallers == {c1, c2}
MCOneCaller == {c1}
MCReaders == {c1}
=============================================================================
