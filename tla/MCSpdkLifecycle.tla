-------------------------- MODULE MCSpdkLifecycle --------------------------
(* Two contexts of one process with two workers each, on the same bdev or on  *)
(* two.                                                                      *)
EXTENDS SpdkLifecycle, TLC

CONSTANTS c1, c2, b1, b2

MCContexts == {c1, c2}
MCSameBdev == c1 :> b1 @@ c2 :> b1
MCTwoBdevs == c1 :> b1 @@ c2 :> b2
MCSameConfig == c1 :> 1 @@ c2 :> 1

\* The failures after which a context is still torn down in full.
MCContained == {"flag", "start", "geometry", "thread", "init"}

\* Failures the teardown does not get over, and one that races it.
MCUncontained == {"init", "open", "send", "ack"}
MCOpen == {"open"}
=============================================================================
