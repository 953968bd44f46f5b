-------------------------- MODULE MCNvmeKvConnector --------------------------
(* Two workers on one key. Of the payloads one is empty and one too long,    *)
(* and a get may ask for more or fewer bytes than were stored.               *)
EXTENDS NvmeKvConnector, TLC

CONSTANTS c1, c2, k1

MCConnectors == {c1, c2}
MCOneConnector == {c1}
MCWorkers == c1 :> 2 @@ c2 :> 1
MCOneWorkers == c1 :> 1
MCKeys == {k1}
MCPayloads == {<<>>, <<1>>, <<3, 3, 3>>}
MCLengths == {0, 2}
=============================================================================
