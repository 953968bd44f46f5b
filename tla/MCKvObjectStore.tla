-------------------------- MODULE MCKvObjectStore --------------------------
(* Two clients and one identity. The first two payloads take two chunks and *)
(* share the first, the third takes one.                                    *)
EXTENDS KvObjectStore, TLC

CONSTANTS c1, c2, k1

MCPayloads == {<<1, 2, 3>>, <<1, 2, 4>>, <<5>>}

MCSymmetry == Permutations(Clients)
=============================================================================
