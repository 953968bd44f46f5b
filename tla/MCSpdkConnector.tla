--------------------------- MODULE MCSpdkConnector ---------------------------
(* Two workers serve up to MCMaxRequests requests on two keys and a bdev of  *)
(* four pages. A value of 1 byte takes one page and one of 3 bytes takes two, *)
(* so two large values fill the bdev and a copy-on-write replacement of one  *)
(* finds it exhausted.                                                       *)
EXTENDS SpdkConnector

CONSTANTS w1, w2, a, b

MCWorkers == {w1, w2}
MCKeys == {1, 2}
MCValues == {a, b}
MCPageCount == 4
MCPageSize == 2

It(k, n, v) == [key |-> k, size |-> n, value |-> v]

Rq(op, items) == [op |-> op, items |-> items]

\* Stores of one and of two keys in both orders, with a repeated key and an
\* empty value, lookups of both keys and of a repeated one, and deletes.
MCRequests ==
    {Rq("set", <<It(1, 3, a)>>),
     Rq("set", <<It(2, 3, a), It(1, 3, b)>>),
     Rq("set", <<It(1, 1, b), It(2, 1, b)>>),
     Rq("set", <<It(1, 1, a), It(1, 1, b)>>),
     Rq("set", <<It(2, 1, a), It(1, 0, a)>>),
     Rq("get", <<It(1, 3, a), It(2, 1, a)>>),
     Rq("get", <<It(2, 3, a), It(2, 3, a)>>),
     Rq("exists", <<It(1, 1, a)>>),
     Rq("delete", <<It(1, 1, a)>>)}

MCMaxRequests == 3
=============================================================================
