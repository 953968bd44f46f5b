---------------------------- MODULE KeyValueCache ----------------------------
(***************************************************************************)
(* What the bdev connector promises LMCache, without pages, locks or        *)
(* asynchronous I/O: a cache of sized values in which every request takes   *)
(* effect at one instant between its start and its reply.                   *)
(*   - a Store future is all-or-nothing: it stores every item it does not   *)
(*     skip, or none (spdk_connector.cpp:100, 193-194);                     *)
(*   - an item whose key holds a value of another size is skipped (122);    *)
(*   - a lookup delivers the value its key holds, whole, or a miss.         *)
(***************************************************************************)
EXTENDS Naturals, Sequences

CONSTANTS
    Workers,     \* the connector's request workers
    Keys,        \* object names
    Requests,    \* the requests that may be made: [op, items]
    None         \* no value, no request, no reply

VARIABLES
    store,       \* per key None or [size, value]
    call,        \* per worker the request it serves, or None
    reply        \* per worker the answer of its request once decided

vars == <<store, call, reply>>

Init ==
    /\ store = [k \in Keys |-> None]
    /\ call = [w \in Workers |-> None]
    /\ reply = [w \in Workers |-> None]

Begin(w, r) ==
    /\ call[w] = None
    /\ call' = [call EXCEPT ![w] = r]
    /\ UNCHANGED <<store, reply>>

Undecided(w, op) ==
    /\ call[w] # None
    /\ call[w].op = op
    /\ reply[w] = None

Items(w) == call[w].items

\* A batch store no rule of the cache forbids.
WellFormed(items) ==
    /\ \A i \in DOMAIN items : items[i].size > 0
    /\ \A i, j \in DOMAIN items : items[i].key = items[j].key => i = j

\* An item is stored unless its key holds a value of another size.
Stores(item) ==
    store[item.key] # None => store[item.key].size = item.size

Put(w) ==
    /\ Undecided(w, "set")
    /\ WellFormed(Items(w))
    /\ store' = [k \in Keys |->
                   IF \E i \in DOMAIN Items(w) : Items(w)[i].key = k
                                                 /\ Stores(Items(w)[i])
                   THEN LET i == CHOOSE j \in DOMAIN Items(w) : Items(w)[j].key = k
                        IN [size |-> Items(w)[i].size, value |-> Items(w)[i].value]
                   ELSE store[k]]
    /\ reply' = [reply EXCEPT ![w] = "ok"]
    /\ UNCHANGED call

\* A store may fail at any time, and then leaves no trace.
PutFails(w) ==
    /\ Undecided(w, "set")
    /\ reply' = [reply EXCEPT ![w] = "failed"]
    /\ UNCHANGED <<store, call>>

\* A lookup answers each item with the value its key holds now, or a miss.
\* Only a value of the size asked for is ever delivered.
Get(w) ==
    /\ Undecided(w, "get")
    /\ \E a \in [DOMAIN Items(w) ->
                   {None} \cup {store[k].value : k \in {j \in Keys : store[j] # None}}] :
         /\ \A i \in DOMAIN Items(w) :
              a[i] # None =>
                LET held == store[Items(w)[i].key]
                IN held # None /\ held.size = Items(w)[i].size /\ a[i] = held.value
         /\ reply' = [reply EXCEPT ![w] = a]
    /\ UNCHANGED <<store, call>>

Exists(w) ==
    /\ Undecided(w, "exists")
    /\ reply' = [reply EXCEPT ![w] =
                   IF store[Items(w)[1].key] # None THEN "yes" ELSE "no"]
    /\ UNCHANGED <<store, call>>

Delete(w) ==
    /\ Undecided(w, "delete")
    /\ reply' = [reply EXCEPT ![w] =
                   IF store[Items(w)[1].key] # None THEN "yes" ELSE "no"]
    /\ store' = [store EXCEPT ![Items(w)[1].key] = None]
    /\ UNCHANGED call

End(w) ==
    /\ reply[w] # None
    /\ call' = [call EXCEPT ![w] = None]
    /\ reply' = [reply EXCEPT ![w] = None]
    /\ UNCHANGED store

Next ==
    \E w \in Workers :
        \/ \E r \in Requests : Begin(w, r)
        \/ Put(w)
        \/ PutFails(w)
        \/ Get(w)
        \/ Exists(w)
        \/ Delete(w)
        \/ End(w)

Spec == Init /\ [][Next]_vars
=============================================================================
