------------------------ MODULE SpdkConnector_proofs ------------------------
(***************************************************************************)
(* Proofs about SpdkConnector for all sets of workers, keys, values and     *)
(* requests and a bdev of any size: its invariants, then that it implements *)
(* KeyValueCache.                                                           *)
(***************************************************************************)
EXTENDS SpdkConnector, FiniteSetTheorems, TLAPS

-----------------------------------------------------------------------------
(* The inductive invariant *)

\* From its body's first statement to its return a request holds the mutex of
\* every key it names.
LocksHeld(w) ==
    pc[w] \notin {"idle", "lock"} => \A i \in Indices(w) : owner[KeyOf(w, i)] = w

\* do_batch_set's loop index points at an item.
LoopInItems(w) ==
    pc[w] \in {"lock", "set"} => idx[w] \in Indices(w)

\* A reservation belongs to an item the loop has passed, no other one to the
\* same key, and until publication it remembers the entry its key still has.
ReservationsSound(w) ==
    /\ reservations[w] # {} =>
         pc[w] \in {"set", "submit", "write", "rollback", "retire"}
    /\ \A r \in reservations[w] :
         /\ r.index \in Indices(w)
         /\ pc[w] = "set" => r.index < idx[w]
         /\ pc[w] # "retire" => r.previous = PagesAt(Current(w, r.index))
         /\ \A q \in reservations[w] :
              KeyOf(w, q.index) = KeyOf(w, r.index) => q = r

\* Writes go to reserved pages, reads to pages of the entry of their item's
\* key, and outside those two phases no I/O is outstanding.
IoSound(w) ==
    /\ io[w] # {} => pc[w] \in {"write", "read"}
    /\ pc[w] = "write" => io[w] \subseteq Segments(w)
    /\ pc[w] = "read" => \A s \in io[w] :
         s[1] \in Indices(w) /\ s[2] \in PagesAt(Current(w, s[1]))

WorkerInv(w) ==
    /\ LocksHeld(w)
    /\ LoopInItems(w)
    /\ ReservationsSound(w)
    /\ IoSound(w)

\* The inductive invariant of the page and lock discipline.
IInv ==
    /\ TypeOK
    /\ \A w \in Workers : WorkerInv(w)
    /\ PagesOwnedOnce

-----------------------------------------------------------------------------
(* Requests *)

\* A request has an operation and a first item; its items are items.
LEMMA RequestFields ==
    ASSUME NEW r \in Requests
    PROVE  /\ r.op \in Ops
           /\ DOMAIN r.items \subseteq Nat
           /\ 1 \in DOMAIN r.items
           /\ \A i \in DOMAIN r.items : /\ r.items[i].key \in Keys
                                        /\ r.items[i].size \in Nat
                                        /\ r.items[i].value \in Values
<1>1. r.op \in Ops /\ r.items \in Seq(Item) /\ r.items # <<>>
  BY ConnectorAssumption
<1>2. DOMAIN r.items = 1 .. Len(r.items) /\ Len(r.items) \in Nat /\ Len(r.items) # 0
  BY <1>1
<1>3. \A i \in DOMAIN r.items : r.items[i] \in Item
  BY <1>1
<1>. QED
  BY <1>1, <1>2, <1>3 DEF Item

\* The items of a worker that is not idle.
LEMMA WorkerItems ==
    ASSUME TypeOK, NEW w \in Workers, pc[w] # "idle"
    PROVE  /\ req[w] \in Requests
           /\ req[w].op \in Ops
           /\ Indices(w) \subseteq Nat
           /\ 1 \in Indices(w)
           /\ \A i \in Indices(w) : /\ KeyOf(w, i) \in Keys
                                    /\ req[w].items[i].size \in Nat
                                    /\ req[w].items[i].value \in Values
                                    /\ Current(w, i) \in Entry \cup {None}
<1>1. req[w] \in Requests
  BY DEF TypeOK
<1>2. \A i \in Indices(w) : KeyOf(w, i) \in Keys
  BY <1>1, RequestFields DEF Indices, KeyOf
<1>3. \A i \in Indices(w) : Current(w, i) \in Entry \cup {None}
  BY <1>2 DEF Current, TypeOK
<1>. QED
  BY <1>1, <1>2, <1>3, RequestFields DEF Indices

\* The pages of an entry are pages.
LEMMA EntryPages ==
    ASSUME NEW e \in Entry \cup {None}
    PROVE  /\ PagesAt(e) \in SUBSET Pages
           /\ e # None => e \in Entry /\ PagesAt(e) = e.pages
BY DEF PagesAt, Entry

-----------------------------------------------------------------------------
(* Types *)

\* The type invariant holds initially.
LEMMA InitTypes == Init => TypeOK
BY ConnectorAssumption DEF Init, TypeOK, Pages, Ops

\* The key a Lock step takes is a key of the request.
LEMMA NextToLockKey ==
    ASSUME TypeOK, NEW w \in Workers, pc[w] # "idle", NEW k \in NextToLock(w)
    PROVE  k \in Keys /\ \E i \in Indices(w) : k = KeyOf(w, i)
BY WorkerItems DEF NextToLock, Unlocked

\* A segment of a write carries a payload of the request.
LEMMA WrittenValue ==
    ASSUME TypeOK, NEW w \in Workers, pc[w] = "write", IoSound(w), NEW s \in io[w]
    PROVE  /\ s[1] \in Indices(w)
           /\ req[w].items[s[1]].value \in Values
BY WorkerItems DEF IoSound, Segments

\* What Publish makes of a key: its reservation's entry, or what it was.
LEMMA PublishedEntry ==
    ASSUME TypeOK, NEW w \in Workers, ReservationsSound(w), Publish(w),
           NEW k \in Keys
    PROVE  /\ ReservationsOf(w, k) = {} => entry'[k] = entry[k]
           /\ \A r \in ReservationsOf(w, k) :
                /\ entry'[k] = [size |-> req[w].items[r.index].size,
                                pages |-> r.pages]
                /\ entry'[k] \in Entry
           /\ entry'[k] \in Entry \cup {None}
<1>1. entry'[k] = IF ReservationsOf(w, k) = {} THEN entry[k]
                  ELSE LET r == CHOOSE r \in ReservationsOf(w, k) : TRUE
                       IN [size |-> req[w].items[r.index].size, pages |-> r.pages]
  BY DEF Publish
<1>2. ASSUME NEW r \in ReservationsOf(w, k)
      PROVE  /\ entry'[k] = [size |-> req[w].items[r.index].size, pages |-> r.pages]
             /\ entry'[k] \in Entry
  <2>1. r = CHOOSE q \in ReservationsOf(w, k) : TRUE
    BY DEF ReservationsOf, ReservationsSound
  <2>2. entry'[k] = [size |-> req[w].items[r.index].size, pages |-> r.pages]
    BY <1>1, <2>1
  <2>3. r.index \in Indices(w) /\ r.pages \in SUBSET Pages
    BY DEF ReservationsOf, ReservationsSound, TypeOK, Reservation
  <2>4. req[w].items[r.index].size \in Nat
    BY <2>3, WorkerItems DEF Publish
  <2>. QED
    BY <2>2, <2>3, <2>4 DEF Entry
<1>. QED
  BY <1>1, <1>2 DEF TypeOK

\* Adding an element to one of a function's sets keeps its type.
LEMMA BufferGrows ==
    ASSUME NEW S, NEW T, NEW B \in [S -> SUBSET T], NEW i, NEW x \in T
    PROVE  [B EXCEPT ![i] = @ \cup {x}] \in [S -> SUBSET T]
OBVIOUS

\* Every step keeps the type invariant.
LEMMA NextTypes == IInv /\ [Next]_vars => TypeOK'
<1>. SUFFICES ASSUME TypeOK, \A w \in Workers : WorkerInv(w), [Next]_vars PROVE TypeOK'
  BY DEF IInv
<1>1. ASSUME NEW w \in Workers, NEW r \in Requests, Begin(w, r) PROVE TypeOK'
  BY <1>1, ConnectorAssumption DEF Begin, TypeOK, Ops, Indices
<1>2. ASSUME NEW w \in Workers, Lock(w) PROVE TypeOK'
  <2>1. req[w].op \in Ops
    BY <1>2, WorkerItems DEF Lock
  <2>2. PICK k \in NextToLock(w) :
          /\ owner' = [owner EXCEPT ![k] = w]
          /\ pc' = [pc EXCEPT ![w] = IF Unlocked(w) = {k} THEN req[w].op ELSE "lock"]
    BY <1>2 DEF Lock
  <2>3. k \in Keys
    BY <1>2, NextToLockKey DEF Lock
  <2>4. owner' \in [Keys -> Workers \cup {None}]
    BY <2>2, <2>3 DEF TypeOK
  <2>. QED
    BY <1>2, <2>1, <2>2, <2>4 DEF Lock, TypeOK, Ops, Indices
<1>3. ASSUME NEW w \in Workers, SkipItem(w) PROVE TypeOK'
  BY <1>3 DEF SkipItem, AfterItem, TypeOK, Ops, Indices
<1>4. ASSUME NEW w \in Workers, ReserveItem(w) PROVE TypeOK'
  <2>1. idx[w] \in Nat /\ PagesAt(Current(w, idx[w])) \in SUBSET Pages
    BY <1>4, WorkerItems, EntryPages DEF ReserveItem, TypeOK, WorkerInv, LoopInItems
  <2>2. PICK P \in SUBSET free :
          /\ free' = free \ P
          /\ reservations' = [reservations EXCEPT ![w] = @ \cup
                {[index |-> idx[w], pages |-> P,
                  previous |-> PagesAt(Current(w, idx[w]))]}]
    BY <1>4 DEF ReserveItem
  <2>3. free' \subseteq Pages /\ P \in SUBSET Pages
    BY <2>2 DEF TypeOK
  <2>4. reservations' \in [Workers -> SUBSET Reservation]
    BY <2>1, <2>2, <2>3 DEF TypeOK, Reservation
  <2>. QED
    BY <1>4, <2>3, <2>4 DEF ReserveItem, AfterItem, TypeOK, Ops, Indices
<1>5. ASSUME NEW w \in Workers, ItemThrows(w) PROVE TypeOK'
  BY <1>5 DEF ItemThrows, TypeOK, Ops, Indices
<1>6. ASSUME NEW w \in Workers, SubmitWrites(w) PROVE TypeOK'
  <2>1. Segments(w) \in SUBSET (Nat \X Pages)
    BY <1>6, WorkerItems DEF SubmitWrites, Segments
  <2>. QED
    BY <1>6, <2>1 DEF SubmitWrites, TypeOK, Ops, Indices
<1>7. ASSUME NEW w \in Workers, SubmitThrows(w) PROVE TypeOK'
  BY <1>7 DEF SubmitThrows, TypeOK, Ops, Indices
<1>8. ASSUME NEW w \in Workers, WriteDone(w) PROVE TypeOK'
  <2>1. PICK s \in io[w] :
          /\ disk' = [disk EXCEPT ![s[2]] = req[w].items[s[1]].value]
          /\ io' = [io EXCEPT ![w] = @ \ {s}]
    BY <1>8 DEF WriteDone
  <2>2. req[w].items[s[1]].value \in Values
    BY <1>8, WrittenValue DEF WriteDone, WorkerInv
  <2>3. disk' \in [Pages -> Values \cup {Torn}]
    BY <2>1, <2>2 DEF TypeOK
  <2>4. io' \in [Workers -> SUBSET (Nat \X Pages)]
    BY <2>1 DEF TypeOK
  <2>. QED
    BY <1>8, <2>3, <2>4 DEF WriteDone, TypeOK, Indices
<1>9. ASSUME NEW w \in Workers, WriteFails(w) PROVE TypeOK'
  <2>1. PICK s \in io[w] :
          /\ \E c \in {disk[s[2]], req[w].items[s[1]].value, Torn} :
               disk' = [disk EXCEPT ![s[2]] = c]
          /\ io' = [io EXCEPT ![w] = @ \ {s}]
          /\ bad' = [bad EXCEPT ![w] = @ \cup {s[1]}]
    BY <1>9 DEF WriteFails
  <2>2. /\ req[w].items[s[1]].value \in Values
        /\ s \in Nat \X Pages
        /\ disk[s[2]] \in Values \cup {Torn}
    BY <1>9, WrittenValue DEF WriteFails, WorkerInv, TypeOK
  <2>3. disk' \in [Pages -> Values \cup {Torn}]
    BY <2>1, <2>2 DEF TypeOK
  <2>4. io' \in [Workers -> SUBSET (Nat \X Pages)]
    BY <2>1 DEF TypeOK
  <2>5. bad' \in [Workers -> SUBSET Nat]
    BY <2>1, <2>2 DEF TypeOK
  <2>. QED
    BY <1>9, <2>3, <2>4, <2>5 DEF WriteFails, TypeOK, Indices
<1>10. ASSUME NEW w \in Workers, WritesThrow(w) PROVE TypeOK'
  BY <1>10 DEF WritesThrow, TypeOK, Ops, Indices
<1>11. ASSUME NEW w \in Workers, Publish(w) PROVE TypeOK'
  <2>1. ASSUME NEW k \in Keys PROVE entry'[k] \in Entry \cup {None}
    BY <1>11, PublishedEntry DEF WorkerInv, TypeOK
  <2>2. entry' \in [Keys -> Entry \cup {None}]
    BY <1>11, <2>1 DEF Publish
  <2>. QED
    BY <1>11, <2>2 DEF Publish, TypeOK, Ops, Indices
<1>12. ASSUME NEW w \in Workers, RollBack(w) PROVE TypeOK'
  <2>1. PICK r \in reservations[w] :
          /\ free' = free \cup r.pages
          /\ reservations' = [reservations EXCEPT ![w] = @ \ {r}]
    BY <1>12 DEF RollBack
  <2>2. r.pages \subseteq Pages
    BY DEF TypeOK, Reservation
  <2>3. free' \subseteq Pages
    BY <2>1, <2>2 DEF TypeOK
  <2>4. reservations' \in [Workers -> SUBSET Reservation]
    BY <2>1 DEF TypeOK
  <2>. QED
    BY <1>12, <2>3, <2>4 DEF RollBack, TypeOK, Indices
<1>13. ASSUME NEW w \in Workers, RetirePrevious(w) PROVE TypeOK'
  <2>1. PICK r \in reservations[w] :
          /\ free' = free \cup r.previous
          /\ reservations' = [reservations EXCEPT ![w] = @ \ {r}]
    BY <1>13 DEF RetirePrevious
  <2>2. r.previous \subseteq Pages
    BY DEF TypeOK, Reservation
  <2>3. free' \subseteq Pages
    BY <2>1, <2>2 DEF TypeOK
  <2>4. reservations' \in [Workers -> SUBSET Reservation]
    BY <2>1 DEF TypeOK
  <2>. QED
    BY <1>13, <2>3, <2>4 DEF RetirePrevious, TypeOK, Indices
<1>14. ASSUME NEW w \in Workers, SubmitReads(w) PROVE TypeOK'
  <2>1. Indices(w) \subseteq Nat
    BY <1>14, WorkerItems DEF SubmitReads
  <2>2. io' \in [Workers -> SUBSET (Nat \X Pages)]
    BY <1>14, <2>1 DEF SubmitReads, TypeOK
  <2>3. bad' \in [Workers -> SUBSET Nat]
    BY <1>14, <2>1 DEF SubmitReads, TypeOK
  <2>. QED
    BY <1>14, <2>2, <2>3 DEF SubmitReads, TypeOK, Ops, Indices
<1>15. ASSUME NEW w \in Workers, ReadThrows(w) PROVE TypeOK'
  <2>1. Indices(w) \subseteq Nat
    BY <1>15, WorkerItems DEF ReadThrows
  <2>. QED
    BY <1>15, <2>1 DEF ReadThrows, TypeOK, Ops, Indices
<1>16. ASSUME NEW w \in Workers, ReadDone(w) PROVE TypeOK'
  <2>1. PICK s \in io[w] :
          /\ buf' = [buf EXCEPT ![w][s[1]] = @ \cup {disk[s[2]]}]
          /\ io' = [io EXCEPT ![w] = @ \ {s}]
    BY <1>16 DEF ReadDone
  <2>2. io' \in [Workers -> SUBSET (Nat \X Pages)]
    BY <2>1 DEF TypeOK
  <2>3. s[2] \in Pages /\ disk[s[2]] \in Values \cup {Torn}
    BY DEF TypeOK
  <2>4. DOMAIN buf' = Workers
    BY <2>1 DEF TypeOK
  <2>5. ASSUME NEW v \in Workers, pc[v] # "idle"
        PROVE  buf'[v] \in [Indices(v) -> SUBSET (Values \cup {Torn})]
    <3>1. CASE v = w
      <4>1. buf[w] \in [Indices(w) -> SUBSET (Values \cup {Torn})]
        BY <1>16 DEF ReadDone, TypeOK
      <4>2. buf'[w] = [buf[w] EXCEPT ![s[1]] = @ \cup {disk[s[2]]}]
        BY <2>1 DEF TypeOK
      <4>3. [buf[w] EXCEPT ![s[1]] = @ \cup {disk[s[2]]}]
              \in [Indices(w) -> SUBSET (Values \cup {Torn})]
        BY <2>3, <4>1, BufferGrows
      <4>. QED
        BY <3>1, <4>2, <4>3
    <3>2. CASE v # w
      BY <2>1, <2>5, <3>2 DEF TypeOK
    <3>. QED
      BY <3>1, <3>2
  <2>. QED
    BY <1>16, <2>2, <2>4, <2>5 DEF ReadDone, TypeOK, Indices
<1>17. ASSUME NEW w \in Workers, ReadFails(w) PROVE TypeOK'
  BY <1>17 DEF ReadFails, TypeOK, Indices
<1>18. ASSUME NEW w \in Workers, ReadsEnd(w) PROVE TypeOK'
  BY <1>18 DEF ReadsEnd, TypeOK, Ops, Indices
<1>19. ASSUME NEW w \in Workers, Exists(w) PROVE TypeOK'
  BY <1>19 DEF Exists, TypeOK, Ops, Indices
<1>20. ASSUME NEW w \in Workers, Delete(w) PROVE TypeOK'
  <2>1. KeyOf(w, 1) \in Keys /\ Current(w, 1) \in Entry \cup {None}
    BY <1>20, WorkerItems DEF Delete
  <2>2. entry' \in [Keys -> Entry \cup {None}]
    BY <1>20, <2>1 DEF Delete, TypeOK
  <2>3. reservations' \in [Workers -> SUBSET Reservation]
    BY <1>20, <2>1, EntryPages DEF Delete, TypeOK, Reservation
  <2>4. DOMAIN reply' = Workers
    BY <1>20 DEF Delete, TypeOK
  <2>. QED
    BY <1>20, <2>2, <2>3, <2>4 DEF Delete, TypeOK, Ops, Indices
<1>21. ASSUME NEW w \in Workers, Return(w) PROVE TypeOK'
  BY <1>21, ConnectorAssumption DEF Return, TypeOK, Ops, Indices
<1>22. ASSUME ContextLost PROVE TypeOK'
  BY <1>22 DEF ContextLost, TypeOK, Indices
<1>23. ASSUME UNCHANGED vars PROVE TypeOK'
  BY <1>23 DEF vars, TypeOK, Indices
<1>. QED
  BY <1>1, <1>2, <1>3, <1>4, <1>5, <1>6, <1>7, <1>8, <1>9, <1>10, <1>11, <1>12,
     <1>13, <1>14, <1>15, <1>16, <1>17, <1>18, <1>19, <1>20, <1>21, <1>22,
     <1>23 DEF Next, Step

-----------------------------------------------------------------------------
(* Locks, reservations and I/O *)

\* A request whose locals a step leaves alone, and whose keys keep their
\* mutex and their entry, is as it was.
LEMMA OthersKeep ==
    ASSUME TypeOK, NEW v \in Workers, WorkerInv(v),
           pc'[v] = pc[v], req'[v] = req[v], idx'[v] = idx[v],
           reservations'[v] = reservations[v], io'[v] = io[v],
           \A k \in Keys : owner[k] = v => owner'[k] = v /\ entry'[k] = entry[k]
    PROVE  WorkerInv(v)'
<1>1. Indices(v)' = Indices(v) /\ \A i : KeyOf(v, i)' = KeyOf(v, i)
  BY DEF Indices, KeyOf
<1>2. LoopInItems(v)'
  BY <1>1 DEF WorkerInv, LoopInItems
<1>3. CASE pc[v] \in {"idle", "lock"}
  <2>1. reservations[v] = {} /\ io[v] = {}
    BY <1>3 DEF WorkerInv, ReservationsSound, IoSound
  <2>. QED
    BY <1>2, <1>3, <2>1 DEF WorkerInv, LocksHeld, ReservationsSound, IoSound
<1>4. CASE pc[v] \notin {"idle", "lock"}
  <2>1. \A i \in Indices(v) : KeyOf(v, i) \in Keys /\ owner[KeyOf(v, i)] = v
    BY <1>4, WorkerItems DEF WorkerInv, LocksHeld
  <2>2. \A i \in Indices(v) : Current(v, i)' = Current(v, i)
    BY <1>1, <2>1 DEF Current
  <2>3. LocksHeld(v)'
    BY <1>1, <2>1 DEF LocksHeld
  <2>4. ReservationsSound(v)'
    BY <1>1, <2>2 DEF WorkerInv, ReservationsSound
  <2>5. Segments(v)' = Segments(v)
    BY <1>1 DEF Segments, Pages
  <2>6. IoSound(v)'
    BY <1>1, <2>2, <2>5 DEF WorkerInv, IoSound
  <2>. QED
    BY <1>2, <2>3, <2>4, <2>6 DEF WorkerInv
<1>. QED
  BY <1>3, <1>4

\* A step of one worker does not touch the locals of another, and neither the
\* mutex nor the entry of a key the other has locked.
LEMMA StepsLocal ==
    ASSUME TypeOK, NEW w \in Workers, WorkerInv(w),
           Step(w) \/ \E r \in Requests : Begin(w, r),
           NEW v \in Workers, v # w
    PROVE  /\ pc'[v] = pc[v] /\ req'[v] = req[v] /\ idx'[v] = idx[v]
           /\ reservations'[v] = reservations[v] /\ io'[v] = io[v]
           /\ bad'[v] = bad[v] /\ buf'[v] = buf[v] /\ reply'[v] = reply[v]
           /\ \A k \in Keys :
                owner[k] = v => owner'[k] = v /\ entry'[k] = entry[k]
<1>1. CASE \E r \in Requests : Begin(w, r)
  BY <1>1 DEF Begin, TypeOK
<1>2. CASE Lock(w)
  BY <1>2, ConnectorAssumption DEF Lock, TypeOK
<1>3. CASE SkipItem(w)
  BY <1>3 DEF SkipItem, AfterItem, TypeOK
<1>4. CASE ReserveItem(w)
  BY <1>4 DEF ReserveItem, AfterItem, TypeOK
<1>5. CASE ItemThrows(w)
  BY <1>5 DEF ItemThrows, TypeOK
<1>6. CASE SubmitWrites(w)
  BY <1>6 DEF SubmitWrites, TypeOK
<1>7. CASE SubmitThrows(w)
  BY <1>7 DEF SubmitThrows, TypeOK
<1>8. CASE WriteDone(w)
  BY <1>8 DEF WriteDone, TypeOK
<1>9. CASE WriteFails(w)
  BY <1>9 DEF WriteFails, TypeOK
<1>10. CASE WritesThrow(w)
  BY <1>10 DEF WritesThrow, TypeOK
<1>11. CASE Publish(w)
  <2>1. ASSUME NEW k \in Keys, owner[k] = v PROVE entry'[k] = entry[k]
    <3>1. ReservationsOf(w, k) = {}
      BY <1>11, <2>1 DEF ReservationsOf, Publish, WorkerInv, LocksHeld,
                         ReservationsSound
    <3>. QED
      BY <1>11, <3>1, PublishedEntry DEF WorkerInv
  <2>. QED
    BY <1>11, <2>1 DEF Publish, TypeOK
<1>12. CASE RollBack(w)
  BY <1>12 DEF RollBack, TypeOK
<1>13. CASE RetirePrevious(w)
  BY <1>13 DEF RetirePrevious, TypeOK
<1>14. CASE SubmitReads(w)
  BY <1>14 DEF SubmitReads, TypeOK
<1>15. CASE ReadThrows(w)
  BY <1>15 DEF ReadThrows, TypeOK
<1>16. CASE ReadDone(w)
  BY <1>16 DEF ReadDone, TypeOK
<1>17. CASE ReadFails(w)
  BY <1>17 DEF ReadFails, TypeOK
<1>18. CASE ReadsEnd(w)
  BY <1>18 DEF ReadsEnd, TypeOK
<1>19. CASE Exists(w)
  BY <1>19 DEF Exists, TypeOK
<1>20. CASE Delete(w)
  <2>1. owner[KeyOf(w, 1)] = w /\ KeyOf(w, 1) \in Keys
    BY <1>20, WorkerItems DEF Delete, WorkerInv, LocksHeld
  <2>2. \A k \in Keys : owner[k] = v => entry'[k] = entry[k]
    BY <1>20, <2>1 DEF Delete, TypeOK
  <2>. QED
    BY <1>20, <2>2 DEF Delete, TypeOK
<1>21. CASE Return(w)
  BY <1>21, ConnectorAssumption DEF Return, TypeOK
<1>. QED
  BY <1>1, <1>2, <1>3, <1>4, <1>5, <1>6, <1>7, <1>8, <1>9, <1>10, <1>11, <1>12,
     <1>13, <1>14, <1>15, <1>16, <1>17, <1>18, <1>19, <1>20, <1>21 DEF Step

\* A step keeps the invariant of the worker that takes it.
LEMMA StepKeepsOwn ==
    ASSUME TypeOK, NEW w \in Workers, WorkerInv(w),
           Step(w) \/ \E r \in Requests : Begin(w, r)
    PROVE  WorkerInv(w)'
<1>1. ASSUME NEW r \in Requests, Begin(w, r) PROVE WorkerInv(w)'
  <2>1. pc'[w] = "lock" /\ req'[w] = r /\ idx'[w] = 1
    BY <1>1 DEF Begin, TypeOK
  <2>2. reservations'[w] = {} /\ io'[w] = {}
    BY <1>1 DEF Begin, WorkerInv, ReservationsSound, IoSound
  <2>3. 1 \in Indices(w)'
    BY <2>1, RequestFields DEF Indices
  <2>. QED
    BY <2>1, <2>2, <2>3 DEF WorkerInv, LocksHeld, LoopInItems,
                            ReservationsSound, IoSound
<1>2. CASE Lock(w)
  <2>1. PICK k \in NextToLock(w) :
          /\ owner[k] = None
          /\ owner' = [owner EXCEPT ![k] = w]
          /\ pc' = [pc EXCEPT ![w] = IF Unlocked(w) = {k} THEN req[w].op ELSE "lock"]
    BY <1>2 DEF Lock
  <2>2. k \in Keys /\ req[w].op \in Ops
    BY <1>2, NextToLockKey, WorkerItems DEF Lock
  <2>3. pc'[w] \in Ops \cup {"lock"}
    BY <2>1, <2>2 DEF TypeOK
  <2>4. reservations'[w] = {} /\ io'[w] = {} /\ Indices(w)' = Indices(w)
    BY <1>2 DEF Lock, WorkerInv, ReservationsSound, IoSound, Indices
  <2>5. LoopInItems(w)'
    BY <1>2, <2>4 DEF Lock, WorkerInv, LoopInItems
  <2>6. LocksHeld(w)'
    <3>. SUFFICES ASSUME pc'[w] # "lock", NEW i \in Indices(w)
                  PROVE  owner'[KeyOf(w, i)] = w
      BY <1>2, <2>4 DEF LocksHeld, KeyOf, Lock
    <3>1. Unlocked(w) = {k}
      BY <2>1 DEF TypeOK
    <3>2. KeyOf(w, i) \in Keys
      BY <1>2, WorkerItems DEF Lock
    <3>3. KeyOf(w, i) = k \/ owner[KeyOf(w, i)] = w
      BY <3>1 DEF Unlocked
    <3>. QED
      BY <2>1, <2>2, <3>2, <3>3 DEF TypeOK
  <2>7. IoSound(w)' /\ ReservationsSound(w)'
    BY <2>3, <2>4 DEF IoSound, ReservationsSound, Ops
  <2>. QED
    BY <2>5, <2>6, <2>7 DEF WorkerInv
<1>3. ASSUME AfterItem(w), SkipItem(w) \/ ReserveItem(w)
      PROVE  /\ Indices(w)' = Indices(w) /\ \A i : KeyOf(w, i)' = KeyOf(w, i)
             /\ \A i : Current(w, i)' = Current(w, i)
             /\ idx'[w] = idx[w] + 1 /\ idx[w] \in Indices(w) /\ idx[w] \in Nat
             /\ pc[w] = "set" /\ pc'[w] \in {"set", "submit"}
             /\ LocksHeld(w)' /\ LoopInItems(w)' /\ IoSound(w)'
  <2>1. /\ Indices(w)' = Indices(w) /\ \A i : KeyOf(w, i)' = KeyOf(w, i)
        /\ \A i : Current(w, i)' = Current(w, i)
        /\ owner' = owner /\ io' = io
    BY <1>3 DEF SkipItem, ReserveItem, Indices, KeyOf, Current
  <2>2. idx'[w] = idx[w] + 1 /\ idx[w] \in Indices(w) /\ idx[w] \in Nat /\ pc[w] = "set"
    BY <1>3 DEF AfterItem, SkipItem, ReserveItem, WorkerInv, LoopInItems, TypeOK
  <2>3. pc'[w] = IF idx[w] + 1 \in Indices(w) THEN "set" ELSE "submit"
    BY <1>3 DEF AfterItem, TypeOK
  <2>4. io[w] = {}
    BY <2>2 DEF WorkerInv, IoSound
  <2>. QED
    BY <2>1, <2>2, <2>3, <2>4 DEF WorkerInv, LocksHeld, LoopInItems, IoSound
<1>4. CASE SkipItem(w)
  <2>1. ASSUME NEW r \in reservations[w] PROVE r.index < idx[w] + 1
    BY <1>3, <1>4 DEF SkipItem, WorkerInv, ReservationsSound, TypeOK, Reservation
  <2>2. ReservationsSound(w)'
    BY <1>3, <1>4, <2>1 DEF SkipItem, WorkerInv, ReservationsSound
  <2>. QED
    BY <1>3, <1>4, <2>2 DEF SkipItem, WorkerInv
<1>5. CASE ReserveItem(w)
  <2>. DEFINE i == idx[w]
  <2>1. PICK P \in SUBSET free :
          reservations' = [reservations EXCEPT ![w] = @ \cup
                {[index |-> i, pages |-> P, previous |-> PagesAt(Current(w, i))]}]
    BY <1>5 DEF ReserveItem
  <2>. DEFINE n == [index |-> i, pages |-> P, previous |-> PagesAt(Current(w, i))]
  <2>2. reservations'[w] = reservations[w] \cup {n}
    BY <2>1 DEF TypeOK
  <2>3. n.index = i /\ n.previous = PagesAt(Current(w, i))
    OBVIOUS
  <2>. HIDE DEF n
  <2>4. ASSUME NEW r \in reservations[w]
        PROVE  /\ r.index \in Indices(w) /\ r.index < i /\ r.index < i + 1
               /\ r.previous = PagesAt(Current(w, r.index))
               /\ KeyOf(w, r.index) # KeyOf(w, i)
    <3>1. /\ r.index \in Indices(w) /\ r.index < i /\ r.index \in Nat
          /\ r.previous = PagesAt(Current(w, r.index))
      BY <1>3, <1>5 DEF ReserveItem, WorkerInv, ReservationsSound, TypeOK, Reservation
    <3>2. ~ Rejected(w, i)
      BY <1>5 DEF ReserveItem
    <3>3. i \in Nat
      BY DEF TypeOK
    <3>4. r.index < i + 1
      BY <3>1, <3>3
    <3>5. KeyOf(w, r.index) # KeyOf(w, i)
      BY <3>1, <3>2 DEF Rejected
    <3>. QED
      BY <3>1, <3>4, <3>5
  <2>5. /\ Indices(w)' = Indices(w) /\ \A j : KeyOf(w, j)' = KeyOf(w, j)
        /\ \A j : Current(w, j)' = Current(w, j)
        /\ idx'[w] = i + 1 /\ i \in Indices(w) /\ i < i + 1
        /\ pc'[w] \in {"set", "submit"}
    <3>1. AfterItem(w)
      BY <1>5 DEF ReserveItem
    <3>2. i \in Nat
      BY DEF TypeOK
    <3>. QED
      BY <1>3, <1>5, <3>1, <3>2
  <2>. HIDE DEF i
  <2>6. ASSUME NEW r \in reservations'[w], NEW q \in reservations'[w],
               KeyOf(w, q.index) = KeyOf(w, r.index)
        PROVE  q = r
    BY <2>2, <2>3, <2>4, <2>6 DEF WorkerInv, ReservationsSound
  <2>7. ReservationsSound(w)'
    BY <2>2, <2>3, <2>4, <2>5, <2>6 DEF ReservationsSound
  <2>. QED
    BY <1>3, <1>5, <2>7 DEF ReserveItem, WorkerInv
<1>6. CASE Publish(w)
  <2>1. /\ Indices(w)' = Indices(w) /\ \A i : KeyOf(w, i)' = KeyOf(w, i)
        /\ pc[w] = "write" /\ pc'[w] = "retire" /\ io'[w] = {}
        /\ reservations' = reservations /\ owner' = owner
    BY <1>6 DEF Publish, Indices, KeyOf, TypeOK
  <2>. QED
    BY <2>1 DEF WorkerInv, LocksHeld, LoopInItems, ReservationsSound, IoSound
<1>7. CASE Delete(w)
  <2>1. /\ Indices(w)' = Indices(w) /\ \A i : KeyOf(w, i)' = KeyOf(w, i)
        /\ pc[w] = "delete" /\ pc'[w] = "retire" /\ owner' = owner /\ io' = io
    BY <1>7 DEF Delete, Indices, KeyOf, TypeOK
  <2>2. io'[w] = {} /\ reservations[w] = {} /\ 1 \in Indices(w)
    BY <2>1, WorkerItems DEF WorkerInv, IoSound, ReservationsSound
  <2>3. \A r, q \in reservations'[w] : r = q /\ r.index = 1
    <3>1. CASE Current(w, 1) = None
      BY <1>7, <2>2, <3>1 DEF Delete
    <3>2. CASE Current(w, 1) # None
      <4>1. reservations'[w] =
              {[index |-> 1, pages |-> {}, previous |-> Current(w, 1).pages]}
        BY <1>7, <3>2 DEF Delete, TypeOK
      <4>. QED
        BY <4>1
    <3>. QED
      BY <3>1, <3>2
  <2>. QED
    BY <2>1, <2>2, <2>3 DEF WorkerInv, LocksHeld, LoopInItems,
                            ReservationsSound, IoSound
<1>. USE DEF WorkerInv, LocksHeld, LoopInItems, ReservationsSound, IoSound,
             Indices, KeyOf, Current, TypeOK
<1>8. CASE ItemThrows(w)
  BY <1>8 DEF ItemThrows
<1>9. CASE SubmitWrites(w)
  BY <1>9 DEF SubmitWrites, Segments, Pages
<1>10. CASE SubmitThrows(w)
  BY <1>10 DEF SubmitThrows
<1>11. CASE WriteDone(w)
  BY <1>11 DEF WriteDone, Segments, Pages
<1>12. CASE WriteFails(w)
  BY <1>12 DEF WriteFails, Segments, Pages
<1>13. CASE WritesThrow(w)
  BY <1>13 DEF WritesThrow
<1>14. CASE RollBack(w)
  BY <1>14 DEF RollBack
<1>15. CASE RetirePrevious(w)
  BY <1>15 DEF RetirePrevious
<1>16. CASE SubmitReads(w)
  BY <1>16 DEF SubmitReads, Hit, PagesAt
<1>17. CASE ReadThrows(w)
  BY <1>17 DEF ReadThrows
<1>18. CASE ReadDone(w)
  BY <1>18 DEF ReadDone
<1>19. CASE ReadFails(w)
  BY <1>19 DEF ReadFails
<1>20. CASE ReadsEnd(w)
  BY <1>20 DEF ReadsEnd
<1>21. CASE Exists(w)
  BY <1>21 DEF Exists
<1>22. CASE Return(w)
  BY <1>22 DEF Return
<1>. QED
  BY <1>1, <1>2, <1>4, <1>5, <1>6, <1>7, <1>8, <1>9, <1>10, <1>11, <1>12,
     <1>13, <1>14, <1>15, <1>16, <1>17, <1>18, <1>19, <1>20, <1>21, <1>22 DEF Step

\* Every step keeps the invariant of every worker.
LEMMA NextWorkers ==
    IInv /\ [Next]_vars => \A v \in Workers : WorkerInv(v)'
<1>. SUFFICES ASSUME IInv, [Next]_vars, NEW v \in Workers PROVE WorkerInv(v)'
  OBVIOUS
<1>1. CASE ContextLost \/ UNCHANGED vars
  BY <1>1, OthersKeep DEF ContextLost, vars, IInv
<1>2. ASSUME NEW w \in Workers, Step(w) \/ \E r \in Requests : Begin(w, r)
      PROVE  WorkerInv(v)'
  BY <1>2, StepKeepsOwn, StepsLocal, OthersKeep DEF IInv
<1>. QED
  BY <1>1, <1>2 DEF Next

-----------------------------------------------------------------------------
(* Pages *)

\* The pages stay owned once when no page list moves and no request with a
\* reservation passes its point of publication.
LEMMA PagesKeep ==
    ASSUME PagesOwnedOnce, free' = free, entry' = entry,
           reservations' = reservations,
           \A v \in Workers : reservations[v] = {}
                              \/ (pc'[v] = "retire" <=> pc[v] = "retire")
    PROVE  PagesOwnedOnce'
<1>1. \A v \in Workers : \A r \in reservations[v] : HeldBy(v, r)' = HeldBy(v, r)
  BY DEF HeldBy
<1>. QED
  BY <1>1 DEF PagesOwnedOnce, Pages

\* Releasing what a reservation holds, and dropping it, keeps them so.
LEMMA ReleaseKeepsPages ==
    ASSUME TypeOK, PagesOwnedOnce, NEW w \in Workers, NEW r \in reservations[w],
           free' = free \cup HeldBy(w, r), entry' = entry, pc' = pc,
           reservations' = [reservations EXCEPT ![w] = @ \ {r}]
    PROVE  PagesOwnedOnce'
<1>1. \A v, q : HeldBy(v, q)' = HeldBy(v, q)
  BY DEF HeldBy
<1>2. /\ \A v \in Workers : reservations'[v] \subseteq reservations[v]
      /\ \A v \in Workers : \A q \in reservations[v] :
           (v # w \/ q # r) => q \in reservations'[v]
      /\ r \notin reservations'[w]
  BY DEF TypeOK
<1>3. ASSUME NEW p \in Pages
      PROVE  \/ p \in free'
             \/ \E k \in Keys : p \in PagesAt(entry'[k])
             \/ \E v \in Workers : \E q \in reservations'[v] : p \in HeldBy(v, q)'
  <2>1. CASE p \in free \/ p \in HeldBy(w, r)
    BY <2>1
  <2>2. CASE \E k \in Keys : p \in PagesAt(entry[k])
    BY <2>2
  <2>3. ASSUME NEW v \in Workers, NEW q \in reservations[v], p \in HeldBy(v, q),
               v # w \/ q # r
        PROVE  \E x \in Workers : \E y \in reservations'[x] : p \in HeldBy(x, y)'
    BY <1>1, <1>2, <2>3
  <2>. QED
    BY <2>1, <2>2, <2>3 DEF PagesOwnedOnce
<1>4. \A k \in Keys : PagesAt(entry'[k]) \cap free' = {}
  BY DEF PagesOwnedOnce
<1>5. \A v \in Workers : \A q \in reservations'[v] : HeldBy(v, q)' \cap free' = {}
  BY <1>1, <1>2 DEF PagesOwnedOnce
<1>6. \A v \in Workers : \A q \in reservations'[v] :
        /\ \A k \in Keys : HeldBy(v, q)' \cap PagesAt(entry'[k]) = {}
        /\ \A x \in Workers : \A y \in reservations'[x] :
             x # v \/ y # q => HeldBy(v, q)' \cap HeldBy(x, y)' = {}
  BY <1>1, <1>2 DEF PagesOwnedOnce
<1>. QED
  BY <1>3, <1>4, <1>5, <1>6 DEF PagesOwnedOnce, Pages

\* AllocateEntry moves free pages into a new reservation.
LEMMA ReserveKeepsPages ==
    ASSUME IInv, NEW w \in Workers, ReserveItem(w)
    PROVE  PagesOwnedOnce'
<1>1. PICK P \in SUBSET free :
        /\ free' = free \ P
        /\ reservations' = [reservations EXCEPT ![w] = @ \cup
              {[index |-> idx[w], pages |-> P,
                previous |-> PagesAt(Current(w, idx[w]))]}]
  BY DEF ReserveItem
<1>. DEFINE n == [index |-> idx[w], pages |-> P,
                  previous |-> PagesAt(Current(w, idx[w]))]
<1>2. n.pages = P
  OBVIOUS
<1>3. /\ reservations'[w] = reservations[w] \cup {n}
      /\ \A v \in Workers : v # w => reservations'[v] = reservations[v]
  BY <1>1 DEF IInv, TypeOK
<1>. HIDE DEF n
<1>4. pc'[w] # "retire" /\ pc[w] # "retire" /\ entry' = entry
      /\ \A v \in Workers : v # w => pc'[v] = pc[v]
  BY DEF ReserveItem, AfterItem, IInv, TypeOK
<1>5. \A v \in Workers : \A q : HeldBy(v, q)' = HeldBy(v, q)
  BY <1>4 DEF HeldBy
<1>6. HeldBy(w, n) = P
  BY <1>2, <1>4 DEF HeldBy
<1>7. ASSUME NEW v \in Workers, NEW q \in reservations'[v], q # n \/ v # w
      PROVE  q \in reservations[v]
  BY <1>3, <1>7
<1>8. ASSUME NEW p \in Pages
      PROVE  \/ p \in free'
             \/ \E k \in Keys : p \in PagesAt(entry'[k])
             \/ \E v \in Workers : \E q \in reservations'[v] : p \in HeldBy(v, q)'
  <2>1. CASE p \in P
    BY <1>3, <1>5, <1>6, <2>1
  <2>2. CASE p \in free \ P \/ \E k \in Keys : p \in PagesAt(entry[k])
    BY <1>1, <1>4, <2>2
  <2>3. CASE \E v \in Workers : \E q \in reservations[v] : p \in HeldBy(v, q)
    BY <1>3, <1>5, <2>3
  <2>. QED
    BY <2>1, <2>2, <2>3 DEF IInv, PagesOwnedOnce
<1>9. /\ \A k \in Keys : PagesAt(entry'[k]) \cap free' = {}
      /\ \A j, k \in Keys : j # k => PagesAt(entry'[j]) \cap PagesAt(entry'[k]) = {}
  BY <1>1, <1>4 DEF IInv, PagesOwnedOnce
<1>10. /\ P \cap free' = {}
       /\ \A k \in Keys : P \cap PagesAt(entry'[k]) = {}
       /\ \A v \in Workers : \A q \in reservations[v] : P \cap HeldBy(v, q) = {}
  BY <1>1, <1>4 DEF IInv, PagesOwnedOnce
<1>11. ASSUME NEW v \in Workers, NEW q \in reservations'[v]
       PROVE  /\ HeldBy(v, q) \cap free' = {}
              /\ \A k \in Keys : HeldBy(v, q) \cap PagesAt(entry'[k]) = {}
  <2>1. CASE v = w /\ q = n
    BY <1>6, <1>10, <2>1
  <2>2. CASE q # n \/ v # w
    BY <1>1, <1>4, <1>7, <2>2 DEF IInv, PagesOwnedOnce
  <2>. QED
    BY <2>1, <2>2
<1>12. ASSUME NEW v \in Workers, NEW q \in reservations'[v],
              NEW x \in Workers, NEW y \in reservations'[x], x # v \/ y # q
       PROVE  HeldBy(v, q) \cap HeldBy(x, y) = {}
  <2>1. CASE v = w /\ q = n
    BY <1>6, <1>7, <1>10, <1>12, <2>1
  <2>2. CASE x = w /\ y = n
    BY <1>6, <1>7, <1>10, <1>12, <2>2
  <2>3. CASE (q # n \/ v # w) /\ (y # n \/ x # w)
    BY <1>7, <1>12, <2>3 DEF IInv, PagesOwnedOnce
  <2>. QED
    BY <2>1, <2>2, <2>3
<1>. QED
  BY <1>5, <1>8, <1>9, <1>11, <1>12 DEF PagesOwnedOnce, Pages

\* Publication moves the reserved pages into the entries and the replaced
\* pages into the reservations.
LEMMA PublishKeepsPages ==
    ASSUME IInv, NEW w \in Workers, Publish(w)
    PROVE  PagesOwnedOnce'
<1>1. /\ free' = free /\ reservations' = reservations
      /\ pc[w] = "write" /\ pc'[w] = "retire"
      /\ \A v \in Workers : v # w => pc'[v] = pc[v]
  BY DEF Publish, IInv, TypeOK
<1>2. ASSUME NEW r \in reservations[w]
      PROVE  /\ KeyOf(w, r.index) \in Keys
             /\ r \in ReservationsOf(w, KeyOf(w, r.index))
             /\ HeldBy(w, r) = r.pages
             /\ HeldBy(w, r)' = PagesAt(entry[KeyOf(w, r.index)])
             /\ PagesAt(entry'[KeyOf(w, r.index)]) = r.pages
             /\ \A q \in reservations[w] :
                  q # r => KeyOf(w, q.index) # KeyOf(w, r.index)
  <2>1. r.index \in Indices(w) /\ r.previous = PagesAt(Current(w, r.index))
    BY <1>1 DEF IInv, WorkerInv, ReservationsSound
  <2>2. KeyOf(w, r.index) \in Keys
    BY <1>1, <2>1, WorkerItems DEF IInv
  <2>3. r \in ReservationsOf(w, KeyOf(w, r.index))
    BY DEF ReservationsOf
  <2>4. entry'[KeyOf(w, r.index)] \in Entry
        /\ entry'[KeyOf(w, r.index)].pages = r.pages
    <3>1. TypeOK /\ ReservationsSound(w)
      BY DEF IInv, WorkerInv
    <3>2. /\ entry'[KeyOf(w, r.index)] \in Entry
          /\ entry'[KeyOf(w, r.index)] =
               [size |-> req[w].items[r.index].size, pages |-> r.pages]
      BY <2>2, <2>3, <3>1, PublishedEntry
    <3>. QED
      BY <3>2
  <2>5. PagesAt(entry'[KeyOf(w, r.index)]) = r.pages
    BY <2>4, ConnectorAssumption DEF PagesAt, Entry, Pages
  <2>6. \A q \in reservations[w] : q # r => KeyOf(w, q.index) # KeyOf(w, r.index)
    BY DEF IInv, WorkerInv, ReservationsSound
  <2>. QED
    BY <1>1, <2>1, <2>2, <2>3, <2>5, <2>6 DEF HeldBy, Current
<1>3. \A v \in Workers : \A q : v # w => HeldBy(v, q)' = HeldBy(v, q)
  BY <1>1 DEF HeldBy
<1>4. ASSUME NEW k \in Keys
      PROVE  \/ /\ PagesAt(entry'[k]) = PagesAt(entry[k])
                /\ \A r \in reservations[w] : KeyOf(w, r.index) # k
             \/ \E r \in reservations[w] : /\ KeyOf(w, r.index) = k
                                           /\ PagesAt(entry'[k]) = HeldBy(w, r)
  <2>1. CASE ReservationsOf(w, k) = {}
    BY <2>1, PublishedEntry DEF IInv, WorkerInv, ReservationsOf
  <2>2. CASE ReservationsOf(w, k) # {}
    BY <1>2, <2>2 DEF ReservationsOf
  <2>. QED
    BY <2>1, <2>2
<1>5. ASSUME NEW p \in Pages
      PROVE  \/ p \in free'
             \/ \E k \in Keys : p \in PagesAt(entry'[k])
             \/ \E v \in Workers : \E q \in reservations'[v] : p \in HeldBy(v, q)'
  <2>1. CASE p \in free
    BY <1>1, <2>1
  <2>2. ASSUME NEW k \in Keys, p \in PagesAt(entry[k])
        PROVE  \/ p \in PagesAt(entry'[k])
               \/ \E q \in reservations'[w] : p \in HeldBy(w, q)'
    BY <1>1, <1>2, <1>4, <2>2
  <2>3. ASSUME NEW q \in reservations[w], p \in HeldBy(w, q)
        PROVE  \E k \in Keys : p \in PagesAt(entry'[k])
    BY <1>2, <2>3
  <2>4. ASSUME NEW v \in Workers, NEW q \in reservations[v], p \in HeldBy(v, q),
               v # w
        PROVE  \E y \in reservations'[v] : p \in HeldBy(v, y)'
    BY <1>1, <1>3, <2>4
  <2>. QED
    BY <2>1, <2>2, <2>3, <2>4 DEF IInv, PagesOwnedOnce
<1>6. \A k \in Keys : PagesAt(entry'[k]) \cap free' = {}
  BY <1>1, <1>4 DEF IInv, PagesOwnedOnce
<1>7. ASSUME NEW j \in Keys, NEW k \in Keys, j # k
      PROVE  PagesAt(entry'[j]) \cap PagesAt(entry'[k]) = {}
  BY <1>4, <1>7 DEF IInv, PagesOwnedOnce
<1>8. ASSUME NEW r \in reservations[w]
      PROVE  /\ HeldBy(w, r)' \cap free' = {}
             /\ \A k \in Keys : HeldBy(w, r)' \cap PagesAt(entry'[k]) = {}
             /\ \A v \in Workers : \A q \in reservations'[v] :
                  v # w \/ q # r => HeldBy(w, r)' \cap HeldBy(v, q)' = {}
  <2>1. HeldBy(w, r)' \cap free' = {}
    BY <1>1, <1>2 DEF IInv, PagesOwnedOnce
  <2>2. ASSUME NEW k \in Keys PROVE HeldBy(w, r)' \cap PagesAt(entry'[k]) = {}
    BY <1>2, <1>4 DEF IInv, PagesOwnedOnce
  <2>3. ASSUME NEW v \in Workers, NEW q \in reservations'[v], v # w \/ q # r
        PROVE  HeldBy(w, r)' \cap HeldBy(v, q)' = {}
    <3>1. CASE v = w
      BY <1>1, <1>2, <2>3, <3>1 DEF IInv, PagesOwnedOnce
    <3>2. CASE v # w
      BY <1>1, <1>2, <1>3, <3>2 DEF IInv, PagesOwnedOnce
    <3>. QED
      BY <3>1, <3>2
  <2>. QED
    BY <2>1, <2>2, <2>3
<1>9. ASSUME NEW v \in Workers, v # w, NEW r \in reservations'[v]
      PROVE  /\ HeldBy(v, r)' \cap free' = {}
             /\ \A k \in Keys : HeldBy(v, r)' \cap PagesAt(entry'[k]) = {}
             /\ \A x \in Workers : \A q \in reservations'[x] :
                  x # v \/ q # r => HeldBy(v, r)' \cap HeldBy(x, q)' = {}
  <2>1. HeldBy(v, r)' = HeldBy(v, r) /\ r \in reservations[v]
    BY <1>1, <1>3, <1>9
  <2>2. ASSUME NEW k \in Keys PROVE HeldBy(v, r)' \cap PagesAt(entry'[k]) = {}
    BY <1>4, <1>9, <2>1 DEF IInv, PagesOwnedOnce
  <2>3. ASSUME NEW x \in Workers, NEW q \in reservations'[x], x # v \/ q # r
        PROVE  HeldBy(v, r)' \cap HeldBy(x, q)' = {}
    <3>1. CASE x = w
      BY <1>1, <1>2, <2>1, <3>1 DEF IInv, PagesOwnedOnce
    <3>2. CASE x # w
      BY <1>1, <1>3, <2>1, <2>3, <3>2 DEF IInv, PagesOwnedOnce
    <3>. QED
      BY <3>1, <3>2
  <2>. QED
    BY <1>1, <2>1, <2>2, <2>3 DEF IInv, PagesOwnedOnce
<1>. QED
  BY <1>1, <1>5, <1>6, <1>7, <1>8, <1>9 DEF PagesOwnedOnce, Pages

\* A delete moves the pages of the entry into the list it will release.
LEMMA DeleteKeepsPages ==
    ASSUME IInv, NEW w \in Workers, Delete(w)
    PROVE  PagesOwnedOnce'
<1>1. /\ pc[w] = "delete" /\ pc'[w] = "retire" /\ free' = free
      /\ \A v \in Workers : v # w => pc'[v] = pc[v]
      /\ reservations[w] = {}
  BY DEF Delete, IInv, TypeOK, WorkerInv, ReservationsSound
<1>. DEFINE k1 == KeyOf(w, 1)
<1>2. k1 \in Keys /\ entry[k1] \in Entry \cup {None}
  BY <1>1, WorkerItems DEF IInv, Current
<1>3. CASE entry[k1] = None
  <2>1. entry' = entry /\ reservations' = reservations
    BY <1>3 DEF Delete, Current
  <2>. QED
    BY <1>1, <2>1, PagesKeep DEF IInv
<1>4. CASE entry[k1] # None
  <2>0. PICK n : n = [index |-> 1, pages |-> {}, previous |-> entry[k1].pages]
    OBVIOUS
  <2>1. /\ reservations'[w] = {n}
        /\ \A v \in Workers : v # w => reservations'[v] = reservations[v]
        /\ entry'[k1] = None
        /\ \A k \in Keys : k # k1 => entry'[k] = entry[k]
    BY <1>2, <1>4, <2>0 DEF Delete, Current, IInv, TypeOK
  <2>2. n.previous = PagesAt(entry[k1]) /\ PagesAt(entry'[k1]) = {}
    BY <1>4, <2>0, <2>1 DEF PagesAt
  <2>. HIDE DEF k1
  <2>3. HeldBy(w, n)' = PagesAt(entry[k1])
    BY <1>1, <2>2 DEF HeldBy
  <2>4. \A v \in Workers : \A q : v # w => HeldBy(v, q)' = HeldBy(v, q)
    BY <1>1 DEF HeldBy
  <2>5. \A k \in Keys : PagesAt(entry'[k]) = IF k = k1 THEN {} ELSE PagesAt(entry[k])
    BY <2>1, <2>2
  <2>6. ASSUME NEW p \in Pages
        PROVE  \/ p \in free'
               \/ \E k \in Keys : p \in PagesAt(entry'[k])
               \/ \E v \in Workers : \E q \in reservations'[v] : p \in HeldBy(v, q)'
    <3>1. CASE p \in free
      BY <1>1, <3>1
    <3>2. CASE p \in PagesAt(entry[k1])
      BY <2>1, <2>3, <3>2
    <3>3. ASSUME NEW k \in Keys, k # k1, p \in PagesAt(entry[k])
          PROVE  p \in PagesAt(entry'[k])
      BY <2>5, <3>3
    <3>4. ASSUME NEW v \in Workers, NEW q \in reservations[v], p \in HeldBy(v, q)
          PROVE  q \in reservations'[v] /\ p \in HeldBy(v, q)'
      BY <1>1, <2>1, <2>4, <3>4
    <3>. QED
      BY <3>1, <3>2, <3>3, <3>4 DEF IInv, PagesOwnedOnce
  <2>7. /\ \A k \in Keys : PagesAt(entry'[k]) \cap free' = {}
        /\ \A j, k \in Keys : j # k => PagesAt(entry'[j]) \cap PagesAt(entry'[k]) = {}
    BY <1>1, <2>5 DEF IInv, PagesOwnedOnce
  <2>8. ASSUME NEW v \in Workers, NEW r \in reservations'[v]
        PROVE  /\ HeldBy(v, r)' \cap free' = {}
               /\ \A k \in Keys : HeldBy(v, r)' \cap PagesAt(entry'[k]) = {}
    <3>1. CASE v = w
      BY <1>1, <1>2, <2>1, <2>3, <2>5, <3>1 DEF IInv, PagesOwnedOnce
    <3>2. CASE v # w
      BY <1>1, <2>1, <2>4, <2>5, <3>2 DEF IInv, PagesOwnedOnce
    <3>. QED
      BY <3>1, <3>2
  <2>9. ASSUME NEW v \in Workers, NEW r \in reservations'[v],
               NEW x \in Workers, NEW q \in reservations'[x], x # v \/ q # r
        PROVE  HeldBy(v, r)' \cap HeldBy(x, q)' = {}
    <3>1. CASE v = w
      BY <1>2, <2>1, <2>3, <2>4, <2>9, <3>1 DEF IInv, PagesOwnedOnce
    <3>2. CASE x = w
      BY <1>2, <2>1, <2>3, <2>4, <2>9, <3>2 DEF IInv, PagesOwnedOnce
    <3>3. CASE v # w /\ x # w
      BY <2>1, <2>4, <2>9, <3>3 DEF IInv, PagesOwnedOnce
    <3>. QED
      BY <3>1, <3>2, <3>3
  <2>. QED
    BY <2>6, <2>7, <2>8, <2>9 DEF PagesOwnedOnce, Pages
<1>. QED
  BY <1>3, <1>4

\* Every step keeps the ownership of the pages.
LEMMA NextPages == IInv /\ [Next]_vars => PagesOwnedOnce'
<1>. SUFFICES ASSUME IInv, [Next]_vars PROVE PagesOwnedOnce'
  OBVIOUS
<1>1. CASE ContextLost \/ UNCHANGED vars
  BY <1>1, PagesKeep DEF ContextLost, vars, IInv
<1>. SUFFICES ASSUME NEW w \in Workers,
                     Step(w) \/ \E r \in Requests : Begin(w, r)
              PROVE  PagesOwnedOnce'
  BY <1>1 DEF Next
<1>2. CASE ReserveItem(w)
  BY <1>2, ReserveKeepsPages
<1>3. CASE Publish(w)
  BY <1>3, PublishKeepsPages
<1>4. CASE Delete(w)
  BY <1>4, DeleteKeepsPages
<1>5. CASE RollBack(w)
  BY <1>5, ReleaseKeepsPages DEF RollBack, HeldBy, IInv
<1>6. CASE RetirePrevious(w)
  BY <1>6, ReleaseKeepsPages DEF RetirePrevious, HeldBy, IInv
<1>7. ASSUME free' = free, entry' = entry, reservations' = reservations,
             reservations[w] = {} \/ (pc'[w] = "retire" <=> pc[w] = "retire")
      PROVE  PagesOwnedOnce'
  BY <1>7, PagesKeep, StepsLocal DEF IInv
<1>8. reservations[w] # {} =>
        pc[w] \in {"set", "submit", "write", "rollback", "retire"}
  BY DEF IInv, WorkerInv, ReservationsSound
<1>9. CASE \/ \E r \in Requests : Begin(w, r)
           \/ Lock(w) \/ SkipItem(w) \/ ItemThrows(w) \/ SubmitWrites(w)
           \/ SubmitThrows(w) \/ WriteDone(w) \/ WriteFails(w) \/ WritesThrow(w)
           \/ SubmitReads(w) \/ ReadThrows(w) \/ ReadDone(w) \/ ReadFails(w)
           \/ ReadsEnd(w) \/ Exists(w) \/ Return(w)
  <2>1. free' = free /\ entry' = entry /\ reservations' = reservations
    BY <1>9 DEF Begin, Lock, SkipItem, ItemThrows, SubmitWrites, SubmitThrows,
                WriteDone, WriteFails, WritesThrow, SubmitReads, ReadThrows,
                ReadDone, ReadFails, ReadsEnd, Exists, Return
  <2>2. reservations[w] = {} \/ (pc'[w] = "retire" <=> pc[w] = "retire")
    BY <1>8, <1>9 DEF Begin, Lock, SkipItem, AfterItem, ItemThrows, SubmitWrites,
                SubmitThrows, WriteDone, WriteFails, WritesThrow, SubmitReads,
                ReadThrows, ReadDone, ReadFails, ReadsEnd, Exists, Return, IInv, TypeOK
  <2>. QED
    BY <1>7, <2>1, <2>2
<1>. QED
  BY <1>2, <1>3, <1>4, <1>5, <1>6, <1>9 DEF Step

-----------------------------------------------------------------------------
(* Invariants *)

\* The initial state satisfies it.
LEMMA InitIInv == Init => IInv
<1>. SUFFICES ASSUME Init PROVE IInv
  OBVIOUS
<1>1. \A w \in Workers : WorkerInv(w)
  BY DEF Init, WorkerInv, LocksHeld, LoopInItems, ReservationsSound, IoSound
<1>2. PagesOwnedOnce
  BY DEF Init, PagesOwnedOnce, PagesAt
<1>. QED
  BY <1>1, <1>2, InitTypes DEF IInv

\* The page and lock discipline is an invariant.
LEMMA SpecIInv == Spec => []IInv
<1>1. IInv /\ [Next]_vars => IInv'
  BY NextTypes, NextWorkers, NextPages DEF IInv
<1>. QED
  BY <1>1, InitIInv, PTL DEF Spec

\* The connector's fields and the locals of its request bodies keep their
\* types, whatever fails and however the workers interleave.
THEOREM SpecTypeOK == Spec => []TypeOK
BY SpecIInv, PTL DEF IInv

\* Replacement, rollback and delete (do_batch_set and do_single_delete) neither
\* leak a page nor give one to two owners.
THEOREM SpecPagesOwnedOnce == Spec => []PagesOwnedOnce
BY SpecIInv, PTL DEF IInv

\* A read in flight (do_batch_get) stays inside the entry it was started for.
THEOREM SpecReadsStayInEntry == Spec => []ReadsStayInEntry
<1>1. IInv => ReadsStayInEntry
  BY DEF IInv, WorkerInv, IoSound, ReadsStayInEntry
<1>. QED
  BY <1>1, SpecIInv, PTL

\* The page a write ends on belongs to no entry.
LEMMA WritesOffEntries ==
    ASSUME IInv, NEW w \in Workers, pc[w] = "write", NEW s \in io[w], NEW k \in Keys
    PROVE  s[2] \notin PagesAt(entry[k])
<1>1. PICK r \in reservations[w] : s[2] \in r.pages
  BY DEF IInv, WorkerInv, IoSound, Segments
<1>2. HeldBy(w, r) = r.pages
  BY DEF HeldBy
<1>. QED
  BY <1>1, <1>2 DEF IInv, PagesOwnedOnce

\* A page of an entry keeps its content over every step.
LEMMA EntriesKeepContent ==
    ASSUME IInv, [Next]_vars, NEW k \in Keys, NEW p \in PagesAt(entry[k])
    PROVE  disk'[p] = disk[p]
<1>1. CASE disk' = disk
  BY <1>1
<1>2. ASSUME NEW w \in Workers, WriteDone(w) \/ WriteFails(w)
      PROVE  disk'[p] = disk[p]
  <2>1. PICK s \in io[w] : \E c : disk' = [disk EXCEPT ![s[2]] = c]
    BY <1>2 DEF WriteDone, WriteFails
  <2>2. p # s[2]
    BY <1>2, WritesOffEntries DEF WriteDone, WriteFails
  <2>. QED
    BY <2>1, <2>2, EntryPages DEF IInv, TypeOK
<1>. QED
  BY <1>1, <1>2 DEF Next, Step, Begin, Lock, SkipItem, ReserveItem, ItemThrows,
     SubmitWrites, SubmitThrows, WritesThrow, Publish, RollBack, RetirePrevious,
     SubmitReads, ReadThrows, ReadDone, ReadFails, ReadsEnd, Exists, Delete,
     Return, ContextLost, vars

\* Copy-on-write: no step, a failing or a torn write included, changes a page
\* of an entry that stays published.
THEOREM SpecCommittedPagesUntouched == Spec => CommittedPagesUntouched
<1>1. IInv /\ [Next]_vars =>
        [\A k \in Keys : entry[k] # None /\ entry'[k] = entry[k]
           => \A p \in entry[k].pages : disk'[p] = disk[p]]_vars
  <2>. SUFFICES ASSUME IInv, [Next]_vars, NEW k \in Keys, entry[k] # None,
                       NEW p \in entry[k].pages
                PROVE  disk'[p] = disk[p]
    OBVIOUS
  <2>. QED
    BY EntriesKeepContent DEF PagesAt
<1>. QED
  BY <1>1, SpecIInv, PTL DEF Spec, CommittedPagesUntouched

-----------------------------------------------------------------------------
(* The connector implements the cache of atomic requests                    *)
(* (SpdkConnector!ImplementsCache). A store takes effect when it publishes, *)
(* a lookup when its last read has ended, the others in their one step.     *)

(* The invariant the refinement needs beside IInv *)

\* A worker is in a phase of its request's operation, and the answer is
\* decided once the request only has pages to release.
PhaseSound(w) ==
    /\ pc[w] \in {"set", "submit", "write", "rollback"} => req[w].op = "set"
    /\ pc[w] \in {"get", "read"} => req[w].op = "get"
    /\ pc[w] \in {"exists", "delete"} => req[w].op = pc[w]
    /\ reply[w] # None <=> pc[w] \in {"rollback", "retire"}

\* The items do_batch_set's loop has passed: none was bad, and each is skipped
\* or has a reservation of at least one page.
LoopSound(w) ==
    /\ pc[w] = "lock" => idx[w] = 1
    /\ pc[w] \in {"set", "submit", "write"} =>
         /\ \A i \in Indices(w) : (pc[w] = "set" => i < idx[w]) =>
              /\ ~ Rejected(w, i)
              /\ Skipped(w, i) \/ \E r \in reservations[w] : r.index = i
         /\ \A r \in reservations[w] : ~ Skipped(w, r.index) /\ r.pages # {}

\* A reserved page whose write has ended holds its item's payload, unless a
\* write of that item failed.
WritesSound(w) ==
    pc[w] = "write" =>
        \A r \in reservations[w] : \A p \in r.pages :
            \/ <<r.index, p>> \in io[w]
            \/ r.index \in bad[w]
            \/ disk[p] = req[w].items[r.index].value

\* The buffer of an item that may still become a hit has been filled from
\* pages of its key's entry, from all that are no longer outstanding.
ReadsSound(w) ==
    /\ pc[w] \in {"lock", "get"} => \A i \in Indices(w) : buf[w][i] = {}
    /\ pc[w] = "read" =>
         \A i \in Indices(w) : i \notin bad[w] =>
            /\ Hit(w, i)
            /\ \A p \in Current(w, i).pages :
                 <<i, p>> \in io[w] \/ disk[p] \in buf[w][i]
            /\ buf[w][i] \subseteq {disk[p] : p \in Current(w, i).pages}

RequestInv(w) ==
    /\ PhaseSound(w)
    /\ LoopSound(w)
    /\ WritesSound(w)
    /\ ReadsSound(w)

\* The inductive invariant of the refinement.
RInv == IInv /\ \A w \in Workers : RequestInv(w)

-----------------------------------------------------------------------------
(* Frames *)

\* The items of a request are numbered from one.
LEMMA ItemNumbers ==
    ASSUME TypeOK, NEW w \in Workers, pc[w] # "idle"
    PROVE  \E n \in Nat : Indices(w) = 1 .. n
<1>1. req[w] \in Requests
  BY WorkerItems
<1>2. req[w].items \in Seq(Item)
  BY <1>1, ConnectorAssumption
<1>. QED
  BY <1>2 DEF Indices

\* Only the worker that reserved a page writes it before publication.
LEMMA OthersWritesApart ==
    ASSUME IInv, NEW w \in Workers, Step(w) \/ \E r \in Requests : Begin(w, r),
           NEW v \in Workers, v # w, pc[v] = "write",
           NEW r \in reservations[v], NEW p \in r.pages
    PROVE  disk'[p] = disk[p]
<1>1. CASE disk' = disk
  BY <1>1
<1>2. CASE WriteDone(w) \/ WriteFails(w)
  <2>1. PICK s \in io[w] : \E c : disk' = [disk EXCEPT ![s[2]] = c]
    BY <1>2 DEF WriteDone, WriteFails
  <2>2. pc[w] = "write"
    BY <1>2 DEF WriteDone, WriteFails
  <2>3. PICK q \in reservations[w] : s[2] \in q.pages
    BY <2>2 DEF IInv, WorkerInv, IoSound, Segments
  <2>4. HeldBy(w, q) = q.pages /\ HeldBy(v, r) = r.pages
    BY <2>2 DEF HeldBy
  <2>5. p # s[2]
    BY <2>3, <2>4 DEF IInv, PagesOwnedOnce
  <2>6. p \in Pages
    BY DEF IInv, TypeOK, Reservation
  <2>. QED
    BY <2>1, <2>5, <2>6 DEF IInv, TypeOK
<1>. QED
  BY <1>1, <1>2 DEF Step, Begin, Lock, SkipItem, ReserveItem, ItemThrows,
     SubmitWrites, SubmitThrows, WritesThrow, Publish, RollBack, RetirePrevious,
     SubmitReads, ReadThrows, ReadDone, ReadFails, ReadsEnd, Exists, Delete, Return

\* A request whose locals, entries and pages a step leaves alone is as it was.
LEMMA RequestKeeps ==
    ASSUME IInv, [Next]_vars, NEW v \in Workers, RequestInv(v),
           pc'[v] = pc[v], req'[v] = req[v], idx'[v] = idx[v],
           reservations'[v] = reservations[v], io'[v] = io[v],
           bad'[v] = bad[v], buf'[v] = buf[v], reply'[v] = reply[v],
           \A k \in Keys : owner[k] = v => entry'[k] = entry[k],
           pc[v] = "write" => \A r \in reservations[v] : \A p \in r.pages :
                                disk'[p] = disk[p]
    PROVE  RequestInv(v)'
<1>1. Indices(v)' = Indices(v) /\ \A i : KeyOf(v, i)' = KeyOf(v, i)
  BY DEF Indices, KeyOf
<1>2. PhaseSound(v)'
  BY DEF RequestInv, PhaseSound
<1>3. WritesSound(v)'
  BY DEF RequestInv, WritesSound
<1>4. CASE pc[v] \in {"idle", "lock"}
  BY <1>1, <1>2, <1>3, <1>4 DEF RequestInv, LoopSound, ReadsSound
<1>5. CASE pc[v] \notin {"idle", "lock"}
  <2>1. \A i \in Indices(v) : KeyOf(v, i) \in Keys /\ owner[KeyOf(v, i)] = v
    BY <1>5, WorkerItems DEF IInv, WorkerInv, LocksHeld
  <2>2. \A i \in Indices(v) : Current(v, i)' = Current(v, i)
    BY <1>1, <2>1 DEF Current
  <2>3. \A i \in Indices(v) : /\ Skipped(v, i)' <=> Skipped(v, i)
                              /\ Rejected(v, i)' <=> Rejected(v, i)
                              /\ Hit(v, i)' <=> Hit(v, i)
    BY <1>1, <2>2 DEF Skipped, Rejected, Hit
  <2>4. \A r \in reservations[v] : r.index \in Indices(v)
    BY DEF IInv, WorkerInv, ReservationsSound
  <2>5. LoopSound(v)'
    BY <1>1, <2>3, <2>4 DEF RequestInv, LoopSound
  <2>6. \A i \in Indices(v) : \A p \in PagesAt(Current(v, i)) : disk'[p] = disk[p]
    BY <2>1, EntriesKeepContent DEF Current
  <2>7. ReadsSound(v)'
    <3>1. CASE pc[v] = "read"
      <4>1. ASSUME NEW i \in Indices(v), i \notin bad[v]
            PROVE  /\ Hit(v, i)'
                   /\ \A p \in Current(v, i)'.pages :
                        <<i, p>> \in io'[v] \/ disk'[p] \in buf'[v][i]
                   /\ buf'[v][i] \subseteq {disk'[p] : p \in Current(v, i)'.pages}
        <5>1. /\ Hit(v, i)
              /\ \A p \in Current(v, i).pages :
                   <<i, p>> \in io[v] \/ disk[p] \in buf[v][i]
              /\ buf[v][i] \subseteq {disk[p] : p \in Current(v, i).pages}
          BY <3>1, <4>1 DEF RequestInv, ReadsSound
        <5>2. PagesAt(Current(v, i)) = Current(v, i).pages
          BY <5>1 DEF Hit, PagesAt
        <5>3. \A p \in Current(v, i).pages : disk'[p] = disk[p]
          BY <2>6, <5>2
        <5>. QED
          BY <2>2, <2>3, <5>1, <5>3
      <4>. QED
        BY <1>1, <3>1, <4>1 DEF ReadsSound
    <3>2. CASE pc[v] # "read"
      BY <1>1, <3>2 DEF RequestInv, ReadsSound
    <3>. QED
      BY <3>1, <3>2
  <2>. QED
    BY <1>2, <1>3, <2>5, <2>7 DEF RequestInv
<1>. QED
  BY <1>4, <1>5

-----------------------------------------------------------------------------
(* Steps of a store *)

\* A value that is not empty takes at least one page.
LEMMA PagesNeeded ==
    ASSUME NEW n \in Nat, n # 0
    PROVE  PagesForBytes(n) # 0
<1>1. PageSize \in Nat /\ PageSize > 0
  BY ConnectorAssumption
<1>2. n + PageSize - 1 \in Nat /\ n + PageSize - 1 >= PageSize
  BY <1>1
<1>3. \A a \in Nat, b \in Nat : b > 0 /\ a >= b => a \div b # 0
  OBVIOUS
<1>. QED
  BY <1>1, <1>2, <1>3 DEF PagesForBytes

\* What a pass of the loop leaves alone.
LEMMA LoopStep ==
    ASSUME IInv, NEW w \in Workers, RequestInv(w), SkipItem(w) \/ ReserveItem(w)
    PROVE  /\ Indices(w)' = Indices(w)
           /\ \A i : /\ Skipped(w, i)' <=> Skipped(w, i)
                     /\ Rejected(w, i)' <=> Rejected(w, i)
           /\ \A i \in Indices(w) :
                (pc'[w] = "set" => i < idx'[w]) => i < idx[w] \/ i = idx[w]
           /\ idx[w] \in Indices(w)
           /\ pc[w] = "set" /\ pc'[w] \in {"set", "submit"}
           /\ PhaseSound(w)' /\ WritesSound(w)' /\ ReadsSound(w)'
<1>1. /\ Indices(w)' = Indices(w) /\ \A i : KeyOf(w, i)' = KeyOf(w, i)
      /\ \A i : Current(w, i)' = Current(w, i) /\ req' = req /\ reply' = reply
  BY DEF SkipItem, ReserveItem, Indices, KeyOf, Current
<1>2. \A i : /\ Skipped(w, i)' <=> Skipped(w, i)
             /\ Rejected(w, i)' <=> Rejected(w, i)
  BY <1>1 DEF Skipped, Rejected
<1>3. AfterItem(w) /\ pc[w] = "set"
  BY DEF SkipItem, ReserveItem
<1>4. PICK n \in Nat : Indices(w) = 1 .. n
  BY <1>3, ItemNumbers DEF IInv
<1>5. idx[w] \in Indices(w) /\ idx[w] \in Nat
  BY <1>3 DEF IInv, WorkerInv, LoopInItems, TypeOK
<1>6. /\ idx'[w] = idx[w] + 1
      /\ pc'[w] = IF idx[w] + 1 \in Indices(w) THEN "set" ELSE "submit"
  BY <1>3 DEF AfterItem, IInv, TypeOK
<1>7. \A i \in Indices(w) :
        (pc'[w] = "set" => i < idx'[w]) => i < idx[w] \/ i = idx[w]
  <2>1. CASE pc'[w] = "set"
    BY <1>4, <1>5, <1>6, <2>1
  <2>2. CASE pc'[w] # "set"
    BY <1>4, <1>5, <1>6, <2>2
  <2>. QED
    BY <2>1, <2>2
<1>8. PhaseSound(w)' /\ WritesSound(w)' /\ ReadsSound(w)'
  BY <1>1, <1>3, <1>6 DEF RequestInv, PhaseSound, WritesSound, ReadsSound
<1>. QED
  BY <1>1, <1>2, <1>3, <1>5, <1>6, <1>7, <1>8

\* An item passed over keeps the loop's invariant.
LEMMA SkipKeepsRequest ==
    ASSUME IInv, NEW w \in Workers, RequestInv(w), SkipItem(w)
    PROVE  RequestInv(w)'
<1>1. reservations' = reservations /\ ~ Rejected(w, idx[w]) /\ Skipped(w, idx[w])
  BY DEF SkipItem
<1>2. LoopSound(w)'
  BY <1>1, LoopStep DEF RequestInv, LoopSound
<1>. QED
  BY <1>2, LoopStep DEF RequestInv

\* So does a reservation: it has a page at least.
LEMMA ReserveKeepsRequest ==
    ASSUME IInv, NEW w \in Workers, RequestInv(w), ReserveItem(w)
    PROVE  RequestInv(w)'
<1>1. PICK P \in SUBSET free :
        /\ LowestFree(PagesForBytes(req[w].items[idx[w]].size), P)
        /\ reservations' = [reservations EXCEPT ![w] = @ \cup
              {[index |-> idx[w], pages |-> P,
                previous |-> PagesAt(Current(w, idx[w]))]}]
  BY DEF ReserveItem
<1>2. PICK n : n = [index |-> idx[w], pages |-> P,
                    previous |-> PagesAt(Current(w, idx[w]))]
  OBVIOUS
<1>3. /\ reservations'[w] = reservations[w] \cup {n}
      /\ n.index = idx[w] /\ n.pages = P
  BY <1>1, <1>2 DEF IInv, TypeOK
<1>4. ~ Rejected(w, idx[w]) /\ ~ Skipped(w, idx[w]) /\ pc[w] = "set"
  BY DEF ReserveItem
<1>5. P # {}
  <2>1. req[w].items[idx[w]].size \in Nat /\ req[w].items[idx[w]].size # 0
    BY <1>4, LoopStep, WorkerItems DEF IInv, Rejected
  <2>2. Cardinality(P) # 0
    BY <1>1, <2>1, PagesNeeded DEF LowestFree
  <2>. QED
    BY <2>2, FS_EmptySet
<1>6. LoopSound(w)'
  <2>1. ASSUME NEW i \in Indices(w), pc'[w] = "set" => i < idx'[w]
        PROVE  /\ ~ Rejected(w, i)
               /\ Skipped(w, i) \/ \E r \in reservations'[w] : r.index = i
    <3>1. CASE i = idx[w]
      BY <1>3, <1>4, <3>1
    <3>2. CASE i < idx[w]
      BY <1>3, <1>4, <3>2 DEF RequestInv, LoopSound
    <3>. QED
      BY <2>1, <3>1, <3>2, LoopStep
  <2>2. \A r \in reservations'[w] : ~ Skipped(w, r.index) /\ r.pages # {}
    BY <1>3, <1>4, <1>5 DEF RequestInv, LoopSound
  <2>. QED
    BY <2>1, <2>2, LoopStep DEF LoopSound
<1>. QED
  BY <1>6, LoopStep DEF RequestInv

\* The end of one write.
LEMMA WriteKeepsRequest ==
    ASSUME IInv, NEW w \in Workers, RequestInv(w), WriteDone(w) \/ WriteFails(w)
    PROVE  RequestInv(w)'
<1>1. PICK s \in io[w] :
        /\ io' = [io EXCEPT ![w] = @ \ {s}]
        /\ \E c : disk' = [disk EXCEPT ![s[2]] = c]
        /\ \/ disk' = [disk EXCEPT ![s[2]] = req[w].items[s[1]].value] /\ bad' = bad
           \/ bad' = [bad EXCEPT ![w] = @ \cup {s[1]}]
  BY DEF WriteDone, WriteFails
<1>2. /\ pc[w] = "write" /\ pc' = pc /\ req' = req /\ idx' = idx /\ buf' = buf
      /\ reservations' = reservations /\ reply' = reply /\ entry' = entry
  BY DEF WriteDone, WriteFails
<1>3. PICK q \in reservations[w] : q.index = s[1] /\ s[2] \in q.pages
  BY <1>2 DEF IInv, WorkerInv, IoSound, Segments
<1>4. s = <<s[1], s[2]>> /\ s[2] \in Pages
  BY DEF IInv, TypeOK
<1>5. io'[w] = io[w] \ {s} /\ bad[w] \subseteq bad'[w]
  BY <1>1 DEF IInv, TypeOK
<1>6. ASSUME NEW r \in reservations[w], NEW p \in r.pages,
             <<r.index, p>> \notin io'[w], r.index \notin bad'[w]
      PROVE  disk'[p] = req[w].items[r.index].value
  <2>1. r.index \notin bad[w] /\ p \in Pages
    BY <1>5, <1>6 DEF IInv, TypeOK, Reservation
  <2>2. CASE p = s[2]
    <3>1. r = q
      BY <1>2, <1>3, <2>2 DEF IInv, PagesOwnedOnce, HeldBy
    <3>2. r.index = s[1]
      BY <1>3, <3>1
    <3>3. disk' = [disk EXCEPT ![s[2]] = req[w].items[s[1]].value]
      BY <1>1, <1>6, <3>2 DEF IInv, TypeOK
    <3>. QED
      BY <1>4, <2>2, <3>2, <3>3 DEF IInv, TypeOK
  <2>3. CASE p # s[2]
    <3>1. disk'[p] = disk[p]
      BY <1>1, <2>1, <2>3 DEF IInv, TypeOK
    <3>2. <<r.index, p>> # s
      BY <1>4, <2>3
    <3>3. <<r.index, p>> \notin io[w]
      BY <1>5, <1>6, <3>2
    <3>. QED
      BY <1>2, <2>1, <3>1, <3>3 DEF RequestInv, WritesSound
  <2>. QED
    BY <2>2, <2>3
<1>7. WritesSound(w)'
  BY <1>2, <1>6 DEF WritesSound
<1>8. PhaseSound(w)' /\ ReadsSound(w)'
  BY <1>2 DEF RequestInv, PhaseSound, ReadsSound
<1>9. LoopSound(w)'
  <2>1. /\ Indices(w)' = Indices(w)
        /\ \A i : /\ Skipped(w, i)' <=> Skipped(w, i)
                  /\ Rejected(w, i)' <=> Rejected(w, i)
    BY <1>2 DEF Indices, Skipped, Rejected, Current, KeyOf
  <2>. QED
    BY <1>2, <2>1 DEF RequestInv, LoopSound
<1>. QED
  BY <1>7, <1>8, <1>9 DEF RequestInv

-----------------------------------------------------------------------------
(* Steps of a lookup *)

\* The reads of a batch begin with every page of every hit outstanding.
LEMMA SubmitReadsKeepsRequest ==
    ASSUME IInv, NEW w \in Workers, RequestInv(w), SubmitReads(w) \/ ReadThrows(w)
    PROVE  RequestInv(w)'
<1>1. /\ pc[w] = "get" /\ pc'[w] = "read" /\ req' = req /\ reply' = reply
      /\ buf' = buf /\ entry' = entry
  BY DEF SubmitReads, ReadThrows, IInv, TypeOK
<1>2. /\ Indices(w)' = Indices(w)
      /\ \A i : Current(w, i)' = Current(w, i) /\ (Hit(w, i)' <=> Hit(w, i))
  BY <1>1 DEF Indices, Current, KeyOf, Hit
<1>3. ASSUME NEW i \in Indices(w), i \notin bad'[w]
      PROVE  /\ Hit(w, i)
             /\ \A p \in Current(w, i).pages : <<i, p>> \in io'[w]
  <2>1. SubmitReads(w)
    BY <1>3 DEF ReadThrows, IInv, TypeOK
  <2>2. Hit(w, i)
    BY <1>3, <2>1 DEF SubmitReads, IInv, TypeOK
  <2>3. Current(w, i).pages \subseteq Pages
    BY <1>1, <2>2, WorkerItems, EntryPages DEF IInv, Hit
  <2>4. io'[w] = {s \in Indices(w) \X Pages :
                    Hit(w, s[1]) /\ s[2] \in Current(w, s[1]).pages}
    BY <2>1 DEF SubmitReads, IInv, TypeOK
  <2>. QED
    BY <2>2, <2>3, <2>4
<1>4. ReadsSound(w)'
  BY <1>1, <1>2, <1>3 DEF RequestInv, ReadsSound
<1>. QED
  BY <1>1, <1>4 DEF RequestInv, PhaseSound, LoopSound, WritesSound

\* The end of one read: its page's content is in the buffer, or its item is
\* bad.
LEMMA ReadKeepsRequest ==
    ASSUME IInv, NEW w \in Workers, RequestInv(w), ReadDone(w) \/ ReadFails(w)
    PROVE  RequestInv(w)'
<1>1. PICK s \in io[w] :
        /\ io' = [io EXCEPT ![w] = @ \ {s}]
        /\ \/ /\ buf' = [buf EXCEPT ![w][s[1]] = @ \cup {disk[s[2]]}]
              /\ bad' = bad
           \/ /\ bad' = [bad EXCEPT ![w] = @ \cup {s[1]}]
              /\ buf' = buf
  BY DEF ReadDone, ReadFails
<1>2. /\ pc[w] = "read" /\ pc' = pc /\ req' = req /\ reply' = reply
      /\ entry' = entry /\ disk' = disk
  BY DEF ReadDone, ReadFails
<1>3. /\ Indices(w)' = Indices(w)
      /\ \A i : Current(w, i)' = Current(w, i) /\ (Hit(w, i)' <=> Hit(w, i))
  BY <1>2 DEF Indices, Current, KeyOf, Hit
<1>4. io'[w] = io[w] \ {s} /\ bad[w] \subseteq bad'[w] /\ s = <<s[1], s[2]>>
      /\ s[1] \in Indices(w) /\ s[2] \in PagesAt(Current(w, s[1]))
  BY <1>1, <1>2 DEF IInv, TypeOK, WorkerInv, IoSound
<1>5. ASSUME NEW i \in Indices(w), i \notin bad'[w]
      PROVE  /\ Hit(w, i)
             /\ \A p \in Current(w, i).pages :
                  <<i, p>> \in io'[w] \/ disk[p] \in buf'[w][i]
             /\ buf'[w][i] \subseteq {disk[p] : p \in Current(w, i).pages}
  <2>1. /\ Hit(w, i)
        /\ \A p \in Current(w, i).pages :
             <<i, p>> \in io[w] \/ disk[p] \in buf[w][i]
        /\ buf[w][i] \subseteq {disk[p] : p \in Current(w, i).pages}
    BY <1>2, <1>4, <1>5 DEF RequestInv, ReadsSound
  <2>2. CASE i = s[1]
    <3>1. buf'[w][i] = buf[w][i] \cup {disk[s[2]]}
      BY <1>1, <1>2, <1>5, <2>2 DEF IInv, TypeOK
    <3>2. s[2] \in Current(w, i).pages
      BY <1>4, <2>1, <2>2 DEF Hit, PagesAt
    <3>3. \A p \in Current(w, i).pages : p # s[2] => <<i, p>> # s
      BY <1>4
    <3>. QED
      BY <1>4, <2>1, <3>1, <3>2, <3>3
  <2>3. CASE i # s[1]
    <3>1. buf'[w][i] = buf[w][i]
      BY <1>1, <1>2, <2>3 DEF IInv, TypeOK
    <3>2. \A p : <<i, p>> # s
      BY <1>4, <2>3
    <3>. QED
      BY <1>4, <2>1, <3>1, <3>2
  <2>. QED
    BY <2>2, <2>3
<1>6. ReadsSound(w)'
  BY <1>2, <1>3, <1>5 DEF ReadsSound
<1>. QED
  BY <1>2, <1>6 DEF RequestInv, PhaseSound, LoopSound, WritesSound

-----------------------------------------------------------------------------
(* Every step *)

\* A lookup's answer is an answer.
LEMMA AnswerDecided ==
    ASSUME IInv, NEW w \in Workers, ReadsEnd(w)
    PROVE  reply'[w] # None
<1>1. pc[w] = "read"
  BY DEF ReadsEnd
<1>2. \A C : Assembled(C) \in Values \cup {Torn}
  BY DEF Assembled
<1>3. reply'[w] \in [Indices(w) -> Values \cup {Torn, None}]
  BY <1>2 DEF ReadsEnd, IInv, TypeOK
<1>. QED
  BY <1>1, <1>3, WorkerItems, ConnectorAssumption DEF IInv, Indices

\* A step keeps the invariant of the request that takes it.
LEMMA StepKeepsRequest ==
    ASSUME IInv, NEW w \in Workers, RequestInv(w),
           Step(w) \/ \E r \in Requests : Begin(w, r)
    PROVE  RequestInv(w)'
<1>1. ASSUME NEW r \in Requests, Begin(w, r) PROVE RequestInv(w)'
  <2>1. /\ pc[w] = "idle" /\ pc'[w] = "lock" /\ idx'[w] = 1 /\ reply' = reply
        /\ req'[w] = r /\ buf'[w] = [i \in DOMAIN r.items |-> {}]
    BY <1>1 DEF Begin, IInv, TypeOK
  <2>. QED
    BY <2>1 DEF RequestInv, PhaseSound, LoopSound, WritesSound, ReadsSound, Indices
<1>2. CASE Lock(w)
  <2>1. /\ pc[w] = "lock" /\ pc'[w] \in {req[w].op, "lock"} /\ idx' = idx
        /\ buf' = buf /\ req' = req /\ reply' = reply
        /\ reservations' = reservations
    BY <1>2 DEF Lock, IInv, TypeOK
  <2>2. req[w].op \in Ops
    BY <2>1, WorkerItems DEF IInv
  <2>3. reservations[w] = {} /\ idx[w] = 1 /\ Indices(w)' = Indices(w)
    BY <2>1 DEF IInv, WorkerInv, ReservationsSound, RequestInv, LoopSound, Indices
  <2>4. \A i \in Indices(w) : ~ (i < 1)
    BY <2>1, ItemNumbers DEF IInv
  <2>5. LoopSound(w)'
    BY <2>1, <2>2, <2>3, <2>4 DEF LoopSound, Ops
  <2>6. PhaseSound(w)' /\ WritesSound(w)' /\ ReadsSound(w)'
    BY <2>1, <2>2, <2>3 DEF RequestInv, PhaseSound, WritesSound, ReadsSound, Ops
  <2>. QED
    BY <2>5, <2>6 DEF RequestInv
<1>3. CASE SubmitWrites(w)
  <2>1. /\ pc[w] = "submit" /\ pc'[w] = "write" /\ io'[w] = Segments(w)
        /\ idx' = idx /\ reservations' = reservations /\ req' = req
        /\ reply' = reply /\ entry' = entry
    BY <1>3 DEF SubmitWrites, IInv, TypeOK
  <2>2. /\ Indices(w)' = Indices(w)
        /\ \A i : /\ Skipped(w, i)' <=> Skipped(w, i)
                  /\ Rejected(w, i)' <=> Rejected(w, i)
    BY <2>1 DEF Indices, Skipped, Rejected, Current, KeyOf
  <2>3. ASSUME NEW r \in reservations[w], NEW p \in r.pages
        PROVE  <<r.index, p>> \in io'[w]
    <3>1. r.index \in Indices(w) /\ p \in Pages
      BY DEF IInv, TypeOK, Reservation, WorkerInv, ReservationsSound
    <3>. QED
      BY <2>1, <3>1 DEF Segments
  <2>4. LoopSound(w)'
    BY <2>1, <2>2 DEF RequestInv, LoopSound
  <2>. QED
    BY <2>1, <2>3, <2>4 DEF RequestInv, PhaseSound, WritesSound, ReadsSound
<1>4. CASE ReadsEnd(w)
  <2>1. pc[w] = "read" /\ pc'[w] = "retire"
    BY <1>4 DEF ReadsEnd, IInv, TypeOK
  <2>. QED
    BY <1>4, <2>1, AnswerDecided DEF RequestInv, PhaseSound, LoopSound,
                                     WritesSound, ReadsSound
<1>5. CASE \/ ItemThrows(w) \/ SubmitThrows(w) \/ WritesThrow(w)
  <2>1. /\ pc[w] \in {"set", "submit", "write"} /\ pc'[w] = "rollback"
        /\ reply'[w] = "failed" /\ req' = req
    BY <1>5 DEF ItemThrows, SubmitThrows, WritesThrow, IInv, TypeOK
  <2>. QED
    BY <2>1, ConnectorAssumption DEF RequestInv, PhaseSound, LoopSound,
                                     WritesSound, ReadsSound
<1>6. CASE Publish(w) \/ Exists(w) \/ Delete(w)
  <2>1. pc'[w] = "retire" /\ reply'[w] \in {"ok", "yes", "no"}
    BY <1>6 DEF Publish, Exists, Delete, IInv, TypeOK
  <2>. QED
    BY <2>1, ConnectorAssumption DEF RequestInv, PhaseSound, LoopSound,
                                     WritesSound, ReadsSound
<1>7. CASE RollBack(w) \/ RetirePrevious(w)
  <2>1. pc[w] \in {"rollback", "retire"} /\ pc' = pc /\ reply' = reply /\ req' = req
    BY <1>7 DEF RollBack, RetirePrevious
  <2>. QED
    BY <2>1 DEF RequestInv, PhaseSound, LoopSound, WritesSound, ReadsSound
<1>8. CASE Return(w)
  <2>1. pc'[w] = "idle" /\ reply'[w] = None
    BY <1>8 DEF Return, IInv, TypeOK
  <2>. QED
    BY <2>1 DEF RequestInv, PhaseSound, LoopSound, WritesSound, ReadsSound
<1>. QED
  BY <1>1, <1>2, <1>3, <1>4, <1>5, <1>6, <1>7, <1>8, SkipKeepsRequest,
     ReserveKeepsRequest, WriteKeepsRequest, SubmitReadsKeepsRequest,
     ReadKeepsRequest DEF Step

\* The invariant of the refinement holds in every state.
LEMMA SpecRInv == Spec => []RInv
<1>1. Init => RInv
  BY InitIInv DEF Init, RInv, RequestInv, PhaseSound, LoopSound, WritesSound,
                  ReadsSound
<1>2. RInv /\ [Next]_vars => RInv'
  <2>. SUFFICES ASSUME RInv, [Next]_vars PROVE RInv'
    OBVIOUS
  <2>1. IInv'
    BY NextTypes, NextWorkers, NextPages DEF RInv, IInv
  <2>2. ASSUME NEW v \in Workers PROVE RequestInv(v)'
    <3>1. CASE ContextLost \/ UNCHANGED vars
      BY <3>1, RequestKeeps DEF ContextLost, vars, RInv
    <3>2. ASSUME NEW w \in Workers, Step(w) \/ \E r \in Requests : Begin(w, r)
          PROVE  RequestInv(v)'
      <4>1. CASE v = w
        BY <3>2, <4>1, StepKeepsRequest DEF RInv
      <4>2. CASE v # w
        <5>1. TypeOK /\ WorkerInv(w)
          BY DEF RInv, IInv
        <5>2. pc[v] = "write" => \A r \in reservations[v] : \A p \in r.pages :
                                   disk'[p] = disk[p]
          BY <3>2, <4>2, OthersWritesApart DEF RInv
        <5>. QED
          BY <3>2, <4>2, <5>1, <5>2, StepsLocal, RequestKeeps DEF RInv
      <4>. QED
        BY <4>1, <4>2
    <3>. QED
      BY <3>1, <3>2 DEF Next
  <2>. QED
    BY <2>1, <2>2 DEF RInv
<1>. QED
  BY <1>1, <1>2, PTL DEF Spec

-----------------------------------------------------------------------------
(* The refinement *)

\* The cache as the connector's entries and pages represent it.
Store == [k \in Keys |-> StoredValue(k)]

\* A key is in the cache exactly when it has an entry, and has its size.
LEMMA StoredSizes ==
    ASSUME TypeOK, NEW k \in Keys
    PROVE  /\ Store[k] = StoredValue(k)
           /\ Store[k] = None <=> entry[k] = None
           /\ entry[k] # None =>
                /\ Store[k].size = entry[k].size
                /\ Store[k].value = Assembled({disk[p] : p \in entry[k].pages})
<1>1. Store[k] = StoredValue(k)
  BY DEF Store
<1>2. CASE entry[k] = None
  BY <1>1, <1>2 DEF StoredValue
<1>3. CASE entry[k] # None
  <2>. DEFINE val == Assembled({disk[p] : p \in entry[k].pages})
  <2>1. StoredValue(k) = [size |-> entry[k].size, value |-> val]
    BY <1>3 DEF StoredValue
  <2>2. entry[k].size \in Nat
    BY <1>3 DEF TypeOK, Entry
  <2>3. val \in Values \cup {Torn}
    BY DEF Assembled
  <2>. HIDE DEF val
  <2>4. [size |-> entry[k].size, value |-> val] # None
    BY <2>2, <2>3, ConnectorAssumption
  <2>5. Store[k].size = entry[k].size /\ Store[k].value = val
    BY <1>1, <2>1
  <2>. QED
    BY <1>1, <1>3, <2>1, <2>4, <2>5 DEF val
<1>. QED
  BY <1>2, <1>3

\* A key whose entry a step leaves alone keeps its value.
LEMMA StoredKeeps ==
    ASSUME IInv, [Next]_vars, NEW k \in Keys, entry'[k] = entry[k]
    PROVE  StoredValue(k)' = StoredValue(k)
<1>1. CASE entry[k] = None
  BY <1>1 DEF StoredValue
<1>2. CASE entry[k] # None
  <2>1. \A p \in entry[k].pages : disk'[p] = disk[p]
    BY <1>2, EntriesKeepContent DEF PagesAt
  <2>2. {disk'[p] : p \in entry'[k].pages} = {disk[p] : p \in entry[k].pages}
    BY <2>1
  <2>. QED
    BY <1>2, <2>2 DEF StoredValue, Assembled
<1>. QED
  BY <1>1, <1>2

\* A step that leaves every entry alone leaves the cache alone.
LEMMA StoreKeeps ==
    ASSUME IInv, [Next]_vars, entry' = entry
    PROVE  Store' = Store
<1>1. \A k \in Keys : StoredValue(k)' = StoredValue(k)
  BY StoredKeeps
<1>. QED
  BY <1>1 DEF Store

\* Pages that all hold one payload amount to it.
LEMMA WholeValue ==
    ASSUME NEW v \in Values
    PROVE  Assembled({v}) = v
BY DEF Assembled

\* A store that reaches publication is one the cache allows.
LEMMA PublishWellFormed ==
    ASSUME RInv, NEW w \in Workers, Publish(w)
    PROVE  Cache!WellFormed(req[w].items)
<1>1. pc[w] = "write"
  BY DEF Publish
<1>2. \A i \in Indices(w) : ~ Rejected(w, i)
  BY <1>1 DEF RInv, RequestInv, LoopSound
<1>3. \A i \in Indices(w) : req[w].items[i].size \in Nat /\ i \in Nat
  BY <1>1, WorkerItems DEF RInv, IInv
<1>4. \A i \in Indices(w) : req[w].items[i].size > 0
  BY <1>2, <1>3 DEF Rejected
<1>5. ASSUME NEW i \in Indices(w), NEW j \in Indices(w),
             req[w].items[i].key = req[w].items[j].key
      PROVE  i = j
  <2>1. ~ (i < j) /\ ~ (j < i)
    BY <1>2, <1>5 DEF Rejected, KeyOf
  <2>. QED
    BY <1>3, <2>1
<1>. QED
  BY <1>4, <1>5 DEF Cache!WellFormed, Indices

\* The entry publication gives a reserved item's key holds its payload.
LEMMA PublishedValue ==
    ASSUME RInv, NEW w \in Workers, Publish(w), NEW r \in reservations[w]
    PROVE  StoredValue(KeyOf(w, r.index))'
             = [size |-> req[w].items[r.index].size,
                value |-> req[w].items[r.index].value]
<1>. DEFINE k == KeyOf(w, r.index)
            e == [size |-> req[w].items[r.index].size, pages |-> r.pages]
<1>1. pc[w] = "write" /\ io[w] = {} /\ bad[w] = {} /\ disk' = disk
  BY DEF Publish
<1>2. r.index \in Indices(w) /\ TypeOK /\ ReservationsSound(w)
  BY DEF RInv, IInv, WorkerInv, ReservationsSound
<1>3. k \in Keys /\ req[w].items[r.index].value \in Values
  BY <1>1, <1>2, WorkerItems
<1>4. r \in ReservationsOf(w, k)
  BY DEF ReservationsOf
<1>5. entry'[k] = e /\ e \in Entry
  BY <1>2, <1>3, <1>4, PublishedEntry
<1>6. e # None
  BY <1>5, ConnectorAssumption DEF Entry, Pages
<1>7. e.pages = r.pages /\ e.size = req[w].items[r.index].size
  OBVIOUS
<1>8. \A p \in r.pages : disk'[p] = req[w].items[r.index].value
  BY <1>1 DEF RInv, RequestInv, WritesSound
<1>9. r.pages # {}
  BY <1>1 DEF RInv, RequestInv, LoopSound
<1>. HIDE DEF e, k
<1>10. Assembled({disk'[p] : p \in r.pages}) = req[w].items[r.index].value
  <2>1. {disk'[p] : p \in r.pages} = {req[w].items[r.index].value}
    BY <1>8, <1>9
  <2>. QED
    BY <1>3, <2>1, WholeValue
<1>11. k' = k
  BY DEF Publish, k, KeyOf
<1>12. entry'[k] # None /\ entry'[k].pages = r.pages
       /\ entry'[k].size = req[w].items[r.index].size
  BY <1>5, <1>6, <1>7
<1>13. StoredValue(k)' = [size |-> req[w].items[r.index].size,
                         value |-> req[w].items[r.index].value]
  BY <1>10, <1>11, <1>12 DEF StoredValue
<1>. QED
  BY <1>13 DEF k

\* Publication is the store's one instant.
LEMMA PublishPuts ==
    ASSUME RInv, [Next]_vars, NEW w \in Workers, Publish(w)
    PROVE  Cache!Put(w)
<1>. DEFINE items == req[w].items
            Stored(i) == Store[items[i].key] # None
                           => Store[items[i].key].size = items[i].size
<1>1. /\ pc[w] = "write" /\ reply' = [reply EXCEPT ![w] = "ok"] /\ req' = req
      /\ IInv /\ TypeOK /\ ReservationsSound(w)
  BY DEF Publish, RInv, IInv, WorkerInv
<1>2. Cache!Undecided(w, "set")
  BY <1>1 DEF Cache!Undecided, RInv, RequestInv, PhaseSound, TypeOK
<1>3. Cache!WellFormed(items)
  BY PublishWellFormed
<1>4. \A i \in Indices(w) : items[i].key \in Keys
  BY <1>1, WorkerItems DEF KeyOf
<1>5. \A i \in Indices(w) : Stored(i) <=> ~ Skipped(w, i)
  BY <1>1, <1>4, StoredSizes DEF Skipped, Current, KeyOf
<1>6. \A i \in Indices(w) : Stored(i) <=> \E r \in reservations[w] : r.index = i
  BY <1>1, <1>5 DEF RInv, RequestInv, LoopSound
<1>7. \A r \in reservations[w] : r.index \in Indices(w)
  BY <1>1 DEF ReservationsSound
<1>. HIDE DEF Stored
<1>8. ASSUME NEW k \in Keys
      PROVE  StoredValue(k)' =
               IF \E i \in DOMAIN items : items[i].key = k /\ Stored(i)
               THEN LET i == CHOOSE j \in DOMAIN items : items[j].key = k
                    IN [size |-> items[i].size, value |-> items[i].value]
               ELSE Store[k]
  <2>1. ASSUME NEW i \in Indices(w), items[i].key = k, Stored(i)
        PROVE  /\ i = CHOOSE j \in DOMAIN items : items[j].key = k
               /\ StoredValue(k)' = [size |-> items[i].size, value |-> items[i].value]
    <3>1. i = CHOOSE j \in DOMAIN items : items[j].key = k
      BY <1>3, <2>1 DEF Cache!WellFormed, Indices
    <3>2. PICK r \in reservations[w] : r.index = i
      BY <1>6, <2>1
    <3>3. StoredValue(KeyOf(w, r.index))' =
            [size |-> items[r.index].size, value |-> items[r.index].value]
      BY PublishedValue
    <3>4. KeyOf(w, r.index) = k /\ KeyOf(w, r.index)' = k
      BY <1>1, <2>1, <3>2 DEF KeyOf
    <3>. QED
      BY <3>1, <3>2, <3>3, <3>4 DEF StoredValue
  <2>2. ASSUME ~ \E i \in Indices(w) : items[i].key = k /\ Stored(i)
        PROVE  StoredValue(k)' = Store[k]
    <3>1. ReservationsOf(w, k) = {}
      BY <1>6, <1>7, <2>2 DEF ReservationsOf, KeyOf
    <3>2. entry'[k] = entry[k]
      BY <1>1, <3>1, PublishedEntry
    <3>. QED
      BY <1>1, <3>2, StoredKeeps, StoredSizes
  <2>. QED
    BY <2>1, <2>2 DEF Indices
<1>9. Store' = [k \in Keys |->
                  IF \E i \in DOMAIN items : items[i].key = k /\ Stored(i)
                  THEN LET i == CHOOSE j \in DOMAIN items : items[j].key = k
                       IN [size |-> items[i].size, value |-> items[i].value]
                  ELSE Store[k]]
  BY <1>8 DEF Store
<1>. QED
  BY <1>1, <1>2, <1>3, <1>9 DEF Cache!Put, Cache!Items, Cache!Stores, Store, Stored

\* The end of a lookup's last read is its one instant.
LEMMA ReadsEndGets ==
    ASSUME RInv, [Next]_vars, NEW w \in Workers, ReadsEnd(w)
    PROVE  Cache!Get(w)
<1>. DEFINE items == req[w].items
            a == [i \in Indices(w) |->
                    IF i \in bad[w] THEN None ELSE Assembled(buf[w][i])]
<1>1. /\ pc[w] = "read" /\ io[w] = {} /\ reply' = [reply EXCEPT ![w] = a]
      /\ req' = req /\ entry' = entry /\ IInv /\ TypeOK
  BY DEF ReadsEnd, RInv, IInv
<1>2. Cache!Undecided(w, "get")
  BY <1>1 DEF Cache!Undecided, RInv, RequestInv, PhaseSound, TypeOK
<1>3. ASSUME NEW i \in Indices(w), i \notin bad[w]
      PROVE  /\ items[i].key \in Keys
             /\ Store[items[i].key] # None
             /\ Store[items[i].key].size = items[i].size
             /\ Store[items[i].key].value = Assembled(buf[w][i])
  <2>1. /\ Hit(w, i)
        /\ \A p \in Current(w, i).pages : disk[p] \in buf[w][i]
        /\ buf[w][i] \subseteq {disk[p] : p \in Current(w, i).pages}
    BY <1>1, <1>3 DEF RInv, RequestInv, ReadsSound
  <2>2. buf[w][i] = {disk[p] : p \in Current(w, i).pages}
    BY <2>1
  <2>3. items[i].key \in Keys
    BY <1>1, WorkerItems DEF KeyOf
  <2>4. entry[items[i].key] # None /\ entry[items[i].key].size = items[i].size
    BY <2>1 DEF Hit, Current, KeyOf
  <2>5. buf[w][i] = {disk[p] : p \in entry[items[i].key].pages}
    BY <2>2 DEF Current, KeyOf
  <2>. QED
    BY <1>1, <2>3, <2>4, <2>5, StoredSizes
<1>4. a \in [DOMAIN items -> {None} \cup {Store[k].value : k \in {j \in Keys : Store[j] # None}}]
  BY <1>3 DEF Indices
<1>5. \A i \in DOMAIN items :
        a[i] # None => /\ Store[items[i].key] # None
                       /\ Store[items[i].key].size = items[i].size
                       /\ a[i] = Store[items[i].key].value
  BY <1>3 DEF Indices
<1>6. Store' = Store
  BY <1>1, StoreKeeps
<1>. HIDE DEF a
<1>. QED
  BY <1>1, <1>2, <1>4, <1>5, <1>6 DEF Cache!Get, Cache!Items, Store

\* Every step of the connector is a step of the cache or none at all.
LEMMA StepRefines == RInv /\ [Next]_vars => [Cache!Next]_(Cache!vars)
<1>. SUFFICES ASSUME RInv, [Next]_vars PROVE [Cache!Next]_(Cache!vars)
  OBVIOUS
<1>0. IInv /\ TypeOK
  BY DEF RInv, IInv
<1>1. ASSUME entry' = entry, req' = req, reply' = reply
      PROVE  UNCHANGED Cache!vars
  BY <1>0, <1>1, StoreKeeps DEF Cache!vars, Store
<1>2. CASE ContextLost \/ UNCHANGED vars
  BY <1>1, <1>2 DEF ContextLost, vars
<1>3. ASSUME NEW w \in Workers, NEW r \in Requests, Begin(w, r)
      PROVE  Cache!Next
  <2>1. Store' = Store
    BY <1>0, <1>3, StoreKeeps DEF Begin
  <2>2. Cache!Begin(w, r)
    BY <1>0, <1>3, <2>1 DEF Begin, Cache!Begin, TypeOK, Store
  <2>. QED
    BY <2>2 DEF Cache!Next
<1>4. ASSUME NEW w \in Workers,
             \/ Lock(w) \/ SkipItem(w) \/ ReserveItem(w) \/ SubmitWrites(w)
             \/ WriteDone(w) \/ WriteFails(w) \/ RollBack(w) \/ RetirePrevious(w)
             \/ SubmitReads(w) \/ ReadThrows(w) \/ ReadDone(w) \/ ReadFails(w)
      PROVE  UNCHANGED Cache!vars
  BY <1>1, <1>4 DEF Lock, SkipItem, ReserveItem, SubmitWrites, WriteDone, WriteFails,
     RollBack, RetirePrevious, SubmitReads, ReadThrows, ReadDone, ReadFails
<1>5. ASSUME NEW w \in Workers, ItemThrows(w) \/ SubmitThrows(w) \/ WritesThrow(w)
      PROVE  Cache!Next
  <2>1. /\ pc[w] \in {"set", "submit", "write"} /\ entry' = entry /\ req' = req
        /\ reply' = [reply EXCEPT ![w] = "failed"]
    BY <1>5 DEF ItemThrows, SubmitThrows, WritesThrow
  <2>2. Store' = Store
    BY <1>0, <2>1, StoreKeeps
  <2>3. Cache!Undecided(w, "set")
    BY <1>0, <2>1 DEF Cache!Undecided, RInv, RequestInv, PhaseSound, TypeOK
  <2>4. Cache!PutFails(w)
    BY <2>1, <2>2, <2>3 DEF Cache!PutFails, Store
  <2>. QED
    BY <2>4 DEF Cache!Next
<1>6. ASSUME NEW w \in Workers, Exists(w) PROVE Cache!Next
  <2>1. /\ pc[w] = "exists" /\ entry' = entry /\ req' = req
        /\ reply' = [reply EXCEPT ![w] = IF Current(w, 1) # None THEN "yes" ELSE "no"]
    BY <1>6 DEF Exists
  <2>2. Store' = Store
    BY <1>0, <2>1, StoreKeeps
  <2>3. Cache!Undecided(w, "exists")
    BY <1>0, <2>1 DEF Cache!Undecided, RInv, RequestInv, PhaseSound, TypeOK
  <2>4. KeyOf(w, 1) \in Keys
    BY <1>0, <2>1, WorkerItems
  <2>5. Store[req[w].items[1].key] # None <=> Current(w, 1) # None
    BY <1>0, <2>4, StoredSizes DEF Current, KeyOf
  <2>6. Cache!Exists(w)
    BY <2>1, <2>2, <2>3, <2>5 DEF Cache!Exists, Cache!Items, Store
  <2>. QED
    BY <2>6 DEF Cache!Next
<1>7. ASSUME NEW w \in Workers, Delete(w) PROVE Cache!Next
  <2>. DEFINE k1 == req[w].items[1].key
  <2>1. /\ pc[w] = "delete" /\ req' = req
        /\ reply' = [reply EXCEPT ![w] = IF entry[k1] # None THEN "yes" ELSE "no"]
    BY <1>7 DEF Delete, Current, KeyOf
  <2>2. k1 \in Keys
    BY <1>0, <2>1, WorkerItems DEF KeyOf
  <2>3. entry'[k1] = None /\ \A k \in Keys : k # k1 => entry'[k] = entry[k]
    BY <1>0, <1>7, <2>2 DEF Delete, Current, KeyOf, TypeOK
  <2>. HIDE DEF k1
  <2>4. ASSUME NEW k \in Keys
        PROVE  StoredValue(k)' = IF k = k1 THEN None ELSE Store[k]
    BY <1>0, <2>3, StoredKeeps, StoredSizes DEF StoredValue
  <2>5. Store' = [Store EXCEPT ![k1] = None]
    BY <2>4 DEF Store
  <2>6. Cache!Undecided(w, "delete")
    BY <1>0, <2>1 DEF Cache!Undecided, RInv, RequestInv, PhaseSound, TypeOK
  <2>7. Store[k1] # None <=> entry[k1] # None
    BY <1>0, <2>2, StoredSizes
  <2>8. Cache!Delete(w)
    BY <2>1, <2>5, <2>6, <2>7 DEF Cache!Delete, Cache!Items, Store, k1
  <2>. QED
    BY <2>8 DEF Cache!Next
<1>8. ASSUME NEW w \in Workers, Return(w) PROVE Cache!Next
  <2>1. Store' = Store
    BY <1>0, <1>8, StoreKeeps DEF Return
  <2>2. reply[w] # None
    BY <1>8 DEF Return, RInv, RequestInv, PhaseSound
  <2>3. Cache!End(w)
    BY <1>8, <2>1, <2>2 DEF Return, Cache!End, Store
  <2>. QED
    BY <2>3 DEF Cache!Next
<1>9. ASSUME NEW w \in Workers, Publish(w) \/ ReadsEnd(w) PROVE Cache!Next
  BY <1>9, PublishPuts, ReadsEndGets DEF Cache!Next
<1>. QED
  BY <1>2, <1>3, <1>4, <1>5, <1>6, <1>7, <1>8, <1>9 DEF Next, Step

\* The connector implements KeyValueCache: concurrent stores, lookups and
\* deletes of overlapping keys take effect one at a time, a batch store is
\* all-or-nothing whatever fails, and a lookup delivers only the whole value
\* its key holds (spdk_connector.cpp: do_batch_set, do_batch_get,
\* do_single_exists, do_single_delete).
THEOREM RefinesCache == Spec => ImplementsCache
<1>1. Init => Cache!Init
  BY DEF Init, Cache!Init, StoredValue
<1>2. RInv /\ [Next]_vars => [Cache!Next]_(Cache!vars)
  BY StepRefines
<1>. QED
  BY <1>1, <1>2, SpecRInv, PTL DEF Spec, ImplementsCache, Cache!Spec
=============================================================================
