-------------------------- MODULE QueueOccurrences --------------------------
(***************************************************************************)
(* How often a queue of messages holds one of a set of messages: what the   *)
(* proofs about SPDK threads need of Append and Tail.                       *)
(***************************************************************************)
EXTENDS Integers, Sequences, FiniteSets, FiniteSetTheorems,
        SequenceTheorems, TLAPS

\* The positions of queue s that hold a member of M, and their number.
Positions(s, M) == {i \in DOMAIN s : s[i] \in M}
Occurrences(s, M) == Cardinality(Positions(s, M))

\* A queue has finitely many positions, so the number is a natural number, and
\* it is zero when no position holds a member.
LEMMA OccurrencesType ==
    ASSUME NEW T, NEW s \in Seq(T), NEW M
    PROVE  /\ IsFiniteSet(Positions(s, M))
           /\ Occurrences(s, M) \in Nat
           /\ Occurrences(s, M) = 0 <=> \A i \in DOMAIN s : s[i] \notin M
<1>1. IsFiniteSet(1 .. Len(s))
  BY FS_Interval
<1>2. Positions(s, M) \subseteq 1 .. Len(s)
  BY DEF Positions
<1>3. IsFiniteSet(Positions(s, M))
  BY <1>1, <1>2, FS_Subset
<1>4. Occurrences(s, M) \in Nat
  BY <1>3, FS_CardinalityType DEF Occurrences
<1>5. Occurrences(s, M) = 0 <=> Positions(s, M) = {}
  BY <1>3, FS_EmptySet DEF Occurrences
<1>6. QED
  BY <1>3, <1>4, <1>5 DEF Positions

\* An empty queue holds nothing.
LEMMA OccurrencesEmpty ==
    ASSUME NEW M
    PROVE  Occurrences(<<>>, M) = 0
<1>1. Positions(<<>>, M) = {}
  BY DEF Positions
<1>2. QED
  BY <1>1, FS_EmptySet DEF Occurrences

\* A message appended counts if it is one of M.
LEMMA OccurrencesAppend ==
    ASSUME NEW T, NEW s \in Seq(T), NEW x \in T, NEW M
    PROVE  Occurrences(Append(s, x), M) = Occurrences(s, M) + (IF x \in M THEN 1 ELSE 0)
<1>. DEFINE n == Len(s) + 1
<1>1. /\ Append(s, x) \in Seq(T)
      /\ Len(Append(s, x)) = n
      /\ \A i \in 1 .. Len(s) : Append(s, x)[i] = s[i]
      /\ Append(s, x)[n] = x
      /\ Len(s) \in Nat
  OBVIOUS
<1>2. IsFiniteSet(Positions(s, M)) /\ Occurrences(s, M) \in Nat
  BY OccurrencesType
<1>3. n \notin Positions(s, M)
  BY <1>1 DEF Positions
<1>4. CASE x \in M
  <2>1. Positions(Append(s, x), M) = Positions(s, M) \cup {n}
    BY <1>1, <1>4 DEF Positions
  <2>2. Cardinality(Positions(s, M) \cup {n}) = Cardinality(Positions(s, M)) + 1
    BY <1>2, <1>3, FS_AddElement
  <2>3. QED
    BY <2>1, <2>2, <1>4 DEF Occurrences
<1>5. CASE x \notin M
  <2>1. Positions(Append(s, x), M) = Positions(s, M)
    BY <1>1, <1>5 DEF Positions
  <2>2. QED
    BY <2>1, <1>2, <1>5 DEF Occurrences
<1>6. QED
  BY <1>4, <1>5

\* The message taken off the front no longer counts.
LEMMA OccurrencesTail ==
    ASSUME NEW T, NEW s \in Seq(T), s # <<>>, NEW M
    PROVE  Occurrences(s, M) = Occurrences(Tail(s), M) + (IF Head(s) \in M THEN 1 ELSE 0)
<1>. DEFINE P == Positions(Tail(s), M)
            Q == {i \in Positions(s, M) : i # 1}
<1>1. /\ Tail(s) \in Seq(T)
      /\ Len(s) \in Nat \ {0}
      /\ Len(Tail(s)) = Len(s) - 1
      /\ \A i \in 1 .. Len(s) - 1 : Tail(s)[i] = s[i + 1]
      /\ Head(s) = s[1]
      /\ DOMAIN s = 1 .. Len(s)
      /\ DOMAIN Tail(s) = 1 .. Len(s) - 1
  OBVIOUS
<1>2. IsFiniteSet(P) /\ IsFiniteSet(Positions(s, M)) /\ Occurrences(s, M) \in Nat
  BY <1>1, OccurrencesType
<1>3. Q \subseteq Positions(s, M) /\ IsFiniteSet(Q)
  BY <1>2, FS_Subset
<1>4. ExistsBijection(P, Q)
  <2>. DEFINE f == [i \in P |-> i + 1]
  <2>1. f \in [P -> Q]
    BY <1>1 DEF Positions
  <2>2. \A i, j \in P : f[i] = f[j] => i = j
    BY <1>1 DEF Positions
  <2>3. \A k \in Q : \E i \in P : f[i] = k
    <3>. SUFFICES ASSUME NEW k \in Q PROVE k - 1 \in P /\ f[k - 1] = k
      OBVIOUS
    <3>1. k \in 2 .. Len(s) /\ s[k] \in M
      BY <1>1 DEF Positions
    <3>2. k - 1 \in 1 .. Len(s) - 1 /\ Tail(s)[k - 1] = s[k]
      BY <3>1, <1>1
    <3>3. k - 1 \in P
      BY <3>1, <3>2, <1>1 DEF Positions
    <3>. QED BY <3>1, <3>3
  <2>4. f \in Bijection(P, Q)
    BY <2>1, <2>2, <2>3 DEF Bijection, Injection, Surjection, IsInjective
  <2>. QED BY <2>4 DEF ExistsBijection
<1>5. Cardinality(P) = Cardinality(Q)
  BY <1>2, <1>3, <1>4, FS_Bijection
<1>6. CASE Head(s) \in M
  <2>1. Positions(s, M) = Q \cup {1} /\ 1 \notin Q
    BY <1>1, <1>6 DEF Positions
  <2>2. Cardinality(Q \cup {1}) = Cardinality(Q) + 1
    BY <2>1, <1>3, FS_AddElement
  <2>. QED BY <2>1, <2>2, <1>5, <1>6 DEF Occurrences
<1>7. CASE Head(s) \notin M
  <2>1. Positions(s, M) = Q
    BY <1>1, <1>7 DEF Positions
  <2>2. Cardinality(Q) \in Nat
    BY <1>3, FS_CardinalityType
  <2>3. Occurrences(s, M) = Cardinality(Q)
    BY <2>1 DEF Occurrences
  <2>4. Occurrences(Tail(s), M) = Cardinality(Q)
    BY <1>5 DEF Occurrences
  <2>. HIDE DEF Q
  <2>. QED BY <2>2, <2>3, <2>4, <1>7
<1>8. QED
  BY <1>6, <1>7

\* How often a queue holds one message.
Times(s, m) == Occurrences(s, {m})

\* That number is a natural number.
LEMMA TimesType ==
    ASSUME NEW T, NEW s \in Seq(T), NEW m
    PROVE  Times(s, m) \in Nat
BY OccurrencesType DEF Times

\* An empty queue does not hold it.
LEMMA TimesEmpty ==
    ASSUME NEW m
    PROVE  Times(<<>>, m) = 0
BY OccurrencesEmpty DEF Times

\* Appending it adds one.
LEMMA TimesAppend ==
    ASSUME NEW T, NEW s \in Seq(T), NEW x \in T, NEW m
    PROVE  Times(Append(s, x), m) = Times(s, m) + (IF x = m THEN 1 ELSE 0)
<1>1. Occurrences(Append(s, x), {m}) = Occurrences(s, {m}) + (IF x \in {m} THEN 1 ELSE 0)
  BY OccurrencesAppend
<1>2. QED
  BY <1>1 DEF Times

\* Taking the first message off takes one away if it is that message.
LEMMA TimesTail ==
    ASSUME NEW T, NEW s \in Seq(T), s # <<>>, NEW m
    PROVE  Times(s, m) = Times(Tail(s), m) + (IF Head(s) = m THEN 1 ELSE 0)
<1>1. Occurrences(s, {m}) = Occurrences(Tail(s), {m}) + (IF Head(s) \in {m} THEN 1 ELSE 0)
  BY OccurrencesTail
<1>2. QED
  BY <1>1 DEF Times

\* A queue of one message becomes one of two.
LEMMA AppendPair ==
    ASSUME NEW x, NEW y
    PROVE  Append(<<x>>, y) = <<x, y>>
<1>. DEFINE a == Append(<<x>>, y)
            b == <<x, y>>
<1>1. <<x>> \in Seq({x, y}) /\ b \in Seq({x, y})
  OBVIOUS
<1>2. a \in Seq({x, y})
  BY <1>1
<1>3. Len(a) = 2 /\ a[1] = x /\ a[2] = y
  BY <1>1
<1>4. Len(b) = 2 /\ b[1] = x /\ b[2] = y
  BY <1>1
<1>. HIDE DEF a, b
<1>5. \A i \in 1 .. Len(a) : a[i] = b[i]
  BY <1>3, <1>4
<1>6. a = b
  BY <1>1, <1>2, <1>3, <1>4, <1>5, SeqEqual
<1>. QED BY <1>6 DEF a, b
=============================================================================
