----------------------- MODULE StorageSegments_proofs -----------------------
(***************************************************************************)
(* Proofs about StorageSegments for every bdev and configuration, every     *)
(* allocation the allocator reaches and every length of a value. The loop   *)
(* of AppendSegments has an invariant, LoopAt; the properties are what it   *)
(* says of the loop's last state.                                           *)
(***************************************************************************)
EXTENDS StorageSegments, PageExtentAllocator_proofs, SequenceTheorems

-----------------------------------------------------------------------------
(* Loops *)

\* A set of numbers with 0 and every successor of its elements has all of them.
LEMMA NatInSet ==
    ASSUME NEW T, 0 \in T, \A n \in Nat : n \in T => n + 1 \in T
    PROVE  \A n \in Nat : n \in T
<1>. DEFINE U == {n \in Nat : n \notin T}
<1>. SUFFICES ASSUME U # {} PROVE FALSE
  OBVIOUS
<1>1. PICK m \in U : \A t \in U : m <= t
  BY LeastExists
<1>2. m \in Nat /\ m # 0 /\ m \notin T
  OBVIOUS
<1>3. m - 1 \in Nat /\ ~ (m <= m - 1) /\ (m - 1) + 1 = m
  BY <1>2
<1>4. m - 1 \in T
  BY <1>1, <1>3
<1>. QED BY <1>2, <1>3, <1>4

\* What repeating step from start goes through.
Runs(S, step, start) ==
    {f \in [Nat -> S] : f[0] = start /\ \A n \in Nat : f[n + 1] = step[f[n]]}

\* A step that stays in S can be repeated from any start in S.
LEMMA IterationExists ==
    ASSUME NEW S, NEW step \in [S -> S], NEW start \in S
    PROVE  Runs(S, step, start) # {}
<1>. DEFINE Part(n) == {p \in [0 .. n -> S] :
                          /\ p[0] = start
                          /\ \A k \in 0 .. n : k + 1 \in 0 .. n => p[k + 1] = step[p[k]]}
<1>1. \A n \in Nat : Part(n) # {}
  <2>. DEFINE T == {n \in Nat : Part(n) # {}}
  <2>1. 0 \in T
    <3>1. [k \in 0 .. 0 |-> start] \in Part(0)
      OBVIOUS
    <3>. QED BY <3>1
  <2>2. ASSUME NEW n \in Nat, n \in T PROVE n + 1 \in T
    <3>1. PICK p : p \in Part(n)
      BY <2>2
    <3>. DEFINE q == [k \in 0 .. n + 1 |-> IF k <= n THEN p[k] ELSE step[p[n]]]
    <3>2. n \in 0 .. n /\ p[n] \in S
      BY <3>1
    <3>3. q \in [0 .. n + 1 -> S]
      BY <3>1, <3>2
    <3>4. q[0] = start
      BY <3>1
    <3>5. ASSUME NEW k \in 0 .. n + 1, k + 1 \in 0 .. n + 1
          PROVE  q[k + 1] = step[q[k]]
      <4>1. k \in 0 .. n /\ q[k] = p[k]
        BY <3>5
      <4>2. CASE k = n
        BY <4>1, <4>2
      <4>3. CASE k # n
        <5>1. k + 1 \in 0 .. n /\ q[k + 1] = p[k + 1]
          BY <4>1, <4>3
        <5>. QED BY <5>1, <4>1, <3>1
      <4>. QED BY <4>2, <4>3
    <3>6. q \in Part(n + 1)
      BY <3>3, <3>4, <3>5
    <3>. QED BY <3>6
  <2>. HIDE DEF T
  <2>3. \A n \in Nat : n \in T
    BY <2>1, <2>2, NatInSet
  <2>. QED BY <2>3 DEF T
<1>2. ASSUME NEW n \in Nat, NEW p \in Part(n), NEW q \in Part(n + 1)
      PROVE  p[n] = q[n]
  <2>. DEFINE T == {k \in Nat : k <= n => p[k] = q[k]}
  <2>1. 0 \in T
    OBVIOUS
  <2>2. ASSUME NEW k \in Nat, k \in T PROVE k + 1 \in T
    <3>. SUFFICES ASSUME k + 1 <= n PROVE p[k + 1] = q[k + 1]
      OBVIOUS
    <3>1. /\ k \in 0 .. n /\ k + 1 \in 0 .. n
          /\ k \in 0 .. n + 1 /\ k + 1 \in 0 .. n + 1
      OBVIOUS
    <3>2. p[k] = q[k]
      BY <2>2, <3>1
    <3>3. p[k + 1] = step[p[k]] /\ q[k + 1] = step[q[k]]
      BY <3>1
    <3>. QED BY <3>2, <3>3
  <2>. HIDE DEF T
  <2>3. n \in T
    BY <2>1, <2>2, NatInSet
  <2>. QED BY <2>3 DEF T
<1>. DEFINE f == [n \in Nat |-> (CHOOSE p : p \in Part(n))[n]]
<1>3. ASSUME NEW n \in Nat PROVE (CHOOSE p : p \in Part(n)) \in Part(n)
  BY <1>1
<1>. HIDE DEF Part
<1>4. f \in [Nat -> S]
  <2>1. ASSUME NEW n \in Nat PROVE (CHOOSE p : p \in Part(n))[n] \in S
    <3>1. PICK p : p = (CHOOSE q : q \in Part(n))
      OBVIOUS
    <3>2. p \in Part(n)
      BY <1>3, <3>1
    <3>3. n \in 0 .. n
      OBVIOUS
    <3>4. p[n] \in S
      BY <3>2, <3>3 DEF Part
    <3>. QED BY <3>1, <3>4
  <2>. QED BY <2>1
<1>5. f[0] = start
  <2>1. PICK p : p = (CHOOSE q : q \in Part(0))
    OBVIOUS
  <2>2. p \in Part(0)
    BY <1>3, <2>1
  <2>3. p[0] = start
    BY <2>2 DEF Part
  <2>. QED BY <2>1, <2>3
<1>6. ASSUME NEW n \in Nat PROVE f[n + 1] = step[f[n]]
  <2>1. PICK p : p = (CHOOSE q : q \in Part(n))
    OBVIOUS
  <2>2. PICK r : r = (CHOOSE q : q \in Part(n + 1))
    OBVIOUS
  <2>3. p \in Part(n) /\ r \in Part(n + 1)
    BY <1>3, <2>1, <2>2
  <2>4. n \in 0 .. n + 1 /\ n + 1 \in 0 .. n + 1 /\ n + 1 \in Nat
    OBVIOUS
  <2>5. r[n + 1] = step[r[n]]
    BY <2>3, <2>4 DEF Part
  <2>6. p[n] = r[n]
    BY <2>3, <1>2
  <2>7. f[n] = p[n] /\ f[n + 1] = r[n + 1]
    BY <2>1, <2>2, <2>4
  <2>. QED BY <2>5, <2>6, <2>7
<1>. HIDE DEF f
<1>. QED BY <1>4, <1>5, <1>6 DEF Runs

-----------------------------------------------------------------------------
(* Multiples of a page or block size *)

\* A quotient and its remainder.
LEMMA Quotient ==
    ASSUME NEW x \in Nat, NEW p \in Nat \ {0}
    PROVE  /\ x \div p \in Nat
           /\ x % p \in Nat
           /\ x % p < p
           /\ x = (x \div p) * p + (x % p)
OBVIOUS

\* Two multiples that are less than p apart are the same.
LEMMA MultipleUnique ==
    ASSUME NEW k \in Nat, NEW m \in Nat, NEW r \in Nat, NEW p \in Nat \ {0},
           r < p, k * p = m * p + r
    PROVE  k = m /\ r = 0
<1>1. ASSUME k < m PROVE FALSE
  <2>1. PICK d \in Nat : m = k + d /\ d >= 1
    <3>1. m - k \in Nat /\ m = k + (m - k) /\ m - k >= 1
      BY <1>1
    <3>. QED BY <3>1
  <2>2. m * p = k * p + d * p
    BY <2>1
  <2>3. d * p >= p
    BY <2>1
  <2>4. k * p \in Nat /\ d * p \in Nat
    BY <2>1
  <2>. QED BY <2>2, <2>3, <2>4
<1>2. ASSUME k > m PROVE FALSE
  <2>1. PICK d \in Nat : k = m + d /\ d >= 1
    <3>1. k - m \in Nat /\ k = m + (k - m) /\ k - m >= 1
      BY <1>2
    <3>. QED BY <3>1
  <2>2. k * p = m * p + d * p
    BY <2>1
  <2>3. d * p >= p
    BY <2>1
  <2>4. m * p \in Nat /\ d * p \in Nat
    BY <2>1
  <2>. QED BY <2>2, <2>3, <2>4
<1>3. k = m
  BY <1>1, <1>2
<1>4. k * p \in Nat
  OBVIOUS
<1>. QED BY <1>3, <1>4

\* A multiple divided by its factor.
LEMMA MultipleQuotient ==
    ASSUME NEW k \in Nat, NEW p \in Nat \ {0}
    PROVE  (k * p) \div p = k /\ (k * p) % p = 0
<1>1. k * p \in Nat
  OBVIOUS
<1>2. PICK x \in Nat : x = k * p
  BY <1>1
<1>3. PICK m \in Nat : m = x \div p
  BY Quotient
<1>4. PICK r \in Nat : r = x % p
  BY Quotient
<1>5. r < p /\ x = m * p + r
  BY Quotient, <1>3, <1>4
<1>6. k = m /\ r = 0
  BY <1>5, <1>2, MultipleUnique
<1>. QED BY <1>2, <1>3, <1>4, <1>6

\* What no remainder means.
LEMMA IsMultiple ==
    ASSUME NEW x \in Nat, NEW p \in Nat \ {0}, x % p = 0
    PROVE  \E k \in Nat : x = k * p
<1>1. PICK m \in Nat : m = x \div p
  BY Quotient
<1>2. x = m * p + (x % p)
  BY Quotient, <1>1
<1>3. m * p \in Nat
  OBVIOUS
<1>. QED BY <1>2, <1>3

\* Multiples are ordered as their factors are.
LEMMA MultipleOrder ==
    ASSUME NEW k \in Nat, NEW m \in Nat, NEW p \in Nat \ {0}
    PROVE  /\ k * p \in Nat /\ m * p \in Nat
           /\ k * p <= m * p <=> k <= m
           /\ k * p = m * p <=> k = m
           /\ (k + m) * p = k * p + m * p
           /\ k <= m => m - k \in Nat /\ m * p - k * p = (m - k) * p
<1>1. k * p \in Nat /\ m * p \in Nat /\ (k + m) * p = k * p + m * p
  OBVIOUS
<1>2. ASSUME NEW a \in Nat, NEW b \in Nat, a < b
      PROVE  a * p < b * p /\ b - a \in Nat /\ b * p - a * p = (b - a) * p
  <2>1. PICK d \in Nat : b = a + d /\ d >= 1 /\ b - a = d
    <3>1. b - a \in Nat /\ b = a + (b - a) /\ b - a >= 1
      BY <1>2
    <3>. QED BY <3>1
  <2>2. b * p = a * p + d * p
    BY <2>1
  <2>3. d * p >= p
    BY <2>1
  <2>4. a * p \in Nat /\ d * p \in Nat
    BY <2>1
  <2>5. a * p < b * p /\ b * p - a * p = d * p
    BY <2>2, <2>3, <2>4
  <2>. QED BY <2>1, <2>5
<1>3. k * p <= m * p <=> k <= m
  BY <1>1, <1>2
<1>4. k * p = m * p <=> k = m
  BY <1>1, <1>2
<1>5. ASSUME k <= m PROVE m - k \in Nat /\ m * p - k * p = (m - k) * p
  <2>1. CASE k = m
    <3>1. k - k = 0 /\ k * p - k * p = 0 /\ 0 * p = 0
      BY <1>1
    <3>. QED BY <3>1, <2>1
  <2>2. CASE k < m
    BY <2>2, <1>2
  <2>. QED BY <2>1, <2>2, <1>5
<1>. QED BY <1>1, <1>3, <1>4, <1>5

-----------------------------------------------------------------------------
(* The geometry of an opened bdev *)

\* What BuildStorageGeometry does not refuse: a segment is a whole number of
\* pages, a page a whole number of blocks, and the pages are on the bdev.
LEMMA OpenedGeometry ==
    ASSUME NEW g \in Opened
    PROVE  /\ g.page_size \in Nat \ {0}
           /\ g.block_size \in Nat \ {0}
           /\ g.bdev.write_unit_blocks \in Nat \ {0}
           /\ g.bdev.num_blocks \in Nat /\ g.bdev.max_rw_blocks \in Nat
           /\ g.page_size = g.bdev.write_unit_blocks * g.block_size
           /\ \E m \in Nat \ {0} : g.io_segment_size = m * g.page_size
           /\ g.usable_capacity_bytes = TotalPages * g.page_size
           /\ TotalPages * g.bdev.write_unit_blocks <= g.bdev.num_blocks
           /\ g.bdev.max_rw_blocks # 0
                => g.io_segment_size <= g.bdev.max_rw_blocks * g.block_size
<1>1. PICK b \in Bdevs : ~ Refused(b) /\ PageCount(b) = TotalPages
                           /\ g = BuildStorageGeometry(b)
  BY DEF Opened
<1>2. /\ b.num_blocks \in Nat /\ b.block_size \in Nat /\ b.write_unit_blocks \in Nat
      /\ b.io_segment_size \in Nat /\ b.max_rw_blocks \in Nat
  BY SegmentsAssumption
<1>3. b.num_blocks # 0 /\ b.block_size # 0 /\ b.write_unit_blocks # 0
  BY <1>1 DEF Refused
<1>4. PICK bs \in Nat \ {0} : bs = b.block_size
  BY <1>2, <1>3
<1>5. PICK wu \in Nat \ {0} : wu = b.write_unit_blocks
  BY <1>2, <1>3
<1>6. PICK nb \in Nat : nb = b.num_blocks
  BY <1>2
<1>7. PICK mx \in Nat : mx = b.max_rw_blocks
  BY <1>2
<1>8. PICK seg \in Nat : seg = b.io_segment_size
  BY <1>2
<1>9. wu * bs \in Nat \ {0} /\ wu * bs = bs * wu /\ nb * bs \in Nat /\ mx * bs \in Nat
  OBVIOUS
<1>10. PICK p \in Nat \ {0} : p = wu * bs
  BY <1>9
<1>11. PageSize(b) = p
  BY <1>4, <1>5, <1>9, <1>10 DEF PageSize
<1>12. PICK x \in Nat : x = nb * bs
  BY <1>9
<1>13. PICK y \in Nat : y = mx * bs
  BY <1>9
<1>14. TotalPages = x \div p
  BY <1>1, <1>4, <1>6, <1>11, <1>12 DEF PageCount
<1>15. TotalPages \in Nat
  BY SizeAssumption
<1>16. TotalPages * wu <= nb
  <2>1. x = TotalPages * p + (x % p) /\ x % p \in Nat
    BY <1>14, Quotient
  <2>2. TotalPages * p = (TotalPages * wu) * bs
    BY <1>10, <1>15
  <2>3. TotalPages * wu \in Nat /\ (TotalPages * wu) * bs \in Nat
    BY <1>15
  <2>4. (TotalPages * wu) * bs <= nb * bs
    BY <2>1, <2>2, <2>3, <1>12
  <2>. QED BY <2>3, <2>4, MultipleOrder
<1>17. PICK w : w = EffectiveSegmentSize(b)
  OBVIOUS
<1>18. w \in Nat /\ (mx # 0 => w <= y)
  <2>1. CASE mx = 0
    BY <2>1, <1>7, <1>8, <1>17 DEF EffectiveSegmentSize
  <2>2. CASE mx # 0
    <3>1. PICK z \in Nat : z = y \div p
      BY Quotient
    <3>2. y = z * p + (y % p) /\ y % p \in Nat /\ z * p \in Nat
      BY <3>1, Quotient
    <3>3. w = Smaller(seg, z * p)
      BY <2>2, <3>1, <1>4, <1>7, <1>8, <1>11, <1>13, <1>17 DEF EffectiveSegmentSize
    <3>4. PICK zp \in Nat : zp = z * p
      BY <3>2
    <3>5. zp <= y
      BY <3>2, <3>4
    <3>6. w = IF seg < zp THEN seg ELSE zp
      BY <3>3, <3>4 DEF Smaller
    <3>. QED BY <3>5, <3>6
  <2>. QED BY <2>1, <2>2
<1>19. \E m \in Nat \ {0} : w = m * p
  <2>1. w >= p /\ w % p = 0
    BY <1>1, <1>11, <1>17, <1>18 DEF Refused
  <2>2. PICK m \in Nat : w = m * p
    BY <2>1, <1>18, IsMultiple
  <2>3. m # 0
    BY <2>1, <2>2
  <2>. QED BY <2>2, <2>3
<1>20. /\ g.page_size = p /\ g.block_size = bs /\ g.bdev = b
       /\ g.io_segment_size = w /\ g.usable_capacity_bytes = TotalPages * p
  BY <1>1, <1>4, <1>11, <1>17 DEF BuildStorageGeometry
<1>21. g.page_size \in Nat \ {0} /\ g.block_size \in Nat \ {0}
  BY <1>20
<1>22. /\ g.bdev.write_unit_blocks = wu /\ g.bdev.num_blocks = nb
       /\ g.bdev.max_rw_blocks = mx
  BY <1>20, <1>5, <1>6, <1>7
<1>23. g.page_size = g.bdev.write_unit_blocks * g.block_size
  BY <1>20, <1>22, <1>10
<1>24. g.bdev.max_rw_blocks # 0 => g.io_segment_size <= g.bdev.max_rw_blocks * g.block_size
  BY <1>20, <1>22, <1>13, <1>18
<1>. QED
  BY <1>16, <1>19, <1>20, <1>21, <1>22, <1>23, <1>24

\* PagesForBytes rounds up: a value fills all its pages but the last.
LEMMA LengthBounds ==
    ASSUME NEW g \in Opened, NEW pages \in Nat, NEW n \in LengthsOfPages(g, pages)
    PROVE  /\ n \in Nat
           /\ pages * g.page_size \in Nat
           /\ n <= pages * g.page_size
           /\ pages * g.page_size < n + g.page_size
<1>1. PICK p \in Nat \ {0} : p = g.page_size
  BY OpenedGeometry
<1>2. g.usable_capacity_bytes \in Nat
  <2>1. g.usable_capacity_bytes = TotalPages * p /\ TotalPages \in Nat
    BY <1>1, OpenedGeometry, SizeAssumption
  <2>. QED BY <2>1
<1>3. n \in Nat /\ (n + p - 1) \div p = pages
  BY <1>1, <1>2 DEF LengthsOfPages
<1>4. PICK x \in Nat : x = n + p - 1
  <2>1. n + p - 1 \in Nat
    BY <1>3
  <2>. QED BY <2>1
<1>5. x = pages * p + (x % p) /\ x % p \in Nat /\ x % p < p
  BY <1>3, <1>4, Quotient
<1>6. PICK r \in Nat : r = x % p
  BY <1>5
<1>7. PICK y \in Nat : y = pages * p
  <2>1. pages * p \in Nat
    OBVIOUS
  <2>. QED BY <2>1
<1>8. n + p - 1 = y + r /\ r < p
  BY <1>4, <1>5, <1>6, <1>7
<1>9. n <= y /\ y < n + p
  BY <1>3, <1>8
<1>. QED BY <1>1, <1>3, <1>7, <1>9

-----------------------------------------------------------------------------
(* The vector of extents *)

\* v lists the extents of a, each of them, in the order of their pages.
Ordered(a, v) ==
    /\ v \in Seq(a)
    /\ \A e \in a : \E i \in 1 .. Len(v) : v[i] = e
    /\ \A i, j \in 1 .. Len(v) : i < j => End(v[i]) <= v[j].first_page

\* Extents that share no page can be told apart by their first one.
LEMMA DistinctExtents ==
    ASSUME NEW a \in SUBSET ValidExtent, \A d, e \in a : d # e => ~ Share(d, e),
           NEW d \in a, NEW e \in a
    PROVE  /\ d.first_page = e.first_page => d = e
           /\ d.first_page < e.first_page => End(d) <= e.first_page
<1>1. /\ d.first_page \in Nat /\ d.page_count \in Nat \ {0}
      /\ e.first_page \in Nat /\ e.page_count \in Nat \ {0}
      /\ End(d) = d.first_page + d.page_count
      /\ End(e) = e.first_page + e.page_count
  BY ExtentFields
<1>2. d # e => End(d) <= e.first_page \/ End(e) <= d.first_page
  BY NotShare
<1>. QED BY <1>1, <1>2

\* An allocation is finitely many extents.
LEMMA AllocationFinite ==
    ASSUME NEW a \in SUBSET ValidExtent, \A d, e \in a : d # e => ~ Share(d, e)
    PROVE  IsFiniteSet(a) /\ Cardinality(a) \in Nat
<1>. DEFINE f == [e \in a |-> e.first_page]
<1>1. ASSUME NEW e \in a PROVE e.first_page \in PageNumbers
  <2>1. /\ e.first_page \in Nat /\ e.page_count \in Nat \ {0}
        /\ e.first_page + e.page_count <= TotalPages
    BY ExtentFields
  <2>. QED BY <2>1, SizeAssumption DEF PageNumbers
<1>2. f \in Injection(a, PageNumbers)
  <2>1. f \in [a -> PageNumbers]
    BY <1>1
  <2>2. \A d, e \in a : f[d] = f[e] => d = e
    BY DistinctExtents
  <2>. QED BY <2>1, <2>2 DEF Injection, IsInjective
<1>3. IsFiniteSet(a)
  BY <1>2, PoolSize, FS_Injection
<1>. QED BY <1>3, FS_CardinalityType

\* The map's order numbers the extents of an allocation from 0 without a gap, so
\* that ExtentVector lists them.
LEMMA ExtentVectorOrdered ==
    ASSUME NEW a \in SUBSET ValidExtent, \A d, e \in a : d # e => ~ Share(d, e)
    PROVE  Ordered(a, ExtentVector(a)) /\ Len(ExtentVector(a)) = Cardinality(a)
<1>. DEFINE Below(e) == {f \in a : f.first_page < e.first_page}
            rank == [e \in a |-> Cardinality(Below(e))]
            v == ExtentVector(a)
<1>1. IsFiniteSet(a) /\ Cardinality(a) \in Nat
  BY AllocationFinite
<1>2. PICK n \in Nat : n = Cardinality(a)
  BY <1>1
<1>3. ASSUME NEW e \in a
      PROVE  IsFiniteSet(Below(e)) /\ Cardinality(Below(e)) \in 0 .. n - 1
  <2>1. e.first_page \in Nat
    BY ExtentFields
  <2>2. Below(e) \subseteq a /\ e \notin Below(e)
    BY <2>1
  <2>3. IsFiniteSet(Below(e)) /\ Cardinality(Below(e)) \in Nat
    BY <1>1, <2>2, FS_Subset, FS_CardinalityType
  <2>4. Cardinality(Below(e)) < Cardinality(a)
    <3>1. Below(e) # a
      BY <2>2
    <3>. HIDE DEF Below
    <3>. QED BY <1>1, <2>2, <2>3, <3>1, FS_Subset
  <2>. QED BY <1>2, <2>3, <2>4
<1>4. ASSUME NEW e \in a PROVE rank[e] \in Nat
  <2>1. PICK k \in 0 .. n - 1 : k = Cardinality(Below(e))
    BY <1>3
  <2>2. rank[e] = k
    BY <2>1
  <2>. QED BY <2>2
<1>5. ASSUME NEW d \in a, NEW e \in a, d.first_page < e.first_page
      PROVE  rank[d] < rank[e]
  <2>1. d.first_page \in Nat /\ e.first_page \in Nat
    BY ExtentFields
  <2>2. \A f \in a : f.first_page \in Nat
    BY ExtentFields
  <2>3. Below(d) \subseteq Below(e)
    BY <1>5, <2>1, <2>2
  <2>4. d \in Below(e) /\ d \notin Below(d)
    BY <1>5, <2>1
  <2>5. Below(d) # Below(e)
    BY <2>4
  <2>6. Cardinality(Below(d)) < Cardinality(Below(e))
    BY <1>3, <2>3, <2>5, FS_Subset
  <2>. QED BY <2>6
<1>6. ASSUME NEW d \in a, NEW e \in a, rank[d] = rank[e] PROVE d = e
  <2>1. d.first_page \in Nat /\ e.first_page \in Nat
    BY ExtentFields
  <2>2. rank[d] \in Nat /\ rank[e] \in Nat
    BY <1>4
  <2>3. ~ (d.first_page < e.first_page) /\ ~ (e.first_page < d.first_page)
    BY <1>5, <1>6, <2>2
  <2>. QED BY <2>1, <2>3, DistinctExtents
<1>7. rank \in Surjection(a, 0 .. n - 1)
  <2>1. rank \in [a -> 0 .. n - 1]
    BY <1>3
  <2>2. rank \in Injection(a, 0 .. n - 1)
    BY <2>1, <1>6 DEF Injection, IsInjective
  <2>3. IsFiniteSet(0 .. n - 1) /\ Cardinality(0 .. n - 1) = n
    <3>1. 0 \in Int /\ n - 1 \in Int
      OBVIOUS
    <3>2. /\ IsFiniteSet(0 .. n - 1)
          /\ Cardinality(0 .. n - 1) = IF 0 > n - 1 THEN 0 ELSE n - 1 - 0 + 1
      BY <3>1, FS_Interval
    <3>. QED BY <3>2
  <2>. QED BY <1>2, <2>2, <2>3, FS_Injection
<1>8. \A k \in 0 .. n - 1 : \E e \in a : rank[e] = k
  BY <1>7 DEF Surjection
<1>9. v = [i \in 1 .. n |-> CHOOSE e \in a : Cardinality(Below(e)) = i - 1]
  BY <1>2 DEF ExtentVector
<1>10. ASSUME NEW i \in 1 .. n PROVE v[i] \in a /\ rank[v[i]] = i - 1
  <2>1. i - 1 \in 0 .. n - 1
    OBVIOUS
  <2>2. \E e \in a : Cardinality(Below(e)) = i - 1
    BY <1>8, <2>1
  <2>3. PICK x : x = CHOOSE e \in a : Cardinality(Below(e)) = i - 1
    OBVIOUS
  <2>4. x \in a /\ Cardinality(Below(x)) = i - 1
    BY <2>2, <2>3
  <2>5. v[i] = x
    BY <1>9, <2>3
  <2>. QED BY <2>4, <2>5
<1>. HIDE DEF v
<1>11. DOMAIN v = 1 .. n /\ v \in [1 .. n -> a]
  BY <1>9, <1>10
<1>12. v \in Seq(a) /\ Len(v) = n
  BY <1>11
<1>13. ASSUME NEW e \in a PROVE \E i \in 1 .. Len(v) : v[i] = e
  <2>1. PICK k \in 0 .. n - 1 : k = rank[e]
    BY <1>3
  <2>2. k + 1 \in 1 .. n /\ (k + 1) - 1 = k
    OBVIOUS
  <2>3. v[k + 1] \in a /\ rank[v[k + 1]] = k
    BY <1>10, <2>2
  <2>4. v[k + 1] = e
    BY <2>1, <2>3, <1>6
  <2>. QED BY <1>12, <2>2, <2>4
<1>14. ASSUME NEW i \in 1 .. Len(v), NEW j \in 1 .. Len(v), i < j
       PROVE  End(v[i]) <= v[j].first_page
  <2>1. i \in 1 .. n /\ j \in 1 .. n
    BY <1>12
  <2>2. PICK d \in a : d = v[i] /\ rank[d] = i - 1
    BY <1>10, <2>1
  <2>3. PICK e \in a : e = v[j] /\ rank[e] = j - 1
    BY <1>10, <2>1
  <2>4. d.first_page \in Nat /\ e.first_page \in Nat
    BY ExtentFields
  <2>5. rank[d] < rank[e]
    BY <2>1, <2>2, <2>3, <1>14
  <2>6. rank[d] \in Nat /\ rank[e] \in Nat
    BY <1>4
  <2>7. d # e /\ ~ (e.first_page < d.first_page)
    <3>. HIDE DEF rank
    <3>1. d # e
      BY <2>5, <2>6
    <3>2. ~ (rank[e] < rank[d])
      BY <2>5, <2>6
    <3>. QED BY <1>5, <3>1, <3>2
  <2>8. d.first_page < e.first_page
    BY <2>4, <2>7, DistinctExtents
  <2>9. End(d) <= e.first_page
    BY <2>8, DistinctExtents
  <2>. QED BY <2>2, <2>3, <2>9
<1>15. Ordered(a, v)
  BY <1>12, <1>13, <1>14 DEF Ordered
<1>. QED BY <1>2, <1>12, <1>15 DEF v

-----------------------------------------------------------------------------
(* The pages a loop over the vector has gone through *)

\* The pages of a below page c.
Reached(a, c) == {x \in PagesOf(a) : x < c}

\* They are no more than all.
LEMMA ReachedCount ==
    ASSUME NEW a, NEW c
    PROVE  /\ IsFiniteSet(Reached(a, c))
           /\ Cardinality(Reached(a, c)) \in Nat
           /\ Cardinality(Reached(a, c)) <= Cardinality(PagesOf(a))
<1>1. Reached(a, c) \subseteq PagesOf(a)
  BY DEF Reached
<1>. QED BY <1>1, PagesFinite, FS_Subset, FS_CardinalityType

\* While a page of a lies ahead, they are fewer than all.
LEMMA ReachedFewer ==
    ASSUME NEW a, NEW c \in Nat, c \in PagesOf(a)
    PROVE  Cardinality(Reached(a, c)) + 1 <= Cardinality(PagesOf(a))
<1>1. Reached(a, c) \subseteq PagesOf(a) /\ c \notin Reached(a, c)
  BY DEF Reached
<1>2. Reached(a, c) # PagesOf(a)
  BY <1>1
<1>3. /\ Cardinality(Reached(a, c)) <= Cardinality(PagesOf(a))
      /\ Cardinality(Reached(a, c)) # Cardinality(PagesOf(a))
  BY <1>1, <1>2, PagesFinite, FS_Subset
<1>4. Cardinality(Reached(a, c)) \in Nat /\ Cardinality(PagesOf(a)) \in Nat
  BY ReachedCount, PagesFinite
<1>. QED BY <1>3, <1>4

\* The pages from c on and before d are some of e's.
Within(e, c, d) == e.first_page <= c /\ c < d /\ d <= End(e)

\* A segment from page c to page d goes that far within its extent.
LEMMA ReachMore ==
    ASSUME NEW a \in SUBSET ValidExtent, NEW e \in a, NEW c \in Nat, NEW d \in Nat,
           Within(e, c, d)
    PROVE  Reached(a, d) = Reached(a, c) \cup (c .. (d - 1))
<1>1. /\ e.first_page \in Nat /\ End(e) \in Nat /\ End(e) <= TotalPages
      /\ e.first_page <= c /\ c < d /\ d <= End(e)
  BY ExtentFields DEF Within
<1>2. \A x \in c .. (d - 1) : x \in PagesOf(a)
  <2>. SUFFICES ASSUME NEW x \in c .. (d - 1) PROVE x \in PagesOf(a)
    OBVIOUS
  <2>1. x \in Nat /\ e.first_page <= x /\ x < End(e) /\ x <= TotalPages - 1
    BY <1>1, SizeAssumption
  <2>2. x \in PageNumbers
    BY <2>1, SizeAssumption DEF PageNumbers
  <2>. QED BY <2>1, <2>2 DEF PagesOf, Covers
<1>3. \A x \in PagesOf(a) : x \in Nat
  BY SizeAssumption DEF PagesOf, PageNumbers
<1>4. ASSUME NEW x \in Reached(a, d) PROVE x \in Reached(a, c) \cup (c .. (d - 1))
  BY <1>3 DEF Reached
<1>5. ASSUME NEW x \in Reached(a, c) PROVE x \in Reached(a, d)
  BY <1>1, <1>3 DEF Reached
<1>6. ASSUME NEW x \in c .. (d - 1) PROVE x \in Reached(a, d)
  BY <1>2 DEF Reached
<1>. QED BY <1>4, <1>5, <1>6

\* Those pages are new.
LEMMA ReachCount ==
    ASSUME NEW a, NEW c \in Nat, NEW t \in Nat \ {0}, NEW d \in Nat, d = c + t,
           Reached(a, d) = Reached(a, c) \cup (c .. (d - 1))
    PROVE  Cardinality(Reached(a, d)) = Cardinality(Reached(a, c)) + t
<1>1. Reached(a, c) \cap (c .. (d - 1)) = {}
  <2>1. \A x \in Reached(a, c) : x \in Nat /\ x < c
    BY SizeAssumption DEF Reached, PagesOf, PageNumbers
  <2>. QED BY <2>1
<1>2. IsFiniteSet(c .. (d - 1)) /\ Cardinality(c .. (d - 1)) = t
  <2>1. PICK h \in Int : h = d - 1
    OBVIOUS
  <2>2. c \in Int
    OBVIOUS
  <2>3. /\ IsFiniteSet(c .. h)
        /\ Cardinality(c .. h) = IF c > h THEN 0 ELSE h - c + 1
    BY <2>2, FS_Interval
  <2>4. Cardinality(c .. h) = t
    BY <2>1, <2>3
  <2>. QED BY <2>1, <2>3, <2>4
<1>. QED BY <1>1, <1>2, ReachedCount, DisjointSize

\* No page of a lies between the end of an extent and the next one.
LEMMA ReachNext ==
    ASSUME NEW a \in SUBSET ValidExtent, NEW v, Ordered(a, v),
           NEW i \in 1 .. Len(v)
    PROVE  /\ i = Len(v) => Reached(a, TotalPages) = Reached(a, End(v[i]))
           /\ i # Len(v) => Reached(a, v[i + 1].first_page) = Reached(a, End(v[i]))
<1>1. /\ Len(v) \in Nat
      /\ \A j \in 1 .. Len(v) : v[j] \in a
  BY DEF Ordered
<1>2. \A j, k \in 1 .. Len(v) : j < k => End(v[j]) <= v[k].first_page
  BY DEF Ordered
<1>3. ASSUME NEW j \in 1 .. Len(v)
      PROVE  /\ v[j].first_page \in Nat /\ End(v[j]) \in Nat
             /\ v[j].first_page < End(v[j])
             /\ End(v[j]) <= TotalPages
  <2>1. PICK e \in a : e = v[j]
    BY <1>1
  <2>2. /\ e.first_page \in Nat /\ e.page_count \in Nat \ {0} /\ End(e) \in Nat
        /\ End(e) = e.first_page + e.page_count /\ End(e) <= TotalPages
    BY ExtentFields
  <2>3. e.first_page < End(e)
    BY <2>2
  <2>. QED BY <2>1, <2>2, <2>3
<1>4. ASSUME NEW x \in PagesOf(a)
      PROVE  /\ x \in Nat /\ x < TotalPages
             /\ \E j \in 1 .. Len(v) : v[j].first_page <= x /\ x < End(v[j])
  <2>1. PICK e \in a : e.first_page <= x /\ x < End(e)
    BY DEF PagesOf, Covers
  <2>2. PICK j \in 1 .. Len(v) : v[j] = e
    BY DEF Ordered
  <2>3. x \in Nat /\ x < TotalPages
    BY SizeAssumption DEF PagesOf, PageNumbers
  <2>. QED BY <2>1, <2>2, <2>3
<1>5. ASSUME NEW x \in Nat, NEW j \in 1 .. Len(v), x < End(v[j]), j <= i
      PROVE  x < End(v[i])
  <2>1. CASE j = i
    BY <2>1, <1>5
  <2>2. CASE j < i
    <3>1. PICK s \in Nat : s = v[i].first_page
      BY <1>3
    <3>2. PICK d \in Nat : d = End(v[i]) /\ s < d
      BY <1>3, <3>1
    <3>3. PICK h \in Nat : h = End(v[j]) /\ x < h
      BY <1>3, <1>5
    <3>4. h <= s
      BY <2>2, <1>2, <3>1, <3>3
    <3>5. x < d
      BY <3>2, <3>3, <3>4
    <3>. QED BY <3>2, <3>5
  <2>. QED BY <2>1, <2>2, <1>5, <1>1
<1>6. CASE i = Len(v)
  <2>1. ASSUME NEW x \in PagesOf(a) PROVE x < TotalPages /\ x < End(v[i])
    <3>1. PICK j \in 1 .. Len(v) : v[j].first_page <= x /\ x < End(v[j])
      BY <1>4
    <3>2. j <= i
      BY <1>1, <1>6
    <3>. QED BY <3>1, <3>2, <1>4, <1>5
  <2>. QED BY <1>6, <2>1 DEF Reached
<1>7. CASE i # Len(v)
  <2>1. i + 1 \in 1 .. Len(v) /\ i < i + 1
    BY <1>1, <1>7
  <2>2. PICK s \in Nat : s = v[i + 1].first_page
    BY <1>3, <2>1
  <2>3. PICK d \in Nat : d = End(v[i])
    BY <1>3
  <2>4. d <= s
    BY <1>2, <2>1, <2>2, <2>3
  <2>5. ASSUME NEW x \in PagesOf(a) PROVE x < s <=> x < d
    <3>1. x \in Nat
      BY <1>4
    <3>2. PICK j \in 1 .. Len(v) : v[j].first_page <= x /\ x < End(v[j])
      BY <1>4
    <3>3. CASE j <= i
      <4>1. x < d
        BY <3>1, <3>2, <3>3, <1>5, <2>3
      <4>. QED BY <4>1, <3>1, <2>4
    <3>4. CASE j > i
      <4>1. PICK u \in Nat : u = v[j].first_page
        BY <1>3
      <4>2. s <= u
        <5>1. CASE j = i + 1
          BY <5>1, <2>2, <4>1
        <5>2. CASE j # i + 1
          <6>1. i + 1 < j
            BY <3>4, <5>2
          <6>2. PICK h \in Nat : h = End(v[i + 1]) /\ s < h
            BY <1>3, <2>1, <2>2
          <6>3. h <= u
            BY <1>2, <2>1, <6>1, <6>2, <4>1
          <6>. QED BY <6>2, <6>3
        <5>. QED BY <5>1, <5>2
      <4>3. u <= x
        BY <3>2, <4>1
      <4>. QED BY <4>2, <4>3, <3>1, <2>4
    <3>. QED BY <3>3, <3>4, <1>1
  <2>6. Reached(a, s) = Reached(a, d)
    BY <2>5 DEF Reached
  <2>. QED BY <1>7, <2>2, <2>3, <2>6
<1>. QED BY <1>6, <1>7

\* Nothing of a lies below its first extent.
LEMMA ReachStart ==
    ASSUME NEW a \in SUBSET ValidExtent, NEW v, Ordered(a, v), 1 \in 1 .. Len(v)
    PROVE  Reached(a, v[1].first_page) = {}
<1>1. /\ v[1] \in a
      /\ \A e \in a : \E j \in 1 .. Len(v) : v[j] = e
      /\ \A j \in 1 .. Len(v) : 1 < j => End(v[1]) <= v[j].first_page
  BY DEF Ordered
<1>2. ASSUME NEW x \in PagesOf(a) PROVE ~ (x < v[1].first_page)
  <2>1. PICK e \in a : x \in Nat /\ e.first_page <= x
    BY SizeAssumption DEF PagesOf, PageNumbers, Covers
  <2>2. PICK j \in 1 .. Len(v) : v[j] = e
    BY <1>1
  <2>3. PICK d \in a : d = v[1]
    BY <1>1
  <2>4. /\ d.first_page \in Nat /\ d.page_count \in Nat \ {0}
        /\ End(d) = d.first_page + d.page_count /\ e.first_page \in Nat
    BY ExtentFields
  <2>5. CASE j = 1
    BY <2>1, <2>2, <2>3, <2>4, <2>5
  <2>6. CASE j # 1
    <3>1. 1 < j
      BY <2>6
    <3>2. End(d) <= e.first_page
      BY <1>1, <2>2, <2>3, <3>1
    <3>3. ~ (x < d.first_page)
      BY <3>2, <2>1, <2>4
    <3>. QED BY <3>3, <2>3
  <2>. QED BY <2>5, <2>6
<1>. QED BY <1>2 DEF Reached

-----------------------------------------------------------------------------
(* The segments pushed so far *)

Item == [buffer : Nat, logical_length : Nat, byte_offset : Nat, physical_length : Nat]

\* item is a range of whole pages that fits a segment, with some of the value.
Whole(g, item) ==
    \E f \in Nat, k \in Nat \ {0} :
        /\ item.byte_offset = f * g.page_size
        /\ item.physical_length = k * g.page_size
        /\ f + k <= TotalPages
        /\ item.physical_length <= g.io_segment_size
        /\ item.logical_length # 0
        /\ item.logical_length <= item.physical_length

\* The buffers of items follow each other from 0 to byte logical.
Chained(items, logical) ==
    /\ items = <<>> => logical = 0
    /\ items # <<>> => items[1].buffer = 0
    /\ \A i \in 1 .. Len(items) :
         items[i].buffer + items[i].logical_length
             = IF i = Len(items) THEN logical ELSE items[i + 1].buffer

\* Each of the pages P belongs to one of items.
Split(g, P, items) ==
    /\ \A i \in 1 .. Len(items) : \A x \in PagesOfItem(g, items[i]) : x \in P
    /\ \A x \in P : \E i \in 1 .. Len(items) : x \in PagesOfItem(g, items[i])
    /\ \A i, j \in 1 .. Len(items) :
         i # j => PagesOfItem(g, items[i]) \cap PagesOfItem(g, items[j]) = {}

\* The pages of a range given in bytes.
LEMMA ItemPages ==
    ASSUME NEW g \in Opened, NEW item, NEW f \in Nat, NEW k \in Nat \ {0},
           item.byte_offset = f * g.page_size, item.physical_length = k * g.page_size
    PROVE  PagesOfItem(g, item) = f .. (f + k - 1)
<1>1. PICK p \in Nat \ {0} : p = g.page_size
  BY OpenedGeometry
<1>2. (f * p) \div p = f
  BY MultipleQuotient
<1>3. f * p + k * p = (f + k) * p
  BY MultipleOrder
<1>4. ((f + k) * p) \div p = f + k
  <2>1. PICK h \in Nat : h = f + k
    OBVIOUS
  <2>2. (h * p) \div p = h
    BY MultipleQuotient
  <2>. QED BY <2>1, <2>2
<1>5. PICK y : y = (f + k) * p
  OBVIOUS
<1>6. PagesOfItem(g, item) = ((f * p) \div p) .. ((f * p + k * p) \div p - 1)
  BY <1>1 DEF PagesOfItem
<1>7. (f * p + k * p) \div p = f + k
  BY <1>3, <1>4
<1>. QED BY <1>2, <1>6, <1>7

\* What Append does.
LEMMA AppendItem ==
    ASSUME NEW items \in Seq(Item), NEW item \in Item
    PROVE  /\ Append(items, item) \in Seq(Item)
           /\ Len(items) \in Nat
           /\ Len(Append(items, item)) = Len(items) + 1
           /\ \A i \in 1 .. Len(items) : Append(items, item)[i] = items[i]
           /\ Append(items, item)[Len(items) + 1] = item
           /\ items = <<>> <=> Len(items) = 0
           /\ Append(items, item) # <<>>
<1>1. items \in Seq(Item) /\ item \in Item
  OBVIOUS
<1>. HIDE DEF Item
<1>. QED BY <1>1

\* One more segment carries the value on.
LEMMA AppendChained ==
    ASSUME NEW items \in Seq(Item), NEW item \in Item, NEW logical \in Nat,
           Chained(items, logical), item.buffer = logical
    PROVE  Chained(Append(items, item), logical + item.logical_length)
<1>. DEFINE more == Append(items, item)
<1>1. /\ Len(items) \in Nat
      /\ Len(more) = Len(items) + 1
      /\ \A i \in 1 .. Len(items) : more[i] = items[i]
      /\ more[Len(items) + 1] = item
      /\ items = <<>> <=> Len(items) = 0
      /\ more # <<>>
  BY AppendItem
<1>. HIDE DEF more
<1>2. more[1].buffer = 0
  <2>1. CASE items = <<>>
    BY <2>1, <1>1 DEF Chained
  <2>2. CASE items # <<>>
    <3>1. 1 \in 1 .. Len(items) /\ items[1].buffer = 0
      BY <2>2, <1>1 DEF Chained
    <3>. QED BY <3>1, <1>1
  <2>. QED BY <2>1, <2>2
<1>3. ASSUME NEW i \in 1 .. Len(more)
      PROVE  more[i].buffer + more[i].logical_length
               = IF i = Len(more) THEN logical + item.logical_length
                 ELSE more[i + 1].buffer
  <2>1. CASE i = Len(items) + 1
    BY <2>1, <1>1
  <2>2. CASE i # Len(items) + 1
    <3>1. i \in 1 .. Len(items) /\ more[i] = items[i]
      BY <2>2, <1>1
    <3>2. items[i].buffer + items[i].logical_length
             = IF i = Len(items) THEN logical ELSE items[i + 1].buffer
      BY <3>1 DEF Chained
    <3>3. more[i + 1].buffer = IF i = Len(items) THEN logical ELSE items[i + 1].buffer
      <4>1. CASE i = Len(items)
        BY <4>1, <1>1
      <4>2. CASE i # Len(items)
        <5>1. i + 1 \in 1 .. Len(items)
          BY <4>2, <3>1, <1>1
        <5>. QED BY <4>2, <5>1, <1>1
      <4>. QED BY <4>1, <4>2
    <3>4. i # Len(more)
      BY <3>1, <1>1
    <3>. QED BY <3>1, <3>2, <3>3, <3>4
  <2>. QED BY <2>1, <2>2
<1>4. Chained(more, logical + item.logical_length)
  BY <1>1, <1>2, <1>3 DEF Chained
<1>. QED BY <1>4 DEF more

\* One more segment adds its pages.
LEMMA AppendSplit ==
    ASSUME NEW g, NEW P, NEW items \in Seq(Item), NEW item \in Item, Split(g, P, items),
           PagesOfItem(g, item) \cap P = {}
    PROVE  Split(g, P \cup PagesOfItem(g, item), Append(items, item))
<1>. DEFINE more == Append(items, item)
            Q == PagesOfItem(g, item)
<1>1. /\ Len(items) \in Nat
      /\ Len(more) = Len(items) + 1
      /\ \A i \in 1 .. Len(items) : more[i] = items[i]
      /\ more[Len(items) + 1] = item
  BY AppendItem
<1>. HIDE DEF more
<1>2. \A i \in 1 .. Len(more) : \/ i \in 1 .. Len(items) /\ more[i] = items[i]
                                \/ i = Len(items) + 1 /\ more[i] = item
  BY <1>1
<1>3. Q \cap P = {}
  OBVIOUS
<1>4. \A x \in Q : x \in PagesOfItem(g, more[Len(items) + 1])
  BY <1>1
<1>5. Len(items) + 1 \in 1 .. Len(more) /\ \A i \in 1 .. Len(items) : i \in 1 .. Len(more)
  BY <1>1
<1>6. ASSUME NEW i \in 1 .. Len(more), NEW x \in PagesOfItem(g, more[i])
      PROVE  /\ i \in 1 .. Len(items) => x \in P
             /\ i \notin 1 .. Len(items) => x \in Q
  BY <1>2 DEF Split
<1>7. ASSUME NEW x \in P \cup Q
      PROVE  \E i \in 1 .. Len(more) : x \in PagesOfItem(g, more[i])
  <2>. HIDE DEF Q
  <2>1. CASE x \in Q
    BY <2>1, <1>4, <1>5
  <2>2. CASE x \in P
    <3>1. PICK i \in 1 .. Len(items) : x \in PagesOfItem(g, items[i])
      BY <2>2 DEF Split
    <3>. QED BY <3>1, <1>1, <1>5
  <2>. QED BY <2>1, <2>2
<1>8. ASSUME NEW i \in 1 .. Len(more), NEW j \in 1 .. Len(more), i # j
      PROVE  PagesOfItem(g, more[i]) \cap PagesOfItem(g, more[j]) = {}
  <2>1. CASE i \in 1 .. Len(items) /\ j \in 1 .. Len(items)
    <3>1. PagesOfItem(g, items[i]) \cap PagesOfItem(g, items[j]) = {}
      BY <2>1, <1>8 DEF Split
    <3>. QED BY <3>1, <2>1, <1>1
  <2>2. CASE i \in 1 .. Len(items) /\ j \notin 1 .. Len(items)
    BY <2>2, <1>6, <1>3
  <2>3. CASE i \notin 1 .. Len(items) /\ j \in 1 .. Len(items)
    BY <2>3, <1>6, <1>3
  <2>4. i \in 1 .. Len(items) \/ j \in 1 .. Len(items)
    BY <1>2, <1>8
  <2>. QED BY <2>1, <2>2, <2>3, <2>4
<1>. HIDE DEF Q
<1>9. Split(g, P \cup Q, more)
  BY <1>6, <1>7, <1>8 DEF Split
<1>. QED BY <1>9 DEF more, Q

-----------------------------------------------------------------------------
(* The loop of AppendSegments *)

\* What the loop is run for: a length and an allocation of its pages, whose
\* extents are in v.
LoopContext(g, a, v, n) ==
    /\ g \in Opened
    /\ a \in SUBSET ValidExtent
    /\ a # {}
    /\ Ordered(a, v)
    /\ n \in Sizes(g, a)

\* The loop has gone through the pages of a below c: c is where extent s.extent
\* has been split up to, each page so far fills its part of the value, and the
\* value is split as far as the pages go.
LoopAt(g, a, v, n, c, s) ==
    /\ s.extent \in 1 .. Len(v) + 1
    /\ s.extent # Len(v) + 1 =>
         /\ v[s.extent].first_page <= c
         /\ c <= End(v[s.extent])
         /\ s.physical = (c - v[s.extent].first_page) * g.page_size
    /\ s.extent = Len(v) + 1 => c = TotalPages
    /\ s.logical = Smaller(n, Cardinality(Reached(a, c)) * g.page_size)
    /\ \A i \in 1 .. Len(s.items) : Whole(g, s.items[i])
    /\ Chained(s.items, s.logical)
    /\ Split(g, Reached(a, c), s.items)

LoopState == [extent : Nat, physical : Nat, logical : Nat, items : Seq(Item),
              thrown : {FALSE}]

\* The loop invariant, as the set of the states it allows.
LoopStates(g, a, v, n) ==
    {s \in LoopState : \E c \in 0 .. TotalPages : LoopAt(g, a, v, n, c, s)}

\* The loop starts at the first extent, with nothing split.
LEMMA LoopStarts ==
    ASSUME NEW g, NEW a, NEW v, NEW n, LoopContext(g, a, v, n)
    PROVE  SegmentsStart \in LoopStates(g, a, v, n)
<1>1. /\ g \in Opened /\ a \in SUBSET ValidExtent /\ a # {} /\ Ordered(a, v)
      /\ n \in LengthsOfPages(g, Cardinality(PagesOf(a)))
  BY DEF LoopContext, Sizes
<1>2. Len(v) \in Nat /\ 1 \in 1 .. Len(v) /\ v[1] \in a
  <2>1. PICK e \in a : TRUE
    BY <1>1
  <2>2. \E i \in 1 .. Len(v) : v[i] = e
    BY <1>1 DEF Ordered
  <2>3. v \in Seq(a)
    BY <1>1 DEF Ordered
  <2>4. Len(v) \in Nat
    BY <2>3
  <2>5. 1 \in 1 .. Len(v)
    BY <2>2, <2>4
  <2>. QED BY <2>3, <2>4, <2>5
<1>3. PICK e \in a : e = v[1]
  BY <1>2
<1>4. /\ e.first_page \in Nat /\ e.page_count \in Nat \ {0}
      /\ End(e) = e.first_page + e.page_count /\ End(e) <= TotalPages
  BY <1>1, ExtentFields
<1>5. PICK c \in Nat : c = e.first_page
  BY <1>4
<1>6. c \in 0 .. TotalPages /\ c <= End(e)
  BY <1>4, <1>5, SizeAssumption
<1>7. Reached(a, c) = {}
  BY <1>1, <1>2, <1>3, <1>5, ReachStart
<1>8. PICK p \in Nat \ {0} : p = g.page_size
  BY <1>1, OpenedGeometry
<1>9. SegmentsStart \in LoopState
  <2>1. <<>> \in Seq(Item)
    OBVIOUS
  <2>. QED BY <2>1 DEF SegmentsStart, LoopState
<1>10. /\ SegmentsStart.extent = 1 /\ SegmentsStart.physical = 0
       /\ SegmentsStart.logical = 0 /\ SegmentsStart.items = <<>>
  BY DEF SegmentsStart
<1>11. (c - c) * p = 0 /\ 0 * p = 0
  <2>1. c - c = 0
    OBVIOUS
  <2>. QED BY <2>1
<1>12. n \in Nat
  BY <1>1, PagesFinite, LengthBounds
<1>13. 0 = Smaller(n, Cardinality(Reached(a, c)) * p)
  <2>1. Cardinality(Reached(a, c)) = 0
    BY <1>7, FS_EmptySet
  <2>2. Smaller(n, 0) = 0
    BY <1>12 DEF Smaller
  <2>. QED BY <2>1, <2>2, <1>11
<1>14. Chained(<<>>, 0) /\ Split(g, Reached(a, c), <<>>)
  BY <1>7 DEF Chained, Split
<1>15. LoopAt(g, a, v, n, c, SegmentsStart)
  <2>1. 1 \in 1 .. Len(v) + 1 /\ 1 # Len(v) + 1
    BY <1>2
  <2>2. \A i \in 1 .. Len(SegmentsStart.items) : Whole(g, SegmentsStart.items[i])
    BY <1>10
  <2>3. v[SegmentsStart.extent] = e
    BY <1>3, <1>10
  <2>4. SegmentsStart.physical = (c - e.first_page) * p
    BY <1>5, <1>10, <1>11
  <2>5. e.first_page <= c
    BY <1>4, <1>5
  <2>. QED BY <1>6, <1>8, <1>10, <1>13, <1>14, <2>1, <2>2, <2>3, <2>4, <2>5 DEF LoopAt
<1>. QED BY <1>6, <1>9, <1>15 DEF LoopStates

\* The loop is in extent e, k pages of it behind, which begins at page c - k.
AtExtent(g, v, c, s, e, k, p) ==
    /\ e = v[s.extent] /\ p = g.page_size
    /\ e.first_page \in Nat /\ e.page_count \in Nat \ {0}
    /\ End(e) = e.first_page + e.page_count /\ End(e) <= TotalPages
    /\ c = e.first_page + k /\ k <= e.page_count
    /\ s.physical = k * p
    /\ e.page_count * p \in Nat /\ k * p \in Nat
    /\ s.physical >= e.page_count * p <=> k = e.page_count

\* The facts about extent s.extent that both kinds of iteration need.
LEMMA LoopExtent ==
    ASSUME NEW g, NEW a, NEW v, NEW n, LoopContext(g, a, v, n),
           NEW c \in 0 .. TotalPages, NEW s \in LoopState, LoopAt(g, a, v, n, c, s),
           s.extent <= Len(v)
    PROVE  /\ s.extent \in 1 .. Len(v) /\ s.extent # Len(v) + 1
           /\ \E e \in a, k \in Nat, p \in Nat \ {0} : AtExtent(g, v, c, s, e, k, p)
<1>1. /\ g \in Opened /\ a \in SUBSET ValidExtent /\ Ordered(a, v)
  BY DEF LoopContext
<1>2. v \in Seq(a)
  BY <1>1 DEF Ordered
<1>3. Len(v) \in Nat
  BY <1>2
<1>4. s.extent \in 1 .. Len(v) + 1
  BY DEF LoopAt
<1>5. s.extent \in 1 .. Len(v) /\ s.extent # Len(v) + 1
  BY <1>3, <1>4
<1>6. PICK e \in a : e = v[s.extent]
  BY <1>2, <1>5
<1>7. /\ e.first_page \in Nat /\ e.page_count \in Nat \ {0}
      /\ End(e) = e.first_page + e.page_count /\ End(e) <= TotalPages
  BY <1>1, ExtentFields
<1>8. PICK p \in Nat \ {0} : p = g.page_size
  BY <1>1, OpenedGeometry
<1>9. /\ e.first_page <= c /\ c <= End(e)
      /\ s.physical = (c - e.first_page) * p
  BY <1>5, <1>6, <1>8 DEF LoopAt
<1>10. c \in Nat
  BY SizeAssumption
<1>11. PICK k \in Nat : k = c - e.first_page /\ c = e.first_page + k
  <2>1. c - e.first_page \in Nat /\ c = e.first_page + (c - e.first_page)
    BY <1>7, <1>9, <1>10
  <2>. QED BY <2>1
<1>12. k <= e.page_count
  BY <1>7, <1>9, <1>11
<1>13. s.physical = k * p
  BY <1>9, <1>11
<1>14. PICK m \in Nat \ {0} : m = e.page_count
  BY <1>7
<1>15. /\ m * p \in Nat /\ k * p \in Nat /\ m * p <= k * p <=> m <= k
  BY MultipleOrder
<1>16. k * p >= m * p <=> k = m
  <2>1. k * p >= m * p <=> m * p <= k * p
    BY <1>15
  <2>. QED BY <2>1, <1>12, <1>14, <1>15
<1>17. s.physical >= e.page_count * p <=> k = e.page_count
  BY <1>13, <1>14, <1>16
<1>18. e.page_count * p \in Nat /\ k * p \in Nat
  BY <1>14, <1>15
<1>19. /\ e = v[s.extent] /\ p = g.page_size
       /\ e.first_page \in Nat /\ e.page_count \in Nat \ {0}
       /\ End(e) = e.first_page + e.page_count /\ End(e) <= TotalPages
       /\ c = e.first_page + k /\ k <= e.page_count
       /\ s.physical = k * p
  BY <1>6, <1>7, <1>8, <1>11, <1>12, <1>13
<1>20. AtExtent(g, v, c, s, e, k, p)
  BY <1>17, <1>18, <1>19 DEF AtExtent
<1>. QED BY <1>5, <1>20

\* At its end an extent is left for the next one, on whose first page nothing of
\* the allocation was passed over.
LEMMA LoopLeavesExtent ==
    ASSUME NEW g, NEW a, NEW v, NEW n, LoopContext(g, a, v, n),
           NEW c \in 0 .. TotalPages, NEW s \in LoopState, LoopAt(g, a, v, n, c, s),
           s.extent <= Len(v), s.physical >= v[s.extent].page_count * g.page_size
    PROVE  [s EXCEPT !.extent = s.extent + 1, !.physical = 0] \in LoopStates(g, a, v, n)
<1>. DEFINE t == [s EXCEPT !.extent = s.extent + 1, !.physical = 0]
<1>1. /\ a \in SUBSET ValidExtent /\ Ordered(a, v) /\ v \in Seq(a) /\ g \in Opened
  BY DEF LoopContext, Ordered
<1>. HIDE DEF t
<1>2. PICK e \in a, k \in Nat, p \in Nat \ {0} : AtExtent(g, v, c, s, e, k, p)
  BY LoopExtent
<1>3. /\ e = v[s.extent] /\ p = g.page_size
      /\ e.first_page \in Nat /\ e.page_count \in Nat \ {0}
      /\ End(e) = e.first_page + e.page_count /\ End(e) <= TotalPages
      /\ c = e.first_page + k /\ k <= e.page_count
      /\ s.physical = k * p
      /\ e.page_count * p \in Nat /\ k * p \in Nat
      /\ s.physical >= e.page_count * p <=> k = e.page_count
  BY <1>2 DEF AtExtent
<1>4. s.extent \in 1 .. Len(v) /\ Len(v) \in Nat
  BY <1>1, LoopExtent
<1>5. c = End(e)
  BY <1>3
<1>6. /\ t \in LoopState /\ t.extent = s.extent + 1 /\ t.physical = 0
      /\ t.logical = s.logical /\ t.items = s.items
  <2>1. s.extent + 1 \in Nat
    BY <1>4
  <2>. QED BY <2>1 DEF LoopState, t
<1>7. /\ s.logical = Smaller(n, Cardinality(Reached(a, c)) * g.page_size)
      /\ \A i \in 1 .. Len(s.items) : Whole(g, s.items[i])
      /\ Chained(s.items, s.logical)
      /\ Split(g, Reached(a, c), s.items)
  BY DEF LoopAt
<1>8. CASE s.extent = Len(v)
  <2>1. Reached(a, TotalPages) = Reached(a, c)
    <3>1. c = End(v[s.extent])
      BY <1>3, <1>5
    <3>. QED BY <1>1, <1>4, <1>8, <3>1, ReachNext
  <2>2. t.extent = Len(v) + 1 /\ t.extent \in 1 .. Len(v) + 1
    BY <1>4, <1>6, <1>8
  <2>3. LoopAt(g, a, v, n, TotalPages, t)
    BY <1>6, <1>7, <2>1, <2>2 DEF LoopAt
  <2>4. TotalPages \in 0 .. TotalPages
    BY SizeAssumption
  <2>. QED BY <1>6, <2>3, <2>4 DEF LoopStates, t
<1>9. CASE s.extent # Len(v)
  <2>1. /\ s.extent + 1 \in 1 .. Len(v) /\ s.extent + 1 # Len(v) + 1
        /\ s.extent + 1 \in 1 .. Len(v) + 1
    BY <1>4, <1>9
  <2>2. PICK f \in a : f = v[s.extent + 1]
    BY <1>1, <2>1
  <2>3. /\ f.first_page \in Nat /\ f.page_count \in Nat \ {0}
        /\ End(f) = f.first_page + f.page_count /\ End(f) <= TotalPages
    BY <1>1, ExtentFields
  <2>4. PICK d \in Nat : d = f.first_page
    BY <2>3
  <2>5. d \in 0 .. TotalPages /\ d <= End(f) /\ f.first_page <= d
    BY <2>3, <2>4, SizeAssumption
  <2>6. Reached(a, d) = Reached(a, c)
    <3>1. c = End(v[s.extent])
      BY <1>3, <1>5
    <3>2. d = v[s.extent + 1].first_page
      BY <2>2, <2>4
    <3>. QED BY <1>1, <1>4, <1>9, <3>1, <3>2, ReachNext
  <2>7. t.physical = (d - f.first_page) * p
    <3>1. d - f.first_page = 0
      BY <2>4
    <3>2. 0 * p = 0
      OBVIOUS
    <3>. QED BY <3>1, <3>2, <1>6
  <2>8. v[t.extent] = f /\ t.extent \in 1 .. Len(v) + 1 /\ t.extent # Len(v) + 1
    BY <1>6, <2>1, <2>2
  <2>9. LoopAt(g, a, v, n, d, t)
    BY <1>3, <1>6, <1>7, <2>5, <2>6, <2>7, <2>8 DEF LoopAt
  <2>. QED BY <1>6, <2>5, <2>9 DEF LoopStates, t
<1>. QED BY <1>8, <1>9

\* A page that is left is a page's bytes that are left.
LEMMA PageLeft ==
    ASSUME NEW r \in Nat, NEW pages \in Nat, r + 1 <= pages, NEW p \in Nat \ {0}
    PROVE  r * p + p <= pages * p
<1>1. r + 1 \in Nat
  OBVIOUS
<1>2. (r + 1) * p <= pages * p
  BY <1>1, MultipleOrder
<1>3. (r + 1) * p = r * p + 1 * p /\ 1 * p = p
  BY MultipleOrder
<1>. QED BY <1>2, <1>3

\* The segment of physical and logical bytes that comes next, before the end of
\* extent s.extent, and the item pushed for it.
NextSegment(g, v, n, s, physical, logical, item) ==
    LET e == v[s.extent]
    IN /\ ~ (s.physical >= e.page_count * g.page_size)
       /\ physical = Smaller(g.io_segment_size, e.page_count * g.page_size - s.physical)
       /\ logical = Smaller(physical, n - s.logical)
       /\ item = [buffer |-> s.logical,
                  logical_length |-> logical,
                  byte_offset |-> e.first_page * g.page_size + s.physical,
                  physical_length |-> physical]

\* Before an extent's end a segment is pushed: it has a byte of the value, so
\* that nothing is thrown, and the loop is that much further.
LEMMA LoopPushes ==
    ASSUME NEW g, NEW a, NEW v, NEW n, LoopContext(g, a, v, n),
           NEW c \in 0 .. TotalPages, NEW s \in LoopState, LoopAt(g, a, v, n, c, s),
           s.extent <= Len(v), NEW physical, NEW logical, NEW item,
           NextSegment(g, v, n, s, physical, logical, item)
    PROVE  /\ logical \in Nat \ {0}
           /\ [s EXCEPT !.physical = s.physical + physical,
                        !.logical = s.logical + logical,
                        !.items = Append(s.items, item)] \in LoopStates(g, a, v, n)
<1>. DEFINE u == [s EXCEPT !.physical = s.physical + physical,
                           !.logical = s.logical + logical,
                           !.items = Append(s.items, item)]
<1>1. /\ a \in SUBSET ValidExtent /\ Ordered(a, v) /\ v \in Seq(a) /\ g \in Opened
      /\ n \in LengthsOfPages(g, Cardinality(PagesOf(a)))
  BY DEF LoopContext, Ordered, Sizes
<1>. HIDE DEF u
<1>2. PICK e \in a, k \in Nat, p \in Nat \ {0} : AtExtent(g, v, c, s, e, k, p)
  BY LoopExtent
<1>3. /\ e = v[s.extent] /\ p = g.page_size
      /\ e.first_page \in Nat /\ e.page_count \in Nat \ {0}
      /\ End(e) = e.first_page + e.page_count /\ End(e) <= TotalPages
      /\ c = e.first_page + k /\ k <= e.page_count
      /\ s.physical = k * p
      /\ e.page_count * p \in Nat /\ k * p \in Nat
      /\ s.physical >= e.page_count * p <=> k = e.page_count
  BY <1>2 DEF AtExtent
<1>4. s.extent \in 1 .. Len(v) /\ s.extent # Len(v) + 1 /\ Len(v) \in Nat
  BY <1>1, LoopExtent
<1>5. PICK m \in Nat \ {0} : g.io_segment_size = m * p
  BY <1>1, <1>3, OpenedGeometry
<1>6. PICK f \in Nat : f = e.first_page
  BY <1>3
<1>7. PICK left \in Nat \ {0} :
        /\ left = e.page_count - k
        /\ e.page_count * p - k * p = left * p
  <2>1. PICK h \in Nat : h = e.page_count
    BY <1>3
  <2>2. k <= h /\ k # h
    BY <1>3, <2>1 DEF NextSegment
  <2>3. h - k \in Nat /\ h * p - k * p = (h - k) * p
    BY <2>2, MultipleOrder
  <2>4. h - k # 0
    BY <2>2
  <2>. QED BY <2>1, <2>3, <2>4
<1>8. PICK t \in Nat \ {0} : t = Smaller(m, left) /\ t <= m /\ t <= left
  BY DEF Smaller
<1>9. physical = t * p
  <2>1. physical = Smaller(m * p, left * p)
    BY <1>3, <1>5, <1>7 DEF NextSegment
  <2>2. /\ m * p \in Nat /\ left * p \in Nat
        /\ m * p <= left * p <=> m <= left
    BY MultipleOrder
  <2>3. CASE m < left
    <3>1. t = m
      BY <1>8, <2>3 DEF Smaller
    <3>2. m * p # left * p
      BY <2>3, MultipleOrder
    <3>3. m * p < left * p
      BY <2>2, <2>3, <3>2
    <3>. QED BY <2>1, <3>1, <3>3 DEF Smaller
  <2>4. CASE ~ (m < left)
    <3>1. t = left
      BY <1>8, <2>4 DEF Smaller
    <3>2. left * p <= m * p
      BY <2>4, MultipleOrder
    <3>3. ~ (m * p < left * p)
      BY <2>2, <3>2
    <3>. QED BY <2>1, <3>1, <3>3 DEF Smaller
  <2>. QED BY <2>3, <2>4
<1>10. PICK r \in Nat : r = Cardinality(Reached(a, c))
  BY ReachedCount
<1>11. PICK pages \in Nat : pages = Cardinality(PagesOf(a))
  BY PagesFinite
<1>12. n \in Nat /\ pages * p < n + p
  BY <1>1, <1>3, <1>11, LengthBounds
<1>13. c \in Nat /\ c < End(e) /\ c + t <= End(e) /\ c + t <= TotalPages
       /\ e.first_page <= c /\ c + t \in 0 .. TotalPages
  <2>1. PICK h \in Nat : h = e.page_count
    BY <1>3
  <2>2. left = h - k /\ c = f + k /\ End(e) = f + h /\ f + h <= TotalPages
    BY <1>3, <1>6, <1>7, <2>1
  <2>3. f + k + t <= f + h
    BY <1>8, <2>2
  <2>4. PICK total \in Nat : total = TotalPages
    BY SizeAssumption
  <2>5. f + k + t <= total /\ f + k + t \in 0 .. total
    BY <2>2, <2>3, <2>4
  <2>6. PICK d \in Nat : d = c /\ d = f + k
    BY <2>2
  <2>7. d < f + h /\ f <= d /\ d + t <= f + h /\ d + t <= total /\ d + t \in 0 .. total
    BY <2>3, <2>5, <2>6
  <2>. QED BY <1>6, <2>2, <2>4, <2>6, <2>7
<1>14. PICK ct \in Nat : ct = c + t
  BY <1>13
<1>15. r + 1 <= pages
  <2>1. c \in PagesOf(a)
    <3>1. c \in PageNumbers
      BY <1>3, <1>13, SizeAssumption DEF PageNumbers
    <3>2. Covers(e, c)
      BY <1>13 DEF Covers
    <3>. QED BY <3>1, <3>2 DEF PagesOf
  <2>. QED BY <1>10, <1>11, <1>13, <2>1, ReachedFewer
<1>16. /\ t * p \in Nat /\ r * p \in Nat /\ f * p \in Nat /\ (f + k) * p = f * p + k * p
       /\ c * p \in Nat /\ (k + t) * p = k * p + t * p /\ (k + t) * p \in Nat
       /\ t * p <= m * p /\ (r + t) * p = r * p + t * p /\ pages * p \in Nat
  <2>1. f * p \in Nat /\ (f + k) * p = f * p + k * p
    BY MultipleOrder
  <2>2. k * p \in Nat /\ t * p \in Nat /\ (k + t) * p = k * p + t * p
    BY MultipleOrder
  <2>3. r * p \in Nat /\ t * p <= m * p /\ (r + t) * p = r * p + t * p
    BY <1>8, MultipleOrder
  <2>4. c * p \in Nat
    BY <1>13
  <2>5. (k + t) * p \in Nat
    BY <2>2
  <2>6. pages * p \in Nat
    BY MultipleOrder
  <2>. QED BY <2>1, <2>2, <2>3, <2>4, <2>5, <2>6
<1>17. PICK x \in Nat, y \in Nat \ {0} : x = r * p /\ y = t * p
  <2>1. t * p # 0
    BY MultipleOrder
  <2>. QED BY <1>16, <2>1
<1>18. /\ Smaller(n, x) = x
       /\ Smaller(y, n - x) \in Nat \ {0}
       /\ Smaller(y, n - x) <= y
       /\ x + Smaller(y, n - x) = Smaller(n, x + y)
  <2>1. PICK z \in Nat : z = pages * p
    BY <1>16
  <2>2. x + p <= z
    BY <1>15, <1>17, <2>1, PageLeft
  <2>3. z < n + p
    BY <1>12, <2>1
  <2>4. n \in Nat /\ x < n
    BY <1>12, <2>2, <2>3
  <2>. QED BY <2>4 DEF Smaller
<1>19. s.logical = x
  <2>1. s.logical = Smaller(n, r * p)
    BY <1>3, <1>10 DEF LoopAt
  <2>. QED BY <1>17, <1>18, <2>1
<1>20. /\ logical \in Nat \ {0} /\ logical <= t * p
       /\ s.logical + logical = Smaller(n, (r + t) * p)
  <2>1. logical = Smaller(y, n - x)
    BY <1>9, <1>17, <1>19 DEF NextSegment
  <2>2. (r + t) * p = x + y
    BY <1>17, <1>16
  <2>. QED BY <1>17, <1>18, <1>19, <2>1, <2>2
<1>21. item = [buffer |-> s.logical,
                logical_length |-> logical,
                byte_offset |-> e.first_page * p + k * p,
                physical_length |-> physical]
  BY <1>3 DEF NextSegment
<1>22. /\ item.buffer = s.logical /\ item.logical_length = logical
       /\ item.byte_offset = c * p /\ item.physical_length = t * p
  <2>1. item.byte_offset = f * p + k * p
    BY <1>6, <1>21
  <2>2. c = f + k
    BY <1>3, <1>6
  <2>. QED BY <1>9, <1>16, <1>21, <2>1, <2>2
<1>23. item \in Item
  <2>1. s.logical \in Nat
    BY <1>19
  <2>2. item.byte_offset \in Nat /\ physical \in Nat
    BY <1>9, <1>16, <1>22
  <2>. QED BY <1>20, <1>21, <2>1, <2>2 DEF Item
<1>24. Whole(g, item)
  <2>1. t * p <= g.io_segment_size
    BY <1>5, <1>16
  <2>. QED BY <1>3, <1>13, <1>20, <1>22, <2>1 DEF Whole
<1>25. /\ s.items \in Seq(Item)
       /\ \A i \in 1 .. Len(s.items) : Whole(g, s.items[i])
       /\ Chained(s.items, s.logical)
       /\ Split(g, Reached(a, c), s.items)
  BY DEF LoopAt, LoopState
<1>26. PICK items : items = Append(s.items, item)
  OBVIOUS
<1>27. items \in Seq(Item) /\ \A i \in 1 .. Len(items) : Whole(g, items[i])
  <2>1. /\ Append(s.items, item) \in Seq(Item)
        /\ Len(s.items) \in Nat
        /\ Len(Append(s.items, item)) = Len(s.items) + 1
        /\ \A i \in 1 .. Len(s.items) : Append(s.items, item)[i] = s.items[i]
        /\ Append(s.items, item)[Len(s.items) + 1] = item
    BY <1>23, <1>25, AppendItem
  <2>2. Len(items) = Len(s.items) + 1
    BY <1>26, <2>1
  <2>3. \A i \in 1 .. Len(items) : i \in 1 .. Len(s.items) \/ i = Len(s.items) + 1
    BY <2>1, <2>2
  <2>. QED BY <1>24, <1>25, <1>26, <2>1, <2>3
<1>28. Chained(items, s.logical + logical)
  <2>1. s.logical \in Nat
    BY <1>19
  <2>. QED BY <1>22, <1>23, <1>25, <1>26, <2>1, AppendChained
<1>29. /\ Reached(a, ct) = Reached(a, c) \cup (c .. (ct - 1))
       /\ Cardinality(Reached(a, ct)) = r + t
  <2>1. a \in SUBSET ValidExtent /\ e \in a /\ c \in Nat /\ ct \in Nat
    BY <1>1, <1>13
  <2>2. Within(e, c, ct)
    BY <1>13, <1>14 DEF Within
  <2>3. Reached(a, ct) = Reached(a, c) \cup (c .. (ct - 1))
    BY <2>1, <2>2, ReachMore
  <2>4. Cardinality(Reached(a, ct)) = Cardinality(Reached(a, c)) + t
    BY <1>14, <2>1, <2>3, ReachCount
  <2>. QED BY <1>10, <2>3, <2>4
<1>30. Split(g, Reached(a, ct), items)
  <2>1. PagesOfItem(g, item) = c .. (ct - 1)
    <3>1. c \in Nat /\ item.byte_offset = c * g.page_size
          /\ item.physical_length = t * g.page_size
      BY <1>3, <1>13, <1>22
    <3>. QED BY <1>1, <1>14, <3>1, ItemPages
  <2>2. (c .. (ct - 1)) \cap Reached(a, c) = {}
    BY <1>13 DEF Reached
  <2>3. Split(g, Reached(a, c) \cup PagesOfItem(g, item), Append(s.items, item))
    BY <1>23, <1>25, <2>1, <2>2, AppendSplit
  <2>. QED BY <1>26, <1>29, <2>1, <2>3
<1>31. /\ u \in LoopState /\ u.extent = s.extent /\ u.physical = s.physical + physical
       /\ u.logical = s.logical + logical /\ u.items = items
  <2>1. s.physical + physical \in Nat
    BY <1>3, <1>9, <1>16
  <2>2. s.logical + logical \in Nat
    BY <1>19, <1>20
  <2>. QED BY <1>26, <1>27, <2>1, <2>2 DEF LoopState, u
<1>32. u.physical = (ct - e.first_page) * p
  <2>1. ct - e.first_page = k + t
    <3>1. c = f + k
      BY <1>3, <1>6
    <3>2. ct = f + k + t
      BY <1>14, <3>1
    <3>3. ct - f = k + t
      BY <3>2
    <3>. QED BY <1>6, <3>3
  <2>. QED BY <1>3, <1>9, <1>16, <1>31, <2>1, <1>14
<1>33. LoopAt(g, a, v, n, ct, u)
  <2>1. u.extent \in 1 .. Len(v) + 1 /\ u.extent # Len(v) + 1
    BY <1>4, <1>31
  <2>2. e.first_page <= ct /\ ct <= End(e)
    BY <1>6, <1>13, <1>14
  <2>3. u.logical = Smaller(n, Cardinality(Reached(a, ct)) * p)
    BY <1>20, <1>29, <1>31, <1>14
  <2>4. Split(g, Reached(a, ct), items)
    BY <1>30, <1>14
  <2>. QED BY <1>3, <1>27, <1>28, <1>31, <1>32, <2>4, <2>1, <2>2, <2>3 DEF LoopAt
<1>34. u \in LoopStates(g, a, v, n)
  BY <1>13, <1>14, <1>31, <1>33 DEF LoopStates
<1>. QED BY <1>20, <1>34 DEF u

\* Every iteration keeps the invariant, and leaves an extent or moves a byte.
LEMMA LoopStep ==
    ASSUME NEW g, NEW a, NEW v, NEW n, LoopContext(g, a, v, n), NEW entry,
           entry.logical_size = n, entry.extents = v, NEW s \in LoopStates(g, a, v, n)
    PROVE  /\ SegmentsStep(g, entry, s) \in LoopStates(g, a, v, n)
           /\ s.extent > Len(v) \/ /\ SegmentsStep(g, entry, s).extent
                                        + SegmentsStep(g, entry, s).logical
                                     >= s.extent + s.logical + 1
<1>. DEFINE e == v[s.extent]
            bytes == e.page_count * g.page_size
            physical == Smaller(g.io_segment_size, bytes - s.physical)
            logical == Smaller(physical, n - s.logical)
            item == [buffer |-> s.logical,
                     logical_length |-> logical,
                     byte_offset |-> e.first_page * g.page_size + s.physical,
                     physical_length |-> physical]
            left == [s EXCEPT !.extent = s.extent + 1, !.physical = 0]
            pushed == [s EXCEPT !.physical = s.physical + physical,
                                !.logical = s.logical + logical,
                                !.items = Append(s.items, item)]
            next == SegmentsStep(g, entry, s)
<1>1. PICK c \in 0 .. TotalPages : LoopAt(g, a, v, n, c, s)
  BY DEF LoopStates
<1>2. s \in LoopState /\ ~ s.thrown
  BY DEF LoopStates, LoopState
<1>3. s.extent \in Nat /\ s.logical \in Nat
  BY <1>2 DEF LoopState
<1>4. Len(v) \in Nat
  BY DEF LoopContext, Ordered
<1>5. CASE s.extent > Len(v)
  <2>1. next = s
    BY <1>5 DEF SegmentsStep
  <2>. QED BY <1>5, <2>1
<1>6. CASE s.extent <= Len(v) /\ s.physical >= bytes
  <2>1. ~ (s.extent > Len(v))
    BY <1>3, <1>4, <1>6
  <2>2. next = left
    BY <1>2, <1>6, <2>1 DEF SegmentsStep
  <2>3. left \in LoopStates(g, a, v, n)
    BY <1>1, <1>2, <1>6, LoopLeavesExtent
  <2>4. left.extent = s.extent + 1 /\ left.logical = s.logical
    BY <1>2 DEF LoopState
  <2>5. (s.extent + 1) + s.logical >= s.extent + s.logical + 1
    BY <1>3
  <2>. QED BY <2>2, <2>3, <2>4, <2>5
<1>7. CASE s.extent <= Len(v) /\ ~ (s.physical >= bytes)
  <2>1. ~ (s.extent > Len(v))
    BY <1>3, <1>4, <1>7
  <2>2. NextSegment(g, v, n, s, physical, logical, item)
    BY <1>7 DEF NextSegment
  <2>3. logical \in Nat \ {0} /\ pushed \in LoopStates(g, a, v, n)
    <3>. HIDE DEF physical, logical, item
    <3>. QED BY <1>1, <1>2, <1>7, <2>2, LoopPushes
  <2>4. next = pushed
    BY <1>2, <1>7, <2>1, <2>3 DEF SegmentsStep
  <2>. HIDE DEF physical, logical, item, next
  <2>5. pushed.extent = s.extent /\ pushed.logical = s.logical + logical
    BY <1>2 DEF LoopState
  <2>6. s.extent + (s.logical + logical) >= s.extent + s.logical + 1
    BY <1>3, <2>3
  <2>7. next.extent + next.logical >= s.extent + s.logical + 1
    BY <2>4, <2>5, <2>6
  <2>. QED BY <2>3, <2>4, <2>7 DEF next
<1>. QED BY <1>3, <1>4, <1>5, <1>6, <1>7

\* The function AppendSegments runs is the one its equation describes.
LEMMA LoopUnfolds ==
    ASSUME NEW g, NEW a, NEW v, NEW n, LoopContext(g, a, v, n), NEW entry,
           entry.logical_size = n, entry.extents = v
    PROVE  /\ SegmentsLoop(g, entry)[0] = SegmentsStart
           /\ \A i \in Nat : SegmentsLoop(g, entry)[i + 1]
                               = SegmentsStep(g, entry, SegmentsLoop(g, entry)[i])
<1>. DEFINE S == LoopStates(g, a, v, n)
            step == [s \in S |-> SegmentsStep(g, entry, s)]
<1>1. step \in [S -> S]
  <2>1. \A s \in S : SegmentsStep(g, entry, s) \in S
    BY LoopStep
  <2>. HIDE DEF S
  <2>. QED BY <2>1
<1>2. SegmentsStart \in S
  BY LoopStarts
<1>. HIDE DEF S
<1>3. PICK f \in [Nat -> S] : /\ f[0] = SegmentsStart
                              /\ \A i \in Nat : f[i + 1] = step[f[i]]
  <2>. HIDE DEF step
  <2>1. Runs(S, step, SegmentsStart) # {}
    BY <1>1, <1>2, IterationExists
  <2>. QED BY <2>1 DEF Runs
<1>. DEFINE Body(h) == [i \in Nat |-> IF i = 0 THEN SegmentsStart
                                      ELSE SegmentsStep(g, entry, h[i - 1])]
<1>4. f = Body(f)
  <2>1. ASSUME NEW i \in Nat
        PROVE  f[i] = IF i = 0 THEN SegmentsStart ELSE SegmentsStep(g, entry, f[i - 1])
    <3>1. CASE i = 0
      BY <3>1, <1>3
    <3>2. CASE i # 0
      <4>1. i - 1 \in Nat /\ (i - 1) + 1 = i
        BY <3>2
      <4>2. f[i] = step[f[i - 1]] /\ f[i - 1] \in S
        BY <4>1, <1>3
      <4>. QED BY <3>2, <4>2
    <3>. QED BY <3>1, <3>2
  <2>. QED BY <2>1
<1>5. SegmentsLoop(g, entry) = CHOOSE h : h = Body(h)
  BY DEF SegmentsLoop
<1>. DEFINE l == SegmentsLoop(g, entry)
<1>6. l = Body(l)
  <2>. HIDE DEF Body
  <2>. QED BY <1>4, <1>5
<1>. HIDE DEF l
<1>7. l[0] = SegmentsStart
  BY <1>6
<1>8. ASSUME NEW i \in Nat PROVE l[i + 1] = SegmentsStep(g, entry, l[i])
  <2>1. i + 1 \in Nat /\ i + 1 # 0 /\ (i + 1) - 1 = i
    OBVIOUS
  <2>. QED BY <1>6, <2>1
<1>. QED BY <1>7, <1>8 DEF l

\* Every state of the loop is in the invariant, and before the last extent is left
\* it has left an extent or moved a byte as often as it was run.
LEMMA LoopRuns ==
    ASSUME NEW g, NEW a, NEW v, NEW n, LoopContext(g, a, v, n), NEW entry,
           entry.logical_size = n, entry.extents = v, NEW i \in Nat
    PROVE  LET s == SegmentsLoop(g, entry)[i]
           IN  /\ s \in LoopStates(g, a, v, n)
               /\ s.extent > Len(v) \/ s.extent + s.logical >= i + 1
<1>. DEFINE l == SegmentsLoop(g, entry)
            T == {m \in Nat :
                    /\ l[m] \in LoopStates(g, a, v, n)
                    /\ l[m].extent > Len(v) \/ l[m].extent + l[m].logical >= m + 1}
<1>1. /\ l[0] = SegmentsStart
      /\ \A m \in Nat : l[m + 1] = SegmentsStep(g, entry, l[m])
  BY LoopUnfolds
<1>2. \A s \in LoopStates(g, a, v, n) : s.extent \in Nat /\ s.logical \in Nat
  BY DEF LoopStates, LoopState
<1>3. Len(v) \in Nat
  BY DEF LoopContext, Ordered
<1>. HIDE DEF l
<1>4. 0 \in T
  <2>1. l[0] \in LoopStates(g, a, v, n)
    BY <1>1, LoopStarts
  <2>2. l[0].extent + l[0].logical >= 0 + 1
    BY <1>1 DEF SegmentsStart
  <2>. QED BY <2>1, <2>2
<1>5. ASSUME NEW m \in Nat, m \in T PROVE m + 1 \in T
  <2>1. PICK s : s = l[m]
    OBVIOUS
  <2>2. PICK t : t = SegmentsStep(g, entry, s)
    OBVIOUS
  <2>3. l[m + 1] = t
    BY <1>1, <2>1, <2>2
  <2>4. /\ s \in LoopStates(g, a, v, n)
        /\ s.extent > Len(v) \/ s.extent + s.logical >= m + 1
    BY <1>5, <2>1
  <2>5. /\ t \in LoopStates(g, a, v, n)
        /\ s.extent > Len(v) \/ t.extent + t.logical >= s.extent + s.logical + 1
    BY <2>2, <2>4, LoopStep
  <2>6. /\ s.extent \in Nat /\ s.logical \in Nat
        /\ t.extent \in Nat /\ t.logical \in Nat
    BY <1>2, <2>4, <2>5
  <2>7. t.extent > Len(v) \/ t.extent + t.logical >= m + 2
    <3>1. CASE s.extent > Len(v)
      <4>1. t = s
        BY <2>2, <3>1 DEF SegmentsStep
      <4>. QED BY <3>1, <4>1
    <3>2. CASE ~ (s.extent > Len(v))
      <4>1. /\ t.extent + t.logical >= s.extent + s.logical + 1
            /\ s.extent + s.logical >= m + 1
        BY <2>4, <2>5, <3>2
      <4>. QED BY <2>6, <4>1
    <3>. QED BY <3>1, <3>2
  <2>8. m + 1 \in Nat /\ m + 2 = (m + 1) + 1
    OBVIOUS
  <2>9. l[m + 1].extent > Len(v) \/ l[m + 1].extent + l[m + 1].logical >= (m + 1) + 1
    BY <2>3, <2>7, <2>8
  <2>. QED BY <2>3, <2>5, <2>8, <2>9
<1>. HIDE DEF T
<1>6. i \in T
  BY <1>4, <1>5, NatInSet
<1>7. PICK s : s = l[i]
  OBVIOUS
<1>8. s \in LoopStates(g, a, v, n) /\ (s.extent > Len(v) \/ s.extent + s.logical >= i + 1)
  BY <1>6, <1>7 DEF T
<1>. QED BY <1>7, <1>8 DEF l

\* The segments of an entry: the loop ends, having thrown neither of its errors,
\* with the whole value split over all pages.
LEMMA SegmentsOfEntry ==
    ASSUME NEW g, NEW a, NEW v, NEW n, LoopContext(g, a, v, n), NEW entry,
           entry.logical_size = n, entry.extents = v
    PROVE  LET items == AppendSegments(g, entry)
           IN  /\ items \in Seq(Item)
               /\ \A i \in 1 .. Len(items) : Whole(g, items[i])
               /\ Chained(items, n)
               /\ Split(g, PagesOf(a), items)
<1>1. /\ g \in Opened /\ n \in LengthsOfPages(g, Cardinality(PagesOf(a)))
      /\ Len(v) \in Nat
  BY DEF LoopContext, Sizes, Ordered
<1>2. n \in Nat /\ n <= Cardinality(PagesOf(a)) * g.page_size
  BY <1>1, PagesFinite, LengthBounds
<1>3. Len(v) + n \in Nat
  BY <1>1, <1>2
<1>4. PICK end : end = SegmentsLoop(g, entry)[Len(v) + n]
  OBVIOUS
<1>5. /\ end \in LoopStates(g, a, v, n)
      /\ end.extent > Len(v) \/ end.extent + end.logical >= (Len(v) + n) + 1
  BY <1>3, <1>4, LoopRuns
<1>6. PICK c \in 0 .. TotalPages : LoopAt(g, a, v, n, c, end)
  BY <1>5 DEF LoopStates
<1>7. end \in LoopState
  BY <1>5 DEF LoopStates
<1>8. /\ ~ end.thrown /\ end.extent \in Nat /\ end.logical \in Nat
      /\ end.items \in Seq(Item)
  BY <1>7 DEF LoopState
<1>9. end.logical <= n
  <2>1. end.logical = Smaller(n, Cardinality(Reached(a, c)) * g.page_size)
    BY <1>6 DEF LoopAt
  <2>2. PICK p \in Nat \ {0} : p = g.page_size
    BY <1>1, OpenedGeometry
  <2>3. PICK r \in Nat : r = Cardinality(Reached(a, c))
    BY ReachedCount
  <2>4. PICK x \in Nat : x = r * p
    <3>1. r * p \in Nat
      OBVIOUS
    <3>. QED BY <3>1
  <2>5. end.logical = Smaller(n, x)
    BY <2>1, <2>2, <2>3, <2>4
  <2>. QED BY <1>2, <2>5 DEF Smaller
<1>10. end.extent = Len(v) + 1
  <2>1. end.extent \in 1 .. Len(v) + 1
    BY <1>6 DEF LoopAt
  <2>2. end.extent > Len(v)
    BY <1>1, <1>2, <1>5, <1>8, <1>9
  <2>. QED BY <1>1, <1>8, <2>1, <2>2
<1>11. Reached(a, c) = PagesOf(a)
  <2>1. c = TotalPages
    BY <1>6, <1>10 DEF LoopAt
  <2>2. \A x \in PagesOf(a) : x < TotalPages
    BY SizeAssumption DEF PagesOf, PageNumbers
  <2>. QED BY <2>1, <2>2 DEF Reached
<1>12. end.logical = n
  <2>1. end.logical = Smaller(n, Cardinality(PagesOf(a)) * g.page_size)
    BY <1>6, <1>11 DEF LoopAt
  <2>2. PICK z \in Nat : z = Cardinality(PagesOf(a)) * g.page_size
    BY <1>1, PagesFinite, LengthBounds
  <2>3. end.logical = Smaller(n, z) /\ n <= z
    BY <1>2, <2>1, <2>2
  <2>. QED BY <1>2, <2>3 DEF Smaller
<1>13. AppendSegments(g, entry) = end.items
  BY <1>4, <1>8, <1>12 DEF AppendSegments
<1>14. /\ \A i \in 1 .. Len(end.items) : Whole(g, end.items[i])
       /\ Chained(end.items, n)
       /\ Split(g, PagesOf(a), end.items)
  BY <1>6, <1>11, <1>12 DEF LoopAt
<1>. QED BY <1>8, <1>13, <1>14

-----------------------------------------------------------------------------
(* The segments of the allocations *)

\* The allocator's invariant is what the loop needs of an allocation.
LEMMA SegmentsOfAllocation ==
    ASSUME IInv, NEW g \in Opened, NEW a \in Settled, NEW n \in Sizes(g, a)
    PROVE  LET items == EntrySegments(g, a, n)
           IN  /\ items \in Seq(Item)
               /\ \A i \in 1 .. Len(items) : Whole(g, items[i])
               /\ Chained(items, n)
               /\ Split(g, PagesOf(a), items)
<1>1. a \in allocations
  BY DEF Settled
<1>2. a \in SUBSET ValidExtent /\ a # {}
  BY <1>1 DEF IInv, TypeOK
<1>3. \A d, e \in a : d # e => ~ Share(d, e)
  BY <1>1 DEF IInv, PagesPartitioned
<1>4. PICK v : v = ExtentVector(a)
  OBVIOUS
<1>5. Ordered(a, v)
  BY <1>2, <1>3, <1>4, ExtentVectorOrdered
<1>6. LoopContext(g, a, v, n)
  BY <1>2, <1>5 DEF LoopContext
<1>7. PICK entry : entry = [logical_size |-> n, extents |-> v]
  OBVIOUS
<1>8. entry.logical_size = n /\ entry.extents = v
  BY <1>7
<1>9. EntrySegments(g, a, n) = AppendSegments(g, entry)
  BY <1>4, <1>7 DEF EntrySegments
<1>. QED BY <1>6, <1>8, <1>9, SegmentsOfEntry

\* Every byte of the value and every page of the allocation once: for every bdev,
\* every fragmentation the allocator reaches and every length.
THEOREM SegmentsTransfer == Spec => []SegmentsTransferEntry
<1>1. ASSUME IInv, NEW g \in Opened, NEW a \in Settled, NEW n \in Sizes(g, a),
             NEW items, items = EntrySegments(g, a, n)
      PROVE  /\ \A i \in DOMAIN items : items[i] # ThrowItem
             /\ \A i \in DOMAIN items :
                  items[i].buffer + items[i].logical_length
                      = IF i = Len(items) THEN n ELSE items[i + 1].buffer
             /\ items # <<>> => items[1].buffer = 0
             /\ \A i, j \in DOMAIN items :
                  i # j => PagesOfItem(g, items[i]) \cap PagesOfItem(g, items[j]) = {}
             /\ UNION {PagesOfItem(g, items[i]) : i \in DOMAIN items} = PagesOf(a)
  <2>1. /\ items \in Seq(Item)
        /\ \A i \in 1 .. Len(items) : Whole(g, items[i])
        /\ Chained(items, n)
        /\ Split(g, PagesOf(a), items)
    BY <1>1, SegmentsOfAllocation
  <2>2. DOMAIN items = 1 .. Len(items)
    BY <2>1
  <2>3. ASSUME NEW i \in DOMAIN items PROVE items[i] # ThrowItem
    <3>1. items[i].logical_length # 0
      BY <2>1, <2>2 DEF Whole
    <3>. QED BY <3>1 DEF ThrowItem
  <2>4. UNION {PagesOfItem(g, items[i]) : i \in DOMAIN items} = PagesOf(a)
    <3>1. \A x \in PagesOf(a) : \E i \in DOMAIN items : x \in PagesOfItem(g, items[i])
      BY <2>1, <2>2 DEF Split
    <3>2. \A i \in DOMAIN items : \A x \in PagesOfItem(g, items[i]) : x \in PagesOf(a)
      BY <2>1, <2>2 DEF Split
    <3>. QED BY <3>1, <3>2
  <2>5. \A i, j \in DOMAIN items :
          i # j => PagesOfItem(g, items[i]) \cap PagesOfItem(g, items[j]) = {}
    BY <2>1, <2>2 DEF Split
  <2>6. /\ items # <<>> => items[1].buffer = 0
        /\ \A i \in DOMAIN items :
             items[i].buffer + items[i].logical_length
                 = IF i = Len(items) THEN n ELSE items[i + 1].buffer
    BY <2>1, <2>2 DEF Chained
  <2>. QED BY <2>3, <2>4, <2>5, <2>6
<1>2. IInv => SegmentsTransferEntry
  BY <1>1 DEF SegmentsTransferEntry
<1>. QED BY <1>2, InvariantHolds, PTL

\* A range of whole pages no longer than a segment passes validate_item and is a
\* command the bdev takes.
LEMMA WholeFits ==
    ASSUME NEW g \in Opened, NEW item \in Item, Whole(g, item)
    PROVE  /\ ValidItem(g, item)
           /\ BlockOffset(g, item) * g.block_size = item.byte_offset
           /\ BlockCount(g, item) * g.block_size = item.physical_length
           /\ BlockOffset(g, item) + BlockCount(g, item) <= g.bdev.num_blocks
           /\ BlockCount(g, item) % g.bdev.write_unit_blocks = 0
           /\ g.bdev.max_rw_blocks # 0 => BlockCount(g, item) <= g.bdev.max_rw_blocks
<1>1. PICK f \in Nat, k \in Nat \ {0} :
        /\ item.byte_offset = f * g.page_size
        /\ item.physical_length = k * g.page_size
        /\ f + k <= TotalPages
        /\ item.physical_length <= g.io_segment_size
        /\ item.logical_length # 0
        /\ item.logical_length <= item.physical_length
  BY DEF Whole
<1>2. PICK bs \in Nat \ {0} : bs = g.block_size
  BY OpenedGeometry
<1>3. PICK wu \in Nat \ {0} : wu = g.bdev.write_unit_blocks
  BY OpenedGeometry
<1>4. PICK p \in Nat \ {0} : p = g.page_size /\ p = wu * bs
  BY <1>2, <1>3, OpenedGeometry
<1>5. PICK nb \in Nat, mx \in Nat : nb = g.bdev.num_blocks /\ mx = g.bdev.max_rw_blocks
  BY OpenedGeometry
<1>6. PICK total \in Nat : total = TotalPages
  BY SizeAssumption
<1>7. g.usable_capacity_bytes = total * p /\ total * wu <= nb
  BY <1>3, <1>4, <1>5, <1>6, OpenedGeometry
<1>8. PICK segment \in Nat : segment = g.io_segment_size /\ (mx # 0 => segment <= mx * bs)
  <2>1. PICK m \in Nat \ {0} : g.io_segment_size = m * p
    BY <1>4, OpenedGeometry
  <2>2. m * p \in Nat
    OBVIOUS
  <2>. QED BY <1>2, <1>5, <2>1, <2>2, OpenedGeometry
<1>9. /\ f * p \in Nat /\ k * p \in Nat /\ total * p \in Nat
      /\ (f + k) * p = f * p + k * p /\ (f + k) * p <= total * p
  <2>1. f * p \in Nat /\ k * p \in Nat /\ (f + k) * p = f * p + k * p
    BY MultipleOrder
  <2>2. PICK h \in Nat : h = f + k
    OBVIOUS
  <2>3. total * p \in Nat /\ h * p <= total * p
    BY <1>1, <1>6, <2>2, MultipleOrder
  <2>. QED BY <2>1, <2>2, <2>3
<1>10. (f * p) % p = 0 /\ (k * p) % p = 0
  BY MultipleQuotient
<1>11. ValidItem(g, item)
  <2>1. PICK x \in Nat, y \in Nat, z \in Nat : x = f * p /\ y = k * p /\ z = total * p
    BY <1>9
  <2>2. x + y <= z
    BY <1>9, <2>1
  <2>3. x <= z /\ y <= z - x
    BY <2>2
  <2>4. /\ item.byte_offset = x /\ item.physical_length = y
        /\ x % p = 0 /\ y % p = 0 /\ g.usable_capacity_bytes = z
    BY <1>1, <1>4, <1>7, <1>10, <2>1
  <2>5. item.logical_length \in Nat /\ y >= item.logical_length
    BY <1>1, <2>4 DEF Item
  <2>6. y <= g.io_segment_size /\ item.logical_length # 0
    BY <1>1, <2>4
  <2>. QED BY <1>4, <2>3, <2>4, <2>5, <2>6 DEF ValidItem
<1>12. PICK fb \in Nat, kb \in Nat : fb = f * wu /\ kb = k * wu
  <2>1. f * wu \in Nat /\ k * wu \in Nat
    OBVIOUS
  <2>. QED BY <2>1
<1>13. f * p = fb * bs /\ k * p = kb * bs
  BY <1>4, <1>12
<1>14. BlockOffset(g, item) = fb /\ BlockCount(g, item) = kb
  <2>1. (fb * bs) \div bs = fb /\ (kb * bs) \div bs = kb
    BY MultipleQuotient
  <2>2. item.byte_offset = fb * bs /\ item.physical_length = kb * bs
    BY <1>1, <1>4, <1>13
  <2>. QED BY <1>2, <2>1, <2>2 DEF BlockOffset, BlockCount
<1>15. fb * bs = item.byte_offset /\ kb * bs = item.physical_length
  BY <1>1, <1>4, <1>13
<1>16. fb + kb <= nb
  <2>1. (f + k) * wu = fb + kb
    BY <1>12, MultipleOrder
  <2>2. PICK h \in Nat : h = f + k
    OBVIOUS
  <2>3. h * wu <= total * wu /\ h * wu \in Nat /\ total * wu \in Nat
    BY <1>1, <1>6, <2>2, MultipleOrder
  <2>. QED BY <1>7, <2>1, <2>2, <2>3
<1>17. kb % wu = 0
  BY <1>12, MultipleQuotient
<1>18. ASSUME mx # 0 PROVE kb <= mx
  <2>1. kb * bs \in Nat /\ mx * bs \in Nat /\ kb * bs <= mx * bs <=> kb <= mx
    BY MultipleOrder
  <2>2. kb * bs <= segment /\ segment <= mx * bs
    BY <1>1, <1>8, <1>15, <1>18
  <2>3. kb * bs <= mx * bs
    BY <2>1, <2>2
  <2>. QED BY <2>1, <2>3
<1>. QED BY <1>2, <1>3, <1>5, <1>11, <1>14, <1>15, <1>16, <1>17, <1>18

\* Every segment is a command the bdev takes.
THEOREM SegmentsFit == Spec => []SegmentsFitDevice
<1>1. ASSUME IInv, NEW g \in Opened, NEW a \in Settled, NEW n \in Sizes(g, a),
             NEW items, items = EntrySegments(g, a, n), NEW i \in DOMAIN items
      PROVE  items[i] \in Item /\ Whole(g, items[i])
  <2>1. /\ items \in Seq(Item)
        /\ \A j \in 1 .. Len(items) : Whole(g, items[j])
    BY <1>1, SegmentsOfAllocation
  <2>. HIDE DEF Item
  <2>2. DOMAIN items = 1 .. Len(items)
    BY <2>1
  <2>. QED BY <2>1, <2>2
<1>2. IInv => SegmentsFitDevice
  <2>. HIDE DEF Item
  <2>. QED BY <1>1, WholeFits DEF SegmentsFitDevice
<1>. QED BY <1>2, InvariantHolds, PTL
=============================================================================
