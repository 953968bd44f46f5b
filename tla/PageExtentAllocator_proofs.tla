---------------------- MODULE PageExtentAllocator_proofs ----------------------
(***************************************************************************)
(* Proofs about PageExtentAllocator for every number of pages. The argument *)
(* is one inductive invariant, IInv; its preservation is one lemma per      *)
(* action, and the listed theorems follow from it.                          *)
(***************************************************************************)
EXTENDS PageExtentAllocator, FiniteSetTheorems, WellFoundedInduction, TLAPS

-----------------------------------------------------------------------------
(* Extents and the pages they cover *)

\* The fields of an extent inside the managed range are numbers.
LEMMA ExtentFields ==
    ASSUME NEW e \in ValidExtent
    PROVE  /\ e.first_page \in Nat
           /\ e.page_count \in Nat \ {0}
           /\ End(e) \in Nat
           /\ End(e) = e.first_page + e.page_count
           /\ End(e) <= TotalPages
BY SizeAssumption DEF ValidExtent, PageExtent, Uint64, End

\* The outcomes the actions record are outcomes.
LEMMA Outcomes ==
    /\ [result |-> "ok", pages |-> 0] \in Outcome
    /\ [result |-> "refused", pages |-> 0] \in Outcome
    /\ \A n \in Uint64 : [result |-> "exhausted", pages |-> n] \in Outcome
BY SizeAssumption DEF Outcome, Uint64

\* A record within the range is such an extent.
LEMMA MakeExtent ==
    ASSUME NEW f \in Nat, NEW c \in Nat \ {0}, f + c <= TotalPages
    PROVE  [first_page |-> f, page_count |-> c] \in ValidExtent
BY SizeAssumption DEF ValidExtent, PageExtent, Uint64, End

\* The pages of a set of extents are finitely many page numbers.
LEMMA PagesFinite ==
    ASSUME NEW S
    PROVE  /\ PagesOf(S) \subseteq PageNumbers
           /\ IsFiniteSet(PagesOf(S))
           /\ Cardinality(PagesOf(S)) \in Nat
<1>1. IsFiniteSet(PageNumbers)
  BY FS_Interval, SizeAssumption DEF PageNumbers
<1>2. PagesOf(S) \subseteq PageNumbers
  BY DEF PagesOf
<1>3. IsFiniteSet(PagesOf(S))
  BY <1>1, <1>2, FS_Subset
<1>. QED
  BY <1>2, <1>3, FS_CardinalityType

\* An extent covers as many pages as it counts.
LEMMA ExtentSize ==
    ASSUME NEW e \in ValidExtent
    PROVE  Cardinality(PagesOf({e})) = e.page_count
<1>1. PagesOf({e}) = e.first_page .. (End(e) - 1)
  BY ExtentFields, SizeAssumption DEF PagesOf, Covers, PageNumbers
<1>2. /\ e.first_page \in Int
      /\ End(e) - 1 \in Int
      /\ ~ (e.first_page > End(e) - 1)
      /\ End(e) - 1 - e.first_page + 1 = e.page_count
  BY ExtentFields
<1>3. Cardinality(e.first_page .. (End(e) - 1)) = End(e) - 1 - e.first_page + 1
  BY <1>2, FS_Interval
<1>. QED
  BY <1>1, <1>2, <1>3

\* The size of two finite sets without a common element.
LEMMA DisjointSize ==
    ASSUME NEW A, IsFiniteSet(A), NEW B, IsFiniteSet(B), A \cap B = {}
    PROVE  Cardinality(A \cup B) = Cardinality(A) + Cardinality(B)
<1>1. /\ Cardinality(A) \in Nat
      /\ Cardinality(B) \in Nat
  BY FS_CardinalityType
<1>2. Cardinality(A \cup B)
        = Cardinality(A) + Cardinality(B) - Cardinality(A \cap B)
  BY FS_Union
<1>3. Cardinality(A \cap B) = 0
  BY FS_EmptySet
<1>. QED
  BY <1>1, <1>2, <1>3

\* The managed range has TotalPages pages.
LEMMA PoolSize ==
    /\ IsFiniteSet(PageNumbers)
    /\ Cardinality(PageNumbers) = TotalPages
BY FS_Interval, SizeAssumption DEF PageNumbers

-----------------------------------------------------------------------------
(* The invariant holds initially *)

\* The single extent of the constructor is coalesced and owned by nobody.
LEMMA InitIInv == Init => IInv
<1>. SUFFICES ASSUME Init PROVE IInv
  OBVIOUS
<1>. DEFINE all == [first_page |-> 0, page_count |-> TotalPages]
<1>1. all \in ValidExtent
  BY SizeAssumption, MakeExtent
<1>2. TypeOK
  BY <1>1, SizeAssumption, Outcomes DEF Init, TypeOK
<1>3. FreeSpaceCoalesced
  BY DEF Init, FreeSpaceCoalesced, Coalesced
<1>4. PagesPartitioned
  <2>1. InTransit = {}
    BY DEF Init, InTransit
  <2>2. \A p \in PageNumbers : p \in PagesOf(free_extents)
    BY SizeAssumption DEF Init, PagesOf, Covers, End, PageNumbers
  <2>. QED
    BY <2>1, <2>2 DEF Init, PagesPartitioned, PagesOf
<1>5. CountComplementsHeld
  <2>1. HeldPages = {}
    BY DEF Init, HeldPages
  <2>. QED
    BY <2>1, FS_EmptySet, SizeAssumption DEF Init, CountComplementsHeld
<1>. QED
  BY <1>2, <1>3, <1>4, <1>5 DEF Init, IInv, Scanning, Carving

-----------------------------------------------------------------------------
(* insert_free_extent_locked *)

\* Two extents without a common page are one wholly before the other.
LEMMA NotShare ==
    ASSUME NEW d \in ValidExtent, NEW e \in ValidExtent
    PROVE  Share(d, e) <=> ~ (End(d) <= e.first_page \/ End(e) <= d.first_page)
<1>1. ASSUME Share(d, e)
      PROVE  ~ (End(d) <= e.first_page \/ End(e) <= d.first_page)
  BY <1>1, ExtentFields, SizeAssumption DEF Share, Covers, PageNumbers
<1>2. ASSUME ~ (End(d) <= e.first_page \/ End(e) <= d.first_page)
      PROVE  Share(d, e)
  <2>. DEFINE p == IF d.first_page <= e.first_page THEN e.first_page
                   ELSE d.first_page
  <2>1. p \in PageNumbers
    BY ExtentFields, SizeAssumption DEF PageNumbers
  <2>2. Covers(d, p) /\ Covers(e, p)
    BY <1>2, ExtentFields DEF Covers
  <2>. QED
    BY <2>1, <2>2 DEF Share
<1>. QED
  BY <1>1, <1>2

\* Extents that are apart share no page.
LEMMA ApartNotShare ==
    ASSUME NEW d \in ValidExtent, NEW e \in ValidExtent, Apart(d, e)
    PROVE  ~ Share(d, e)
BY NotShare, ExtentFields DEF Apart

\* A free extent that ends where x begins is the one std::prev finds, and one
\* that begins where x ends is the one lower_bound finds.
LEMMA TouchingIsNeighbor ==
    ASSUME NEW S \in SUBSET ValidExtent, Coalesced(S), NEW x \in ValidExtent,
           \A e \in S : ~ Share(x, e), NEW d \in S
    PROVE  /\ End(d) = x.first_page => d \in MergePrevious(S, x)
           /\ d.first_page = End(x) => d \in MergeNext(S, x)
<1>0. \A e \in S : End(x) <= e.first_page \/ End(e) <= x.first_page
  BY NotShare
<1>1. ASSUME End(d) = x.first_page PROVE d \in MergePrevious(S, x)
  <2>1. d.first_page < x.first_page
    BY <1>1, ExtentFields
  <2>2. ASSUME NEW e \in S, e.first_page < x.first_page
        PROVE  e.first_page <= d.first_page
    BY <1>1, <2>2, ExtentFields DEF Coalesced, Apart
  <2>. QED
    BY <1>1, <2>1, <2>2 DEF MergePrevious, Previous
<1>2. ASSUME d.first_page = End(x) PROVE d \in MergeNext(S, x)
  <2>1. d.first_page >= x.first_page
    BY <1>2, ExtentFields
  <2>2. ASSUME NEW e \in S, e.first_page >= x.first_page
        PROVE  d.first_page <= e.first_page
    BY <1>0, <1>2, <2>2, ExtentFields
  <2>. QED
    BY <1>2, <2>1, <2>2 DEF MergeNext, Following
<1>. QED
  BY <1>1, <1>2

\* insert_free_extent_locked on a coalesced list and an extent outside it
\* yields a coalesced list of exactly the pages of both.
LEMMA InsertedSpec ==
    ASSUME NEW S \in SUBSET ValidExtent, Coalesced(S), NEW x \in ValidExtent,
           \A e \in S : ~ Share(x, e)
    PROVE  /\ Inserted(S, x) \subseteq ValidExtent
           /\ Coalesced(Inserted(S, x))
           /\ PagesOf(Inserted(S, x)) = PagesOf(S) \cup PagesOf({x})
<1>. DEFINE before == MergePrevious(S, x)
            after == MergeNext(S, x)
            lows == IF before = {} THEN {x.first_page}
                    ELSE {e.first_page : e \in before}
            highs == IF after = {} THEN {End(x)} ELSE {End(e) : e \in after}
<1>1. \A b \in before : b \in S /\ End(b) = x.first_page
  BY DEF MergePrevious, Previous
<1>2. \A c \in after : c \in S /\ c.first_page = End(x)
  BY DEF MergeNext, Following
<1>3. \A b, d \in before : b = d
  BY <1>1, ExtentFields DEF Coalesced, Apart
<1>4. \A c, d \in after : c = d
  BY <1>2, ExtentFields DEF Coalesced, Apart
<1>5. PICK lo \in Nat :
        /\ lows = {lo}
        /\ \/ before = {} /\ lo = x.first_page
           \/ \E b \in S : before = {b} /\ lo = b.first_page
                                        /\ End(b) = x.first_page
  <2>1. CASE before = {}
    BY <2>1, ExtentFields
  <2>2. CASE before # {}
    <3>1. PICK b \in before : TRUE
      BY <2>2
    <3>2. before = {b} /\ b \in S /\ End(b) = x.first_page
      BY <3>1, <1>1, <1>3
    <3>3. lows = {b.first_page} /\ b.first_page \in Nat
      BY <3>2, ExtentFields
    <3>. QED
      BY <3>2, <3>3
  <2>. QED
    BY <2>1, <2>2
<1>6. PICK hi \in Nat :
        /\ highs = {hi}
        /\ \/ after = {} /\ hi = End(x)
           \/ \E c \in S : after = {c} /\ hi = End(c) /\ c.first_page = End(x)
  <2>1. CASE after = {}
    BY <2>1, ExtentFields
  <2>2. CASE after # {}
    <3>1. PICK c \in after : TRUE
      BY <2>2
    <3>2. after = {c} /\ c \in S /\ c.first_page = End(x)
      BY <3>1, <1>2, <1>4
    <3>3. highs = {End(c)} /\ End(c) \in Nat
      BY <3>2, ExtentFields
    <3>. QED
      BY <3>2, <3>3
  <2>. QED
    BY <2>1, <2>2
<1>. DEFINE m == [first_page |-> lo, page_count |-> hi - lo]
            rest == S \ (before \cup after)
<1>7. Inserted(S, x) = rest \cup {m}
  <2>1. {[first_page |-> l, page_count |-> h - l] : l \in lows, h \in highs}
          = {m}
    BY <1>5, <1>6
  <2>. QED
    BY <2>1 DEF Inserted
<1>8. /\ lo <= x.first_page
      /\ End(x) <= hi
      /\ hi <= TotalPages
      /\ lo < hi
  <2>1. lo <= x.first_page
    BY <1>5, ExtentFields
  <2>2. End(x) <= hi /\ hi <= TotalPages
    BY <1>6, ExtentFields
  <2>. QED
    BY <2>1, <2>2, ExtentFields
<1>9. /\ m \in ValidExtent
      /\ m.first_page = lo
      /\ End(m) = hi
  <2>1. hi - lo \in Nat \ {0} /\ lo + (hi - lo) = hi
    BY <1>8
  <2>. QED
    BY <2>1, <1>8, MakeExtent DEF End
<1>10. \A d \in rest : End(d) < lo \/ hi < d.first_page
  <2>. SUFFICES ASSUME NEW d \in rest PROVE End(d) < lo \/ hi < d.first_page
    OBVIOUS
  <2>1. /\ d \in S
        /\ d \in ValidExtent
        /\ End(d) # x.first_page
        /\ d.first_page # End(x)
    BY TouchingIsNeighbor
  <2>2. End(x) < d.first_page \/ End(d) < x.first_page
    BY <2>1, NotShare, ExtentFields
  <2>3. CASE End(d) < x.first_page
    <3>1. ASSUME NEW b \in S, before = {b}, lo = b.first_page,
                 End(b) = x.first_page
          PROVE  End(d) < lo
      BY <2>1, <2>3, <3>1, ExtentFields DEF Coalesced, Apart
    <3>. QED
      BY <1>5, <2>3, <3>1
  <2>4. CASE End(x) < d.first_page
    <3>1. ASSUME NEW c \in S, after = {c}, hi = End(c), c.first_page = End(x)
          PROVE  hi < d.first_page
      BY <2>1, <2>4, <3>1, ExtentFields DEF Coalesced, Apart
    <3>. QED
      BY <1>6, <2>4, <3>1
  <2>. QED
    BY <2>2, <2>3, <2>4
<1>11. Inserted(S, x) \subseteq ValidExtent
  BY <1>7, <1>9
<1>12. Coalesced(Inserted(S, x))
  <2>. SUFFICES ASSUME NEW d \in rest \cup {m}, NEW e \in rest \cup {m}, d # e
                PROVE  Apart(d, e)
    BY <1>7 DEF Coalesced
  <2>. QED
    BY <1>9, <1>10 DEF Coalesced, Apart
<1>13. PagesOf(Inserted(S, x)) = PagesOf(S) \cup PagesOf({x})
  <2>1. ASSUME NEW p \in PageNumbers
        PROVE  Covers(m, p) <=> \/ Covers(x, p)
                                \/ \E e \in before \cup after : Covers(e, p)
    <3>1. Covers(m, p) <=> (lo <= p /\ p < hi)
      BY <1>9 DEF Covers
    <3>2. p \in Nat
      BY SizeAssumption DEF PageNumbers
    <3>3. (\E e \in before : Covers(e, p)) <=> (lo <= p /\ p < x.first_page)
      BY <1>5, <3>2, ExtentFields DEF Covers
    <3>4. (\E e \in after : Covers(e, p)) <=> (End(x) <= p /\ p < hi)
      BY <1>6, <3>2, ExtentFields DEF Covers
    <3>5. Covers(x, p) <=> (x.first_page <= p /\ p < End(x))
      BY DEF Covers
    <3>. QED
      BY <3>1, <3>2, <3>3, <3>4, <3>5, <1>8, ExtentFields
  <2>2. before \subseteq S /\ after \subseteq S
    BY <1>1, <1>2
  <2>. HIDE DEF before, after, m
  <2>. QED
    BY <1>7, <2>1, <2>2 DEF PagesOf
<1>. QED
  BY <1>11, <1>12, <1>13

-----------------------------------------------------------------------------
(* The invariant is preserved: one lemma per action *)

\* Steps that change no page: refusals, the end of release, stuttering.
LEMMA FrameStep ==
    ASSUME IInv,
           UNCHANGED <<free_extents, free_page_count, requested, remaining,
                       result, todo, allocations>>,
           outcome' \in Outcome,
           \/ op' = op
           \/ op = "release" /\ todo = {} /\ op' = "idle"
    PROVE  IInv' /\ AvailablePages' = AvailablePages
<1>1. TypeOK'
  BY DEF IInv, TypeOK
<1>2. InTransit' = InTransit
  BY DEF InTransit
<1>3. HeldPages' = HeldPages
  BY DEF HeldPages, Covers, End
<1>4. PagesPartitioned'
  BY <1>2 DEF IInv, PagesPartitioned, PagesOf, Share, Covers, End
<1>5. CountComplementsHeld'
  BY <1>3 DEF IInv, CountComplementsHeld
<1>6. AvailablePages' = AvailablePages
  BY <1>2 DEF AvailablePages, PagesOf, Covers, End
<1>7. Scanning' /\ Carving'
  BY <1>6 DEF IInv, Scanning, Carving, PagesOf, Share, Covers, End
<1>. QED
  BY <1>1, <1>4, <1>5, <1>6, <1>7 DEF IInv, FreeSpaceCoalesced, Coalesced, Apart, End

\* allocate passes its checks: no page moves.
LEMMA AllocateIInv ==
    ASSUME IInv, NEW n \in Uint64, Allocate(n)
    PROVE  IInv' /\ AvailablePages' = AvailablePages
<1>1. TypeOK'
  BY SizeAssumption DEF IInv, TypeOK, Allocate, Uint64
<1>2. InTransit' = InTransit
  BY DEF InTransit, Allocate
<1>3. HeldPages' = HeldPages
  BY DEF HeldPages, Allocate, Covers, End
<1>4. PagesPartitioned'
  BY <1>2 DEF IInv, Allocate, PagesPartitioned, PagesOf, Share, Covers, End
<1>5. CountComplementsHeld'
  BY <1>3 DEF IInv, CountComplementsHeld, Allocate
<1>6. PagesOf(result') = {}
  BY DEF Allocate, PagesOf
<1>7. Scanning'
  <2>1. Cardinality(PagesOf(result')) = 0
    BY <1>6, FS_EmptySet
  <2>. QED
    BY <2>1, SizeAssumption DEF IInv, TypeOK, Allocate, Scanning, Uint64
<1>8. AvailablePages' = AvailablePages
  BY <1>2 DEF Allocate, AvailablePages, PagesOf, Covers, End
<1>. QED
  BY <1>1, <1>4, <1>5, <1>7, <1>8
     DEF IInv, Allocate, Carving, FreeSpaceCoalesced, Coalesced, Apart, End

\* The scan only remembers extents, each one of the free map, none twice.
LEMMA ScanStepIInv ==
    ASSUME IInv, ScanStep
    PROVE  IInv' /\ AvailablePages' = AvailablePages
<1>. USE DEF IInv
<1>1. PICK e \in free_extents :
        /\ IsLowest(e, free_extents \ result)
        /\ LET allocated == IF remaining < e.page_count
                            THEN remaining ELSE e.page_count
               taken == [first_page |-> e.first_page, page_count |-> allocated]
           IN /\ result' = result \cup {taken}
              /\ remaining' = remaining - allocated
              /\ IF remaining = allocated
                 THEN op' = "carve" /\ todo' = result'
                 ELSE UNCHANGED <<op, todo>>
  BY DEF ScanStep
<1>. DEFINE allocated == IF remaining < e.page_count
                         THEN remaining ELSE e.page_count
            taken == [first_page |-> e.first_page, page_count |-> allocated]
<1>2. /\ op = "scan"
      /\ UNCHANGED <<free_extents, free_page_count, requested, allocations,
                     outcome>>
  BY DEF ScanStep
<1>3. /\ result \subseteq free_extents
      /\ remaining \in Nat \ {0}
      /\ requested \in Nat
      /\ requested <= free_page_count
      /\ Cardinality(PagesOf(result)) + remaining = requested
      /\ \A r \in result, d \in free_extents \ result :
            r.first_page < d.first_page
  BY <1>2 DEF Scanning, TypeOK
<1>4. /\ e \in ValidExtent
      /\ e \notin result
      /\ \A d \in free_extents \ result : e.first_page <= d.first_page
  BY <1>1 DEF IsLowest, TypeOK
<1>5. /\ allocated \in Nat \ {0}
      /\ allocated <= e.page_count
      /\ allocated <= remaining
      /\ allocated # remaining => allocated = e.page_count
  BY <1>3, <1>4, ExtentFields
<1>6. /\ taken \in ValidExtent
      /\ taken.first_page = e.first_page
      /\ taken.page_count = allocated
      /\ End(taken) = e.first_page + allocated
      /\ End(taken) <= End(e)
  <2>1. e.first_page \in Nat /\ e.first_page + allocated <= TotalPages
    BY <1>4, <1>5, ExtentFields, SizeAssumption
  <2>. QED
    BY <1>4, <1>5, <2>1, MakeExtent, ExtentFields DEF End
<1>. HIDE DEF allocated
<1>7. result' = result \cup {taken} /\ remaining' = remaining - allocated
  BY <1>1 DEF allocated
<1>. HIDE DEF taken
<1>8. PagesOf(result') = PagesOf(result) \cup PagesOf({taken})
  BY <1>7 DEF PagesOf
<1>9. PagesOf(result) \cap PagesOf({taken}) = {}
  <2>1. ASSUME NEW r \in result, NEW p \in PageNumbers,
               Covers(r, p), Covers(taken, p)
        PROVE  FALSE
    <3>1. r \in ValidExtent /\ Apart(r, e)
      BY <1>3, <1>4 DEF TypeOK, FreeSpaceCoalesced, Coalesced
    <3>. QED
      BY <2>1, <3>1, <1>4, <1>6, ExtentFields, SizeAssumption
         DEF Apart, Covers, PageNumbers
  <2>. QED
    BY <2>1 DEF PagesOf
<1>10. Cardinality(PagesOf(result')) = Cardinality(PagesOf(result)) + allocated
  BY <1>6, <1>8, <1>9, PagesFinite, DisjointSize, ExtentSize
<1>11. Cardinality(PagesOf(result)) \in Nat
  BY PagesFinite
<1>12. op' = "scan" => allocated # remaining /\ allocated = e.page_count /\ taken = e
  <2>1. op' = "scan" => allocated # remaining
    BY <1>1 DEF allocated
  <2>2. allocated = e.page_count => taken = e
    BY <1>4 DEF taken, ValidExtent, PageExtent
  <2>. QED
    BY <2>1, <2>2, <1>5
<1>13. op' \in {"scan", "carve"} /\ (op' = "carve" => allocated = remaining /\ todo' = result')
  BY <1>1, <1>2 DEF allocated
<1>14. TypeOK'
  <2>1. result' \subseteq ValidExtent
    BY <1>6, <1>7 DEF TypeOK
  <2>2. todo' \subseteq ValidExtent
    BY <1>1, <2>1 DEF TypeOK
  <2>3. remaining' \in 0 .. TotalPages
    <3>1. remaining \in Nat /\ remaining <= TotalPages
      BY DEF TypeOK
    <3>. QED
      BY <3>1, <1>5, <1>7, SizeAssumption
  <2>. QED
    BY <2>1, <2>2, <2>3, <1>2, <1>13 DEF TypeOK
<1>15. InTransit = {} /\ InTransit' = {}
  BY <1>2, <1>13 DEF InTransit
<1>16. PagesPartitioned'
  BY <1>2, <1>15 DEF PagesPartitioned, PagesOf, Share, Covers, End
<1>17. HeldPages' = HeldPages
  BY <1>2, <1>13 DEF HeldPages, Covers, End
<1>18. CountComplementsHeld'
  BY <1>2, <1>17 DEF CountComplementsHeld
<1>19. Scanning'
  <2>. SUFFICES ASSUME op' = "scan" PROVE Scanning'
    BY DEF Scanning
  <2>1. taken = e /\ allocated < remaining
    BY <1>5, <1>12, <1>3
  <2>2. result' \subseteq free_extents'
    BY <2>1, <1>2, <1>3, <1>7
  <2>3. Cardinality(PagesOf(result')) + remaining' = requested'
    BY <1>2, <1>3, <1>5, <1>7, <1>10, <1>11
  <2>4. ASSUME NEW r \in result', NEW d \in free_extents' \ result'
        PROVE  r.first_page < d.first_page
    <3>1. CASE r \in result
      BY <3>1, <2>4, <1>2, <1>3, <1>7
    <3>2. CASE r = e
      <4>1. d \in free_extents \ result /\ d # e /\ d \in ValidExtent
        BY <2>1, <2>4, <1>2, <1>7 DEF TypeOK
      <4>2. Apart(d, e) /\ e.first_page <= d.first_page
        BY <4>1, <1>4 DEF FreeSpaceCoalesced, Coalesced
      <4>. QED
        BY <3>2, <4>1, <4>2, <1>4, ExtentFields DEF Apart
    <3>. QED
      BY <2>1, <2>4, <1>7, <3>1, <3>2
  <2>. QED
    BY <2>1, <2>2, <2>3, <2>4, <1>2, <1>3, <1>5, <1>7 DEF Scanning
<1>20. Carving'
  <2>. SUFFICES ASSUME op' = "carve" PROVE Carving'
    BY DEF Carving
  <2>1. allocated = remaining /\ todo' = result'
    BY <1>13
  <2>2. Cardinality(PagesOf(result')) = requested'
    BY <2>1, <1>2, <1>3, <1>10, <1>11
  <2>3. \A r \in result' : \E d \in free_extents' :
            d.first_page = r.first_page /\ d.page_count >= r.page_count
    <3>. SUFFICES ASSUME NEW r \in result'
                  PROVE  \E d \in free_extents : /\ d.first_page = r.first_page
                                                 /\ d.page_count >= r.page_count
      BY <1>2
    <3>1. CASE r = taken
      BY <3>1, <1>4, <1>5, <1>6
    <3>2. CASE r \in result
      BY <3>2, <1>3, ExtentFields DEF TypeOK
    <3>. QED
      BY <3>1, <3>2, <1>7
  <2>4. ASSUME NEW p \in PagesOf(result'),
               NEW q \in PagesOf(free_extents') \ PagesOf(result')
        PROVE  p < q
    <3>1. p \in Nat /\ q \in Nat /\ q \in PageNumbers
      BY <2>4, SizeAssumption DEF PagesOf, PageNumbers
    <3>2. PICK d \in free_extents : Covers(d, q)
      BY <2>4, <1>2 DEF PagesOf
    <3>3. d \notin result /\ d \in ValidExtent
      BY <2>4, <3>1, <3>2, <1>7 DEF PagesOf, TypeOK
    <3>4. ASSUME NEW r \in result, Covers(r, p) PROVE p < q
      <4>1. Apart(r, d) /\ r \in ValidExtent /\ r.first_page < d.first_page
        BY <1>3, <3>3 DEF FreeSpaceCoalesced, Coalesced, TypeOK
      <4>. QED
        BY <3>1, <3>2, <3>3, <3>4, <4>1, ExtentFields DEF Apart, Covers
    <3>5. ASSUME Covers(taken, p) PROVE p < q
      <4>1. CASE d = e
        <5>1. ~ Covers(taken, q)
          BY <2>4, <3>1, <1>8 DEF PagesOf
        <5>. QED
          BY <3>1, <3>2, <3>5, <4>1, <5>1, <1>4, <1>6, ExtentFields DEF Covers
      <4>2. CASE d # e
        <5>1. Apart(d, e) /\ e.first_page <= d.first_page
          BY <3>3, <4>2, <1>4 DEF FreeSpaceCoalesced, Coalesced
        <5>. QED
          BY <3>1, <3>2, <3>3, <3>5, <5>1, <1>4, <1>6, ExtentFields
             DEF Apart, Covers
      <4>. QED
        BY <4>1, <4>2
    <3>6. \E r \in result' : Covers(r, p)
      BY <2>4 DEF PagesOf
    <3>. QED
      BY <1>7, <3>4, <3>5, <3>6
  <2>5. ASSUME NEW c \in result', NEW d \in result', c # d
        PROVE  ~ Share(c, d)
    <3>1. ASSUME NEW a \in result, NEW b \in result, a # b PROVE ~ Share(a, b)
      BY <3>1, <1>3, ApartNotShare DEF FreeSpaceCoalesced, Coalesced, TypeOK
    <3>2. ASSUME NEW a \in result PROVE ~ Share(a, taken) /\ ~ Share(taken, a)
      BY <1>9 DEF Share, PagesOf
    <3>. QED
      BY <1>7, <2>5, <3>1, <3>2
  <2>6. AvailablePages' = PagesOf(free_extents')
    BY <1>15 DEF AvailablePages, PagesOf, Covers, End
  <2>. QED
    BY <2>1, <2>2, <2>3, <2>4, <2>5, <2>6, <1>2, <1>3, <1>7
       DEF Carving, Share, Covers, End
<1>21. AvailablePages' = AvailablePages
  BY <1>2, <1>15 DEF AvailablePages, PagesOf, Covers, End
<1>. QED
  BY <1>2, <1>14, <1>16, <1>18, <1>19, <1>20, <1>21
     DEF FreeSpaceCoalesced, Coalesced, Apart, End

\* An extent of the free map is taken whole, or its head is taken and its
\* remainder, which touches no other extent, stays.
LEMMA CarveStepIInv ==
    ASSUME IInv, CarveStep
    PROVE  IInv' /\ AvailablePages' = AvailablePages
<1>. USE DEF IInv
<1>1. PICK r \in todo, e \in free_extents :
        /\ IsLowest(r, todo)
        /\ e.first_page = r.first_page
        /\ e.page_count >= r.page_count
        /\ free_extents' = (free_extents \ {e}) \cup Remainder(e, r)
        /\ todo' = todo \ {r}
  BY DEF CarveStep
<1>2. /\ op = "carve"
      /\ UNCHANGED <<free_page_count, op, requested, remaining, result,
                     allocations, outcome>>
  BY DEF CarveStep
<1>3. /\ todo \subseteq result
      /\ result # {}
      /\ \A d, f \in result : d # f => ~ Share(d, f)
      /\ \A t \in todo : \E f \in free_extents :
            f.first_page = t.first_page /\ f.page_count >= t.page_count
      /\ \A p \in PagesOf(result),
            q \in AvailablePages \ PagesOf(result) : p < q
  BY <1>2 DEF Carving
<1>4. r \in ValidExtent /\ e \in ValidExtent /\ r \in result
  BY <1>3 DEF TypeOK
<1>5. \A d \in Remainder(e, r) :
        /\ d \in ValidExtent
        /\ d.first_page = End(r)
        /\ End(d) = End(e)
  <2>. SUFFICES ASSUME e.page_count # r.page_count
                PROVE  LET d == [first_page |-> r.first_page + r.page_count,
                                 page_count |-> e.page_count - r.page_count]
                       IN /\ d \in ValidExtent
                          /\ d.first_page = End(r)
                          /\ End(d) = End(e)
    BY DEF Remainder
  <2>1. /\ r.first_page + r.page_count \in Nat
        /\ e.page_count - r.page_count \in Nat \ {0}
        /\ (r.first_page + r.page_count) + (e.page_count - r.page_count) = End(e)
        /\ End(e) <= TotalPages
    BY <1>1, <1>4, ExtentFields
  <2>. QED
    BY <2>1, MakeExtent DEF End
<1>6. \A p \in PageNumbers :
        (\E d \in Remainder(e, r) : Covers(d, p)) <=> (Covers(e, p) /\ ~ Covers(r, p))
  <2>. SUFFICES ASSUME NEW p \in PageNumbers
                PROVE  (\E d \in Remainder(e, r) : Covers(d, p))
                         <=> (Covers(e, p) /\ ~ Covers(r, p))
    OBVIOUS
  <2>0. p \in Nat
    BY SizeAssumption DEF PageNumbers
  <2>1. CASE e.page_count = r.page_count
    <3>1. Remainder(e, r) = {}
      BY <2>1 DEF Remainder
    <3>. QED
      BY <2>0, <2>1, <3>1, <1>1, <1>4, ExtentFields DEF Covers
  <2>2. CASE e.page_count # r.page_count
    <3>1. PICK d : Remainder(e, r) = {d}
      BY <2>2 DEF Remainder
    <3>2. d.first_page = End(r) /\ End(d) = End(e)
      BY <3>1, <1>5
    <3>. QED
      BY <2>0, <2>2, <3>1, <3>2, <1>1, <1>4, ExtentFields DEF Covers
  <2>. QED
    BY <2>1, <2>2
<1>7. \A d \in free_extents \ {e} : Apart(d, e)
  BY <1>1 DEF FreeSpaceCoalesced, Coalesced
<1>8. \A p \in PageNumbers : Covers(r, p) => Covers(e, p)
  <2>. SUFFICES ASSUME NEW p \in PageNumbers, Covers(r, p) PROVE Covers(e, p)
    OBVIOUS
  <2>1. p \in Nat
    BY SizeAssumption DEF PageNumbers
  <2>. QED
    BY <2>1, <1>1, <1>4, ExtentFields DEF Covers
<1>9. \A d \in free_extents \ {e}, p \in PageNumbers :
        Covers(d, p) => ~ Covers(e, p)
  BY <1>4, <1>7, ApartNotShare DEF Share, TypeOK
<1>10. PagesOf(free_extents') = PagesOf(free_extents) \ PagesOf({r})
  BY <1>1, <1>6, <1>8, <1>9 DEF PagesOf
<1>11. InTransit' = InTransit \cup {r} /\ r \notin InTransit
        /\ InTransit \subseteq result
  BY <1>1, <1>2, <1>4 DEF InTransit
<1>12. PagesOf(InTransit') = PagesOf(InTransit) \cup PagesOf({r})
  BY <1>11 DEF PagesOf
<1>13. PagesOf({r}) \subseteq PagesOf(free_extents)
  BY <1>8 DEF PagesOf
<1>14. TypeOK'
  BY <1>1, <1>2, <1>5 DEF TypeOK
<1>15. FreeSpaceCoalesced'
  <2>1. ASSUME NEW d \in free_extents \ {e}, NEW f \in Remainder(e, r)
        PROVE  Apart(d, f) /\ Apart(f, d)
    BY <1>1, <1>4, <1>5, <1>7, ExtentFields DEF Apart, TypeOK
  <2>2. \A d, f \in Remainder(e, r) : d = f
    BY DEF Remainder
  <2>3. \A d, f \in free_extents \ {e} : d # f => Apart(d, f)
    BY DEF FreeSpaceCoalesced, Coalesced
  <2>4. \A d, f \in (free_extents \ {e}) \cup Remainder(e, r) :
            d # f => Apart(d, f)
    BY <2>1, <2>2, <2>3
  <2>. QED
    BY <1>1, <2>4 DEF FreeSpaceCoalesced, Coalesced, Apart, End
<1>16. PagesPartitioned'
  <2>1. \A p \in PageNumbers :
          \/ p \in PagesOf(free_extents')
          \/ p \in PagesOf(InTransit')
          \/ \E a \in allocations : p \in PagesOf(a)
    BY <1>10, <1>12 DEF PagesPartitioned
  <2>2. PagesOf(free_extents') \cap PagesOf(InTransit') = {}
    BY <1>10, <1>12 DEF PagesPartitioned
  <2>3. \A d, f \in InTransit' : d # f => ~ Share(d, f)
    BY <1>3, <1>4, <1>11
  <2>4. \A a \in allocations :
          /\ PagesOf(a) \cap PagesOf(free_extents') = {}
          /\ PagesOf(a) \cap PagesOf(InTransit') = {}
    BY <1>10, <1>12, <1>13 DEF PagesPartitioned
  <2>5. \A a \in allocations : \A d, f \in a : d # f => ~ Share(d, f)
    BY DEF PagesPartitioned
  <2>6. \A a, b \in allocations : a # b => PagesOf(a) \cap PagesOf(b) = {}
    BY DEF PagesPartitioned
  <2>. QED
    BY <2>1, <2>2, <2>3, <2>4, <2>5, <2>6, <1>2
       DEF PagesPartitioned, PagesOf, Share, Covers, End
<1>17. CountComplementsHeld'
  <2>1. HeldPages' = HeldPages
    BY <1>2 DEF HeldPages, Covers, End
  <2>. QED
    BY <2>1, <1>2 DEF CountComplementsHeld
<1>18. AvailablePages' = AvailablePages
  <2>1. AvailablePages' = PagesOf(free_extents') \cup PagesOf(InTransit')
    BY DEF AvailablePages, PagesOf, Covers, End
  <2>2. AvailablePages = PagesOf(free_extents) \cup PagesOf(InTransit)
    BY DEF AvailablePages, PagesOf
  <2>. QED
    BY <2>1, <2>2, <1>10, <1>12, <1>13
<1>19. Carving'
  <2>1. ASSUME NEW t \in todo'
        PROVE  \E f \in free_extents' :
                  f.first_page = t.first_page /\ f.page_count >= t.page_count
    <3>1. PICK f \in free_extents :
            f.first_page = t.first_page /\ f.page_count >= t.page_count
      BY <2>1, <1>1, <1>3
    <3>2. t \in ValidExtent /\ t # r /\ t \in result
      BY <2>1, <1>1, <1>3 DEF TypeOK
    <3>3. ~ Share(t, r)
      BY <3>2, <1>3, <1>4
    <3>4. t.first_page # r.first_page
      BY <3>2, <3>3, <1>4, NotShare, ExtentFields
    <3>5. f # e
      BY <3>1, <3>4, <1>1
    <3>. QED
      BY <3>1, <3>5, <1>1
  <2>3. todo' \subseteq result
    BY <1>1, <1>3
  <2>4. /\ requested <= free_page_count
        /\ Cardinality(PagesOf(result)) = requested
    BY <1>2 DEF Carving
  <2>5. PagesOf(result)' = PagesOf(result)
    BY <1>2 DEF PagesOf, Covers, End
  <2>7. \A d, f \in result : d # f => ~ Share(d, f)
    BY <1>3
  <2>. QED
    BY <2>1, <2>3, <2>4, <2>5, <2>7, <1>2, <1>3, <1>18
       DEF Carving, Share, Covers, End
<1>20. Scanning'
  BY <1>2 DEF Scanning
<1>. QED
  BY <1>2, <1>14, <1>15, <1>16, <1>17, <1>19, <1>20, <1>18

\* The taken extents pass to the caller and the count is charged for them.
LEMMA AllocateReturnIInv ==
    ASSUME IInv, AllocateReturn
    PROVE  IInv'
<1>. USE DEF IInv
<1>1. /\ op = "carve" /\ todo = {}
      /\ free_page_count' = free_page_count - requested
      /\ allocations' = allocations \cup {result}
      /\ op' = "idle" /\ requested' = 0 /\ result' = {}
      /\ outcome' = [result |-> "ok", pages |-> 0]
      /\ UNCHANGED <<free_extents, remaining, todo>>
  BY DEF AllocateReturn
<1>2. /\ result # {}
      /\ requested <= free_page_count
      /\ Cardinality(PagesOf(result)) = requested
      /\ result \subseteq ValidExtent
      /\ requested \in Nat /\ free_page_count \in Nat
      /\ free_page_count <= TotalPages
  BY <1>1 DEF Carving, TypeOK
<1>3. TypeOK'
  BY <1>1, <1>2, SizeAssumption, Outcomes DEF TypeOK
<1>4. InTransit = result /\ InTransit' = {}
  BY <1>1 DEF InTransit
<1>5. PagesPartitioned'
  <2>1. PagesOf({}) = {}
    BY DEF PagesOf
  <2>2. \A p \in PageNumbers :
          \/ p \in PagesOf(free_extents)
          \/ \E a \in allocations' : p \in PagesOf(a)
    BY <1>1, <1>4 DEF PagesPartitioned
  <2>3. \A a \in allocations' :
          /\ PagesOf(a) \cap PagesOf(free_extents) = {}
          /\ \A d, f \in a : d # f => ~ Share(d, f)
    BY <1>1, <1>4 DEF PagesPartitioned
  <2>4. \A a, b \in allocations' : a # b => PagesOf(a) \cap PagesOf(b) = {}
    BY <1>1, <1>4 DEF PagesPartitioned
  <2>. QED
    BY <2>1, <2>2, <2>3, <2>4, <1>1, <1>4
       DEF PagesPartitioned, PagesOf, Share, Covers, End
<1>6. CountComplementsHeld'
  <2>1. HeldPages' = HeldPages \cup PagesOf(result)
    BY <1>1 DEF HeldPages, PagesOf, Covers, End
  <2>2. HeldPages \cap PagesOf(result) = {}
    <3>1. \A a \in allocations : PagesOf(a) \cap PagesOf(result) = {}
      BY <1>4 DEF PagesPartitioned
    <3>. QED
      BY <3>1, <1>1 DEF HeldPages, PagesOf
  <2>3. IsFiniteSet(HeldPages)
    <3>1. HeldPages \subseteq PageNumbers
      BY DEF HeldPages
    <3>. QED
      BY <3>1, PoolSize, FS_Subset
  <2>4. Cardinality(HeldPages \cup PagesOf(result))
          = Cardinality(HeldPages) + requested
    BY <2>2, <2>3, <1>2, PagesFinite, DisjointSize
  <2>5. Cardinality(HeldPages) \in Nat
    BY <2>3, FS_CardinalityType
  <2>6. Cardinality(HeldPages) + free_page_count = TotalPages
    BY DEF CountComplementsHeld
  <2>7. Cardinality(HeldPages') + free_page_count' = TotalPages
    BY <2>1, <2>4, <2>5, <2>6, <1>1, <1>2
  <2>. QED
    BY <2>7 DEF CountComplementsHeld
<1>7. \A a \in allocations' : a # {}
  BY <1>1, <1>2
<1>. QED
  BY <1>1, <1>3, <1>5, <1>6, <1>7
     DEF Scanning, Carving, FreeSpaceCoalesced, Coalesced, Apart, End

\* release takes one owned list from its caller, to insert it piece by piece.
LEMMA ReleaseIInv ==
    ASSUME IInv, NEW a \in allocations, Release(a)
    PROVE  IInv'
<1>. USE DEF IInv
<1>1. /\ op = "idle" /\ op' = "release" /\ todo' = a
      /\ allocations' = allocations \ {a}
      /\ UNCHANGED <<free_extents, free_page_count, requested, remaining,
                     result, outcome>>
  BY DEF Release
<1>2. TypeOK'
  BY <1>1 DEF TypeOK
<1>3. InTransit = {} /\ InTransit' = a
  BY <1>1 DEF InTransit
<1>4. PagesPartitioned'
  <2>1. /\ PagesOf(a) \cap PagesOf(free_extents) = {}
        /\ \A d, f \in a : d # f => ~ Share(d, f)
        /\ \A b \in allocations' : PagesOf(b) \cap PagesOf(a) = {}
    BY <1>1 DEF PagesPartitioned
  <2>2. \A p \in PageNumbers :
          \/ p \in PagesOf(free_extents)
          \/ p \in PagesOf(a)
          \/ \E b \in allocations' : p \in PagesOf(b)
    <3>1. PagesOf(InTransit) = {}
      BY <1>3 DEF PagesOf
    <3>. QED
      BY <3>1, <1>1 DEF PagesPartitioned
  <2>3. \A b \in allocations' :
          /\ PagesOf(b) \cap PagesOf(free_extents) = {}
          /\ \A d, f \in b : d # f => ~ Share(d, f)
    BY <1>1 DEF PagesPartitioned
  <2>4. \A b, c \in allocations' : b # c => PagesOf(b) \cap PagesOf(c) = {}
    BY <1>1 DEF PagesPartitioned
  <2>. QED
    BY <2>1, <2>2, <2>3, <2>4, <1>1, <1>3
       DEF PagesPartitioned, PagesOf, Share, Covers, End
<1>5. HeldPages' = HeldPages
  BY <1>1 DEF HeldPages, Covers, End
<1>6. CountComplementsHeld'
  BY <1>1, <1>5 DEF CountComplementsHeld
<1>. QED
  BY <1>1, <1>2, <1>4, <1>6
     DEF Scanning, Carving, FreeSpaceCoalesced, Coalesced, Apart, End

\* One owned extent joins the free map and the count: InsertedSpec.
LEMMA ReleaseStepIInv ==
    ASSUME IInv, ReleaseStep
    PROVE  IInv' /\ AvailablePages' = AvailablePages
<1>. USE DEF IInv
<1>1. PICK x \in todo :
        /\ free_extents' = Inserted(free_extents, x)
        /\ free_page_count' = free_page_count + x.page_count
        /\ todo' = todo \ {x}
  BY DEF ReleaseStep
<1>2. /\ op = "release"
      /\ UNCHANGED <<op, requested, remaining, result, allocations, outcome>>
  BY DEF ReleaseStep
<1>3. InTransit = todo /\ InTransit' = todo \ {x}
  BY <1>1, <1>2 DEF InTransit
<1>4. x \in ValidExtent /\ free_extents \in SUBSET ValidExtent
  BY DEF TypeOK
<1>5. \A e \in free_extents : ~ Share(x, e)
  BY <1>3 DEF PagesPartitioned, PagesOf, Share
<1>6. /\ free_extents' \subseteq ValidExtent
      /\ Coalesced(free_extents')
      /\ PagesOf(free_extents') = PagesOf(free_extents) \cup PagesOf({x})
  BY <1>1, <1>4, <1>5, InsertedSpec DEF FreeSpaceCoalesced
<1>7. \A e \in todo \ {x} : ~ Share(x, e)
  BY <1>3 DEF PagesPartitioned
<1>8. /\ PagesOf(todo) = PagesOf(todo \ {x}) \cup PagesOf({x})
      /\ PagesOf(todo \ {x}) \cap PagesOf({x}) = {}
  BY <1>7 DEF PagesOf, Share
<1>9. PagesPartitioned'
  <2>1. \A p \in PageNumbers :
          \/ p \in PagesOf(free_extents')
          \/ p \in PagesOf(todo \ {x})
          \/ \E a \in allocations : p \in PagesOf(a)
    BY <1>3, <1>6, <1>8 DEF PagesPartitioned
  <2>2. PagesOf(free_extents') \cap PagesOf(todo \ {x}) = {}
    BY <1>3, <1>6, <1>8 DEF PagesPartitioned
  <2>3. \A a \in allocations :
          /\ PagesOf(a) \cap PagesOf(free_extents') = {}
          /\ PagesOf(a) \cap PagesOf(todo \ {x}) = {}
    BY <1>3, <1>6, <1>8 DEF PagesPartitioned
  <2>4. /\ \A d, f \in todo \ {x} : d # f => ~ Share(d, f)
        /\ \A a \in allocations : \A d, f \in a : d # f => ~ Share(d, f)
        /\ \A a, b \in allocations : a # b => PagesOf(a) \cap PagesOf(b) = {}
    BY <1>3 DEF PagesPartitioned
  <2>. QED
    BY <2>1, <2>2, <2>3, <2>4, <1>2, <1>3
       DEF PagesPartitioned, PagesOf, Share, Covers, End
<1>10. /\ CountComplementsHeld'
       /\ free_page_count' \in 0 .. TotalPages
  <2>1. HeldPages = HeldPages' \cup PagesOf({x})
    BY <1>1, <1>2 DEF HeldPages, PagesOf, Covers, End
  <2>2. HeldPages' \cap PagesOf({x}) = {}
    <3>1. ASSUME NEW a \in allocations PROVE PagesOf(a) \cap PagesOf({x}) = {}
      BY <1>3, <1>8 DEF PagesPartitioned
    <3>2. HeldPages' = {p \in PageNumbers :
                          \/ \E a \in allocations : p \in PagesOf(a)
                          \/ p \in PagesOf(todo \ {x})}
      BY <1>1, <1>2 DEF HeldPages, PagesOf, Covers, End
    <3>. QED
      BY <1>8, <3>1, <3>2
  <2>3. IsFiniteSet(HeldPages')
    <3>1. HeldPages' \subseteq PageNumbers
      BY DEF HeldPages, PageNumbers
    <3>. QED
      BY <3>1, PoolSize, FS_Subset
  <2>4. Cardinality(HeldPages) = Cardinality(HeldPages') + x.page_count
    BY <2>1, <2>2, <2>3, <1>4, PagesFinite, ExtentSize, DisjointSize
  <2>5. Cardinality(HeldPages') \in Nat
    BY <2>3, FS_CardinalityType
  <2>6. /\ Cardinality(HeldPages) + free_page_count = TotalPages
        /\ free_page_count \in Nat
    BY DEF CountComplementsHeld, TypeOK
  <2>7. Cardinality(HeldPages') + free_page_count' = TotalPages
    BY <2>4, <2>5, <2>6, <1>1, <1>4, ExtentFields
  <2>8. free_page_count' \in Nat
    BY <2>6, <1>1, <1>4, ExtentFields
  <2>. QED
    BY <2>5, <2>7, <2>8, SizeAssumption DEF CountComplementsHeld
<1>11. TypeOK'
  BY <1>1, <1>2, <1>6, <1>10 DEF TypeOK
<1>12. FreeSpaceCoalesced'
  BY <1>6 DEF FreeSpaceCoalesced, Coalesced, Apart, End
<1>13. AvailablePages' = AvailablePages
  <2>1. AvailablePages' = PagesOf(free_extents') \cup PagesOf(todo \ {x})
    BY <1>3 DEF AvailablePages, PagesOf, Covers, End
  <2>2. AvailablePages = PagesOf(free_extents) \cup PagesOf(todo)
    BY <1>3 DEF AvailablePages, PagesOf
  <2>. QED
    BY <2>1, <2>2, <1>6, <1>8
<1>. QED
  BY <1>2, <1>9, <1>10, <1>11, <1>12, <1>13 DEF Scanning, Carving

-----------------------------------------------------------------------------
(* The invariant holds in every reachable state *)

\* Every step preserves the invariant.
LEMMA NextIInv == IInv /\ [Next]_vars => IInv'
<1>. SUFFICES ASSUME IInv, [Next]_vars PROVE IInv'
  OBVIOUS
<1>1. ASSUME NEW n \in Uint64, Allocate(n) PROVE IInv'
  BY <1>1, AllocateIInv
<1>2. ASSUME NEW n \in Uint64, AllocateExhausted(n) PROVE IInv'
  BY <1>2, FrameStep, Outcomes DEF AllocateExhausted
<1>3. CASE AllocateNothing
  BY <1>3, FrameStep, Outcomes DEF AllocateNothing
<1>4. CASE ScanStep
  BY <1>4, ScanStepIInv
<1>5. CASE CarveStep
  BY <1>5, CarveStepIInv
<1>6. CASE AllocateReturn
  BY <1>6, AllocateReturnIInv
<1>7. ASSUME NEW a \in allocations, Release(a) PROVE IInv'
  BY <1>7, ReleaseIInv
<1>8. CASE ReleaseStep
  BY <1>8, ReleaseStepIInv
<1>9. CASE ReleaseReturn
  BY <1>9, FrameStep, Outcomes DEF ReleaseReturn
<1>10. ASSUME NEW x \in PageExtent, ReleaseRefused(x) PROVE IInv'
  BY <1>10, FrameStep, Outcomes DEF ReleaseRefused
<1>11. CASE UNCHANGED vars
  BY <1>11, FrameStep DEF vars, IInv, TypeOK
<1>. QED
  BY <1>1, <1>2, <1>3, <1>4, <1>5, <1>6, <1>7, <1>8, <1>9, <1>10, <1>11
     DEF Next

\* IInv is an invariant of the specification.
THEOREM InvariantHolds == Spec => []IInv
BY InitIInv, NextIInv, PTL DEF Spec

\* Every variable of the allocator keeps its type: in particular
\* free_page_count_ never wraps below zero in allocate and never exceeds the
\* number of pages in release.
THEOREM TypeCorrect == Spec => []TypeOK
<1>1. IInv => TypeOK
  BY DEF IInv
<1>. QED
  BY <1>1, InvariantHolds, PTL

\* The free map stays disjoint and maximally coalesced, whatever sequence of
\* allocate and release calls, for a bdev of any size.
THEOREM AlwaysCoalesced == Spec => []FreeSpaceCoalesced
<1>1. IInv => FreeSpaceCoalesced
  BY DEF IInv
<1>. QED
  BY <1>1, InvariantHolds, PTL

\* No page is lost and none is given to two owners.
THEOREM NoPageLostOrShared == Spec => []PagesPartitioned
<1>1. IInv => PagesPartitioned
  BY DEF IInv
<1>. QED
  BY <1>1, InvariantHolds, PTL

\* With the lock free, or while the scan runs, the count is that of the map.
LEMMA CountIsFreePages ==
    ASSUME IInv, op \in {"idle", "scan"}
    PROVE  free_page_count = Cardinality(PagesOf(free_extents))
<1>1. PagesOf(InTransit) = {}
  BY DEF InTransit, PagesOf
<1>2. HeldPages = {p \in PageNumbers : \E a \in allocations : p \in PagesOf(a)}
  BY DEF HeldPages, PagesOf
<1>3. PagesOf(free_extents) = PageNumbers \ HeldPages
  <2>1. \A p \in PageNumbers : p \in PagesOf(free_extents) \/ p \in HeldPages
    BY <1>1, <1>2 DEF IInv, PagesPartitioned
  <2>2. PagesOf(free_extents) \cap HeldPages = {}
    BY <1>2 DEF IInv, PagesPartitioned
  <2>. QED
    BY <2>1, <2>2 DEF PagesOf
<1>4. /\ HeldPages \subseteq PageNumbers
      /\ PageNumbers \cap HeldPages = HeldPages
  BY DEF HeldPages
<1>5. Cardinality(PageNumbers \ HeldPages) = TotalPages - Cardinality(HeldPages)
  BY <1>4, PoolSize, FS_Difference
<1>6. Cardinality(HeldPages) \in Nat
  BY <1>4, PoolSize, FS_Subset, FS_CardinalityType
<1>7. /\ Cardinality(HeldPages) + free_page_count = TotalPages
      /\ free_page_count \in Nat
  BY DEF IInv, CountComplementsHeld, TypeOK
<1>. QED
  BY <1>3, <1>5, <1>6, <1>7

\* free_page_count_ is exact whenever the mutex is free.
THEOREM CountExact == Spec => []AccountingExact
<1>1. IInv => AccountingExact
  BY CountIsFreePages DEF AccountingExact
<1>. QED
  BY <1>1, InvariantHolds, PTL

\* An extent inside the range that shares no page with free space passes both
\* checks of release.
LEMMA OwnedIsAccepted ==
    ASSUME free_extents \subseteq ValidExtent, NEW x \in ValidExtent,
           \A e \in free_extents : ~ Share(x, e)
    PROVE  Accepts(x)
<1>1. ~ OutOfRange(x)
  <2>1. /\ x.page_count # 0
        /\ ~ (x.first_page > MaxUint64 - x.page_count)
    BY ExtentFields, SizeAssumption
  <2>2. End(x) % (MaxUint64 + 1) = End(x)
    BY ExtentFields, SizeAssumption
  <2>. QED
    BY <2>1, <2>2, ExtentFields, SizeAssumption DEF OutOfRange
<1>2. ASSUME NEW e \in free_extents
      PROVE  /\ e.first_page < x.first_page => End(e) <= x.first_page
             /\ e.first_page >= x.first_page => End(x) <= e.first_page
  BY <1>2, NotShare, ExtentFields
<1>3. ~ OverlapsNeighbor(free_extents, x)
  BY <1>2, ExtentFields DEF OverlapsNeighbor, Previous, Following
<1>. QED
  BY <1>1, <1>3 DEF Accepts

\* None of the throws that guard against a corrupt map or a bad release is
\* ever reached by callers that release what they were given, once.
THEOREM NoCorruption == Spec => []ThrowsUnreachable
<1>1. ASSUME IInv, op = "scan" PROVE free_extents \ result # {}
  <2>. SUFFICES ASSUME free_extents \ result = {} PROVE FALSE
    OBVIOUS
  <2>1. /\ result \subseteq free_extents
        /\ remaining \in Nat \ {0}
        /\ requested <= free_page_count
        /\ Cardinality(PagesOf(result)) + remaining = requested
    BY <1>1 DEF IInv, Scanning, TypeOK
  <2>2. result = free_extents
    BY <2>1
  <2>3. Cardinality(PagesOf(result)) = free_page_count
    BY <1>1, <2>2, CountIsFreePages
  <2>4. Cardinality(PagesOf(result)) \in Nat
    BY PagesFinite
  <2>. QED
    BY <2>1, <2>3, <2>4
<1>2. ASSUME IInv, op = "release", NEW x \in todo PROVE Accepts(x)
  <2>1. /\ free_extents \subseteq ValidExtent
        /\ x \in ValidExtent
    BY <1>2 DEF IInv, TypeOK
  <2>2. \A e \in free_extents : ~ Share(x, e)
    <3>1. InTransit = todo
      BY <1>2 DEF InTransit
    <3>. QED
      BY <1>2, <3>1 DEF IInv, PagesPartitioned, PagesOf, Share
  <2>. QED
    BY <2>1, <2>2, OwnedIsAccepted
<1>3. IInv => ThrowsUnreachable
  BY <1>1, <1>2 DEF IInv, Carving, ThrowsUnreachable
<1>. QED
  BY <1>3, InvariantHolds, PTL

-----------------------------------------------------------------------------
(* The neighbor checks *)

\* A nonempty set of naturals has a least element.
LEMMA LeastExists ==
    ASSUME NEW T \in SUBSET Nat, T # {}
    PROVE  \E m \in T : \A t \in T : m <= t
<1>1. PICK m \in T : \A t \in T : ~ (<<t, m>> \in OpToRel(<, Nat))
  BY NatLessThanWellFounded, WFMin
<1>2. \A t \in T : ~ (t < m)
  BY <1>1 DEF OpToRel
<1>. QED
  BY <1>2

\* Between calls, release refuses exactly the extents that are empty, reach
\* beyond the pool or share a page with free space, although it looks at two
\* neighbors only.
THEOREM RefusesOnlyOverlaps == Spec => []RefusalExact
<1>1. ASSUME IInv, NEW x \in PageExtent
      PROVE  Accepts(x) <=> /\ x.page_count > 0
                            /\ End(x) <= TotalPages
                            /\ \A e \in free_extents : ~ Share(x, e)
  <2>0. /\ x.first_page \in Nat /\ x.page_count \in Nat
        /\ x.first_page <= MaxUint64 /\ x.page_count <= MaxUint64
        /\ End(x) = x.first_page + x.page_count
    BY SizeAssumption DEF PageExtent, Uint64, End
  <2>1. free_extents \subseteq ValidExtent
    BY <1>1 DEF IInv, TypeOK
  <2>2. ASSUME x.page_count > 0, End(x) <= TotalPages,
               \A e \in free_extents : ~ Share(x, e)
        PROVE  Accepts(x)
    <3>1. x \in ValidExtent
      BY <2>2 DEF ValidExtent
    <3>. QED
      BY <2>1, <2>2, <3>1, OwnedIsAccepted
  <2>3. ASSUME ~ OutOfRange(x)
        PROVE  x \in ValidExtent
    <3>1. /\ x.page_count # 0
          /\ x.first_page <= MaxUint64 - x.page_count
          /\ ~ (End(x) % (MaxUint64 + 1) > TotalPages)
      BY <2>0, <2>3, SizeAssumption DEF OutOfRange
    <3>2. End(x) < MaxUint64 + 1
      BY <2>0, <3>1, SizeAssumption
    <3>3. End(x) % (MaxUint64 + 1) = End(x)
      BY <2>0, <3>2, SizeAssumption
    <3>4. x.page_count > 0 /\ End(x) <= TotalPages
      BY <2>0, <3>1, <3>3, SizeAssumption
    <3>. QED
      BY <3>4 DEF ValidExtent
  <2>4. ASSUME x \in ValidExtent, NEW e \in free_extents, Share(x, e)
        PROVE  OverlapsNeighbor(free_extents, x)
    <3>1. e \in ValidExtent /\ End(x) > e.first_page /\ End(e) > x.first_page
      BY <2>1, <2>4, NotShare, ExtentFields
    <3>2. CASE e.first_page < x.first_page
      <4>1. ASSUME NEW d \in free_extents, d.first_page < x.first_page
            PROVE  d.first_page <= e.first_page
        <5>1. d = e \/ Apart(d, e)
          BY <1>1 DEF IInv, FreeSpaceCoalesced, Coalesced
        <5>. QED
          BY <2>1, <2>4, <3>1, <4>1, <5>1, ExtentFields DEF Apart
      <4>. QED
        BY <3>1, <3>2, <4>1 DEF OverlapsNeighbor, Previous
    <3>3. CASE e.first_page >= x.first_page
      <4>. DEFINE T == {d.first_page : d \in
                          {f \in free_extents : f.first_page >= x.first_page}}
      <4>1. T \in SUBSET Nat /\ e.first_page \in T
        BY <2>1, <3>3, ExtentFields
      <4>2. PICK m \in T : \A t \in T : m <= t
        BY <4>1, LeastExists
      <4>3. PICK f \in free_extents : f.first_page >= x.first_page
                                       /\ f.first_page = m
        BY <4>2
      <4>4. \A d \in free_extents : d.first_page >= x.first_page
                                      => f.first_page <= d.first_page
        BY <4>2, <4>3
      <4>5. f \in Following(free_extents, x)
        BY <4>3, <4>4 DEF Following
      <4>6. f.first_page <= e.first_page
        BY <3>3, <4>4
      <4>7. End(x) > f.first_page
        BY <2>1, <2>4, <3>1, <4>6, ExtentFields
      <4>. QED
        BY <4>5, <4>7 DEF OverlapsNeighbor
    <3>. QED
      BY <2>0, <3>1, <3>2, <3>3, ExtentFields
  <2>5. ASSUME Accepts(x)
        PROVE  /\ x.page_count > 0
               /\ End(x) <= TotalPages
               /\ \A e \in free_extents : ~ Share(x, e)
    <3>1. x \in ValidExtent
      BY <2>3, <2>5 DEF Accepts
    <3>2. x.page_count > 0 /\ End(x) <= TotalPages
      BY <3>1 DEF ValidExtent
    <3>3. \A e \in free_extents : ~ Share(x, e)
      BY <2>4, <2>5, <3>1 DEF Accepts
    <3>. QED
      BY <3>2, <3>3
  <2>. QED
    BY <2>2, <2>5
<1>2. IInv => RefusalExact
  BY <1>1 DEF RefusalExact
<1>. QED
  BY <1>2, InvariantHolds, PTL

-----------------------------------------------------------------------------
(* The allocator implements the atomic pool *)

\* The mapped value of the abstract specification's variable held.
HeldSets == {PagesOf(a) : a \in allocations}

\* And of its variable outcome.
MappedOutcome == IF op = "release" THEN [result |-> "ok", pages |-> 0] ELSE outcome

\* The instance speaks of the same cardinality.
LEMMA SameCardinality ==
    ASSUME NEW S
    PROVE  Reservation!Cardinality(S) = Cardinality(S)
BY DEF Cardinality, Reservation!Cardinality

\* allocate takes the requested number of lowest free pages when it returns.
LEMMA AllocateReturnReserves ==
    ASSUME IInv, AllocateReturn
    PROVE  Reservation!Reserve(requested) /\ requested \in 0 .. MaxUint64
<1>1. /\ op = "carve" /\ todo = {}
      /\ allocations' = allocations \cup {result}
      /\ op' = "idle" /\ result' = {} /\ outcome' = [result |-> "ok", pages |-> 0]
      /\ UNCHANGED free_extents
  BY DEF AllocateReturn
<1>2. InTransit = result /\ InTransit' = {}
  BY <1>1 DEF InTransit
<1>3. /\ result # {} /\ result \subseteq ValidExtent
      /\ Cardinality(PagesOf(result)) = requested
      /\ \A p \in PagesOf(result), q \in AvailablePages \ PagesOf(result) : p < q
      /\ requested \in Nat /\ requested <= TotalPages
  BY <1>1 DEF IInv, Carving, TypeOK
<1>4. AvailablePages = PagesOf(free_extents) \cup PagesOf(result)
  BY <1>2 DEF AvailablePages, PagesOf
<1>5. AvailablePages' = PagesOf(free_extents)
  BY <1>1, <1>2 DEF AvailablePages, PagesOf, Covers, End
<1>6. PagesOf(free_extents) \cap PagesOf(result) = {}
  BY <1>2 DEF IInv, PagesPartitioned
<1>7. AvailablePages' = AvailablePages \ PagesOf(result)
  BY <1>4, <1>5, <1>6
<1>8. HeldSets' = HeldSets \cup {PagesOf(result)}
  BY <1>1 DEF HeldSets, PagesOf, Covers, End
<1>9. requested > 0
  <2>1. PICK e \in result : TRUE
    BY <1>3
  <2>2. e.first_page \in PagesOf(result)
    BY <1>3, <2>1, ExtentFields, SizeAssumption DEF PagesOf, Covers, PageNumbers
  <2>3. PagesOf(result) # {}
    BY <2>2
  <2>4. Cardinality(PagesOf(result)) # 0
    BY <2>3, PagesFinite, FS_EmptySet
  <2>. QED
    BY <2>4, <1>3
<1>10. PagesOf(result) \in SUBSET AvailablePages
  BY <1>4
<1>11. MappedOutcome' = [result |-> "ok", pages |-> 0]
  BY <1>1 DEF MappedOutcome
<1>. QED
  BY <1>3, <1>7, <1>8, <1>9, <1>10, <1>11, SameCardinality, SizeAssumption
     DEF Reservation!Reserve, HeldSets, MappedOutcome

\* release returns one whole reservation when it takes the lock.
LEMMA ReleaseReturns ==
    ASSUME IInv, NEW a \in allocations, Release(a)
    PROVE  Reservation!Return(PagesOf(a)) /\ PagesOf(a) \in HeldSets
<1>1. /\ op = "idle" /\ op' = "release" /\ todo' = a
      /\ allocations' = allocations \ {a}
      /\ UNCHANGED <<free_extents, outcome>>
  BY DEF Release
<1>2. InTransit = {} /\ InTransit' = a
  BY <1>1 DEF InTransit
<1>3. AvailablePages' = AvailablePages \cup PagesOf(a)
  BY <1>1, <1>2 DEF AvailablePages, PagesOf, Covers, End
<1>4. \A b \in allocations : b # a => PagesOf(b) # PagesOf(a)
  <2>. SUFFICES ASSUME NEW b \in allocations, b # a PROVE PagesOf(b) # PagesOf(a)
    OBVIOUS
  <2>1. PagesOf(b) \cap PagesOf(a) = {}
    BY DEF IInv, PagesPartitioned
  <2>2. PICK e \in a : e \in ValidExtent
    BY DEF IInv, TypeOK
  <2>3. e.first_page \in PagesOf(a)
    BY <2>2, ExtentFields, SizeAssumption DEF PagesOf, Covers, PageNumbers
  <2>. QED
    BY <2>1, <2>3
<1>5. HeldSets' = HeldSets \ {PagesOf(a)}
  <2>1. HeldSets' = {PagesOf(b) : b \in allocations \ {a}}
    BY <1>1 DEF HeldSets, PagesOf, Covers, End
  <2>. QED
    BY <2>1, <1>4 DEF HeldSets
<1>6. MappedOutcome' = [result |-> "ok", pages |-> 0]
  BY <1>1 DEF MappedOutcome
<1>. QED
  BY <1>3, <1>5, <1>6 DEF Reservation!Return, HeldSets, MappedOutcome

\* Every step of the allocator is a step of the atomic pool or changes
\* nothing a caller sees.
LEMMA StepRefines ==
    ASSUME IInv, [Next]_vars
    PROVE  [Reservation!Next]_(Reservation!vars)
<1>. DEFINE Same == /\ AvailablePages' = AvailablePages
                    /\ HeldSets' = HeldSets
                    /\ MappedOutcome' = MappedOutcome
<1>0. Same => UNCHANGED Reservation!vars
  BY DEF Reservation!vars, HeldSets, MappedOutcome
<1>. HIDE DEF Same
<1>h. ASSUME allocations' = allocations PROVE HeldSets' = HeldSets
  BY <1>h DEF HeldSets, PagesOf, Covers, End
<1>r. ASSUME UNCHANGED <<free_extents, free_page_count, op, requested,
                         remaining, result, todo, allocations>>,
             op = "idle", outcome' = [result |-> "refused", pages |-> 0]
      PROVE  Reservation!Next
  <2>1. AvailablePages' = AvailablePages
    BY <1>r, FrameStep, Outcomes
  <2>2. HeldSets' = HeldSets
    BY <1>r, <1>h
  <2>. QED
    BY <1>r, <2>1, <2>2 DEF Reservation!Next, Reservation!Refuse, HeldSets
<1>1. ASSUME NEW n \in Uint64, Allocate(n) PROVE Same
  BY <1>1, <1>h, AllocateIInv DEF Allocate, Same, MappedOutcome
<1>2. ASSUME NEW n \in Uint64, AllocateExhausted(n) PROVE Reservation!Next
  <2>1. /\ op = "idle" /\ op' = "idle" /\ n > free_page_count
        /\ outcome' = [result |-> "exhausted", pages |-> n] /\ allocations' = allocations
    BY <1>2 DEF AllocateExhausted
  <2>2. AvailablePages' = AvailablePages
    BY <1>2, FrameStep, Outcomes DEF AllocateExhausted
  <2>3. AvailablePages = PagesOf(free_extents)
    BY <2>1 DEF AvailablePages, InTransit, PagesOf
  <2>4. n > Cardinality(AvailablePages)
    BY <2>1, <2>3, CountIsFreePages
  <2>5. HeldSets' = HeldSets
    BY <2>1, <1>h
  <2>6. Reservation!Exhausted(n)
    BY <2>1, <2>2, <2>4, <2>5, SameCardinality DEF Reservation!Exhausted, HeldSets
  <2>. QED
    BY <2>6 DEF Reservation!Next, Uint64
<1>3. CASE AllocateNothing
  BY <1>3, <1>r DEF AllocateNothing
<1>4. CASE ScanStep
  <2>1. op = "scan" /\ op' # "release" /\ allocations' = allocations
        /\ outcome' = outcome
    BY <1>4 DEF ScanStep
  <2>. QED
    BY <2>1, <1>0, <1>4, <1>h, ScanStepIInv DEF Same, MappedOutcome
<1>5. CASE CarveStep
  BY <1>0, <1>5, <1>h, CarveStepIInv DEF CarveStep, Same, MappedOutcome
<1>6. CASE AllocateReturn
  BY <1>6, AllocateReturnReserves DEF Reservation!Next
<1>7. ASSUME NEW a \in allocations, Release(a) PROVE Reservation!Next
  BY <1>7, ReleaseReturns DEF Reservation!Next, HeldSets
<1>8. CASE ReleaseStep
  BY <1>0, <1>8, <1>h, ReleaseStepIInv DEF ReleaseStep, Same, MappedOutcome
<1>9. CASE ReleaseReturn
  BY <1>0, <1>9, <1>h, FrameStep, Outcomes DEF ReleaseReturn, Same, MappedOutcome
<1>10. ASSUME NEW x \in PageExtent, ReleaseRefused(x) PROVE Reservation!Next
  BY <1>10, <1>r DEF ReleaseRefused
<1>11. CASE UNCHANGED vars
  BY <1>0, <1>11, <1>h, FrameStep DEF vars, IInv, TypeOK, Same, MappedOutcome
<1>. QED
  BY <1>0, <1>1, <1>2, <1>3, <1>4, <1>5, <1>6, <1>7, <1>8, <1>9, <1>10, <1>11
     DEF Next

\* Callers of PageExtentAllocator see the atomic pool of PageReservation: each
\* reservation is the n lowest free pages, exhaustion is reported exactly when
\* fewer than n are free, and a release frees exactly what was reserved.
THEOREM RefinesReservation == Spec => ImplementsReservation
<1>1. Init => Reservation!Init
  <2>. SUFFICES ASSUME Init PROVE Reservation!Init
    OBVIOUS
  <2>0. free_extents \cup InTransit
          = {[first_page |-> 0, page_count |-> TotalPages]}
    BY DEF Init, InTransit
  <2>1. AvailablePages = PageNumbers
    <3>1. \A p \in PageNumbers :
            Covers([first_page |-> 0, page_count |-> TotalPages], p)
      BY SizeAssumption DEF Covers, End, PageNumbers
    <3>. QED
      BY <2>0, <3>1 DEF AvailablePages, PagesOf
  <2>2. HeldSets = {} /\ MappedOutcome = [result |-> "ok", pages |-> 0]
    BY DEF Init, HeldSets, MappedOutcome
  <2>. QED
    BY <2>1, <2>2 DEF Reservation!Init, Reservation!Pages, PageNumbers,
                      HeldSets, MappedOutcome
<1>2. IInv /\ [Next]_vars => [Reservation!Next]_(Reservation!vars)
  BY StepRefines
<1>. QED
  BY <1>1, <1>2, InvariantHolds, PTL
     DEF Spec, ImplementsReservation, Reservation!Spec
=============================================================================
