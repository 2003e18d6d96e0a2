------------------------- MODULE PageService_proofs -------------------------
(***************************************************************************)
(* Proofs about the page arithmetic and about PageService, for every       *)
(* number of records, page size, requested page and width of the integers. *)
(***************************************************************************)
EXTENDS PageService, FiniteSetTheorems, FunctionTheorems, SequenceTheorems, TLAPS

\* Division with remainder, the only fact about \div and % used here.
LEMMA DivMod ==
  ASSUME NEW n \in Nat, NEW d \in Nat \ {0}
  PROVE  /\ n \div d \in Nat
         /\ n % d \in 0 .. d - 1
         /\ n = (d * (n \div d)) + (n % d)
OBVIOUS

\* CalculateTotalPages is a natural number, and zero only without records.
LEMMA TotalPagesType ==
  ASSUME NEW records \in Nat, NEW size \in Nat
  PROVE  /\ CalculateTotalPages(records, size) \in Nat
         /\ (CalculateTotalPages(records, size) = 0) <=> (records = 0)
<1>1. CASE size = 0
  BY <1>1 DEF CalculateTotalPages, PageSizeNoPagging
<1>2. CASE size # 0
  <2> DEFINE q == records \div size
             r == records % size
  <2>1. q \in Nat /\ r \in 0 .. size - 1 /\ records = (size * q) + r
    BY <1>2, DivMod
  <2>2. CalculateTotalPages(records, size) = q + (IF r > 0 THEN 1 ELSE 0)
    BY <1>2 DEF CalculateTotalPages, PageSizeNoPagging
  <2>3. (q = 0 /\ r = 0) => records = 0
    BY <2>1, <1>2
  <2>4. records = 0 => (q = 0 /\ r = 0)
    <3> HIDE DEF q, r
    <3>1. ASSUME records = 0, q >= 1 PROVE FALSE
      <4>1. size * q >= size
        BY <1>2, <2>1, <3>1
      <4> QED BY <2>1, <1>2, <3>1, <4>1
    <3>2. (records = 0 /\ q = 0) => r = 0
      BY <2>1, <1>2
    <3> QED BY <3>1, <3>2, <2>1
  <2> HIDE DEF q, r
  <2> QED BY <2>1, <2>2, <2>3, <2>4
<1> QED BY <1>1, <1>2

\* The page served is one of the pages there are, or 0 without records.
LEMMA AcquiredPageRange ==
  ASSUME NEW records \in Nat, NEW size \in Nat, NEW page \in Int
  PROVE  LET acquired == CalculateAcquiredPageNumber(records, size, page)
         IN /\ acquired \in 0 .. CalculateTotalPages(records, size)
            /\ (acquired = 0) <=> (records = 0)
BY TotalPagesType DEF CalculateAcquiredPageNumber, AtMost, AtLeast

\* The pages hold every record and the last one is not superfluous.
LEMMA PagesCoverRecords ==
  ASSUME NEW records \in Nat \ {0}, NEW size \in Nat \ {0}
  PROVE  LET pages == CalculateTotalPages(records, size)
         IN /\ (pages - 1) * size < records
            /\ records <= pages * size
<1> DEFINE q == records \div size
           r == records % size
           pages == CalculateTotalPages(records, size)
<1>1. q \in Nat /\ r \in 0 .. size - 1 /\ records = (size * q) + r
  BY DivMod
<1>2. pages = q + (IF r > 0 THEN 1 ELSE 0)
  BY DEF CalculateTotalPages, PageSizeNoPagging
<1> HIDE DEF q, r, pages
<1>3. CASE r > 0
  <2>1. pages = q + 1
    BY <1>2, <1>3
  <2>2. pages - 1 = q /\ pages * size = (size * q) + size
    BY <2>1, <1>1
  <2> QED BY <2>2, <1>1, <1>3 DEF pages
<1>4. CASE r = 0
  <2>1. pages = q
    BY <1>1, <1>2, <1>4
  <2>2. (pages - 1) * size = (size * q) - size
    BY <2>1, <1>1
  <2> QED BY <2>1, <2>2, <1>1, <1>4 DEF pages
<1> QED BY <1>1, <1>3, <1>4

\* There are no more pages than records.
LEMMA FewPages ==
  ASSUME NEW records \in Nat, NEW size \in Nat
  PROVE  CalculateTotalPages(records, size) <= records
<1> DEFINE pages == CalculateTotalPages(records, size)
<1>1. pages \in Nat /\ (pages = 0 <=> records = 0)
  BY TotalPagesType
<1>2. size = 0 => pages <= 1
  BY DEF CalculateTotalPages, PageSizeNoPagging
<1>3. ASSUME size # 0, records # 0 PROVE pages <= records
  <2>1. (pages - 1) * size < records
    BY <1>3, PagesCoverRecords
  <2> HIDE DEF pages
  <2>2. pages - 1 \in Nat
    BY <1>1, <1>3
  <2>3. pages - 1 <= (pages - 1) * size
    <3>1. \A a \in Nat, b \in Nat \ {0} : a <= a * b
      OBVIOUS
    <3> QED BY <1>3, <2>2, <3>1
  <2>4. (pages - 1) * size \in Nat
    BY <2>2
  <2> QED BY <1>1, <2>1, <2>3, <2>4
<1> HIDE DEF pages
<1>4. pages <= records
  BY <1>1, <1>2, <1>3
<1> QED BY <1>4 DEF pages

\* The first record of the page served exists.
LEMMA ServedPageBegins ==
  ASSUME NEW records \in Nat \ {0}, NEW size \in Nat \ {0}, NEW page \in Int
  PROVE  LET acquired == CalculateAcquiredPageNumber(records, size, page)
         IN /\ acquired \in Nat \ {0}
            /\ (acquired - 1) * size \in Nat
            /\ (acquired - 1) * size < records
<1> DEFINE acquired == CalculateAcquiredPageNumber(records, size, page)
           pages == CalculateTotalPages(records, size)
<1>1. pages \in Nat /\ acquired \in 1 .. pages
  BY TotalPagesType, AcquiredPageRange
<1>2. (pages - 1) * size < records
  BY PagesCoverRecords
<1> HIDE DEF acquired, pages
<1>3. (acquired - 1) * size \in Nat /\ (acquired - 1) * size <= (pages - 1) * size
  <2>1. \A a, b \in Nat : a <= b => a * size <= b * size
    OBVIOUS
  <2>2. acquired - 1 \in Nat /\ pages - 1 \in Nat /\ acquired - 1 <= pages - 1
    BY <1>1
  <2> QED BY <2>1, <2>2
<1>4. (pages - 1) * size \in Int
  BY <1>1
<1>5. acquired \in Nat \ {0} /\ (acquired - 1) * size < records
  BY <1>1, <1>2, <1>3, <1>4
<1> QED BY <1>3, <1>5 DEF acquired

\* Whatever page is asked for, the page served from a non-empty source has
\* items: its first record exists (CalculateAcquiredPageNumber, ApplyPaging).
THEOREM ServedPageNotEmpty ==
  ASSUME NEW records \in Nat \ {0}, NEW size \in Nat \ {0}, NEW page \in Int
  PROVE  ApplyPaging(records, size,
                     CalculateAcquiredPageNumber(records, size, page)) # {}
<1> DEFINE acquired == CalculateAcquiredPageNumber(records, size, page)
           first == (acquired - 1) * size
<1>1. first \in Nat /\ first < records
  BY ServedPageBegins
<1> HIDE DEF first
<1>2. first + 1 \in 1 .. records
  BY <1>1
<1>3. first + 1 > first /\ first + 1 <= AtLeast(0, first) + size
  BY <1>1 DEF AtLeast
<1>4. first + 1 \in ApplyPaging(records, size, acquired)
  BY <1>2, <1>3 DEF ApplyPaging, first
<1> QED BY <1>4

-----------------------------------------------------------------------------
(* The records of a page.                                                  *)

\* Division with remainder has one quotient.
LEMMA Quotient ==
  ASSUME NEW n \in Nat, NEW d \in Nat \ {0}, NEW k \in Nat
  PROVE  n \div d = k <=> k * d <= n /\ n < k * d + d
<1> DEFINE q == n \div d
           r == n % d
<1>1. q \in Nat /\ r \in 0 .. d - 1 /\ n = (d * q) + r
  BY DivMod
<1> HIDE DEF q, r
<1>2. q = k => k * d <= n /\ n < k * d + d
  BY <1>1
<1>3. ASSUME k * d <= n, n < k * d + d PROVE q = k
  <2>1. ASSUME q < k PROVE FALSE
    <3>1. q + 1 <= k /\ q + 1 \in Nat
      BY <1>1, <2>1
    <3>2. (q + 1) * d <= k * d
      BY <3>1
    <3>3. (q + 1) * d = (d * q) + d
      BY <1>1
    <3>4. k * d \in Nat /\ d * q \in Nat
      BY <1>1
    <3> QED BY <1>1, <1>3, <3>2, <3>3, <3>4
  <2>2. ASSUME k < q PROVE FALSE
    <3>1. k + 1 <= q /\ k + 1 \in Nat
      BY <1>1, <2>2
    <3>2. (k + 1) * d <= q * d
      BY <1>1, <3>1
    <3>3. (k + 1) * d = (k * d) + d /\ q * d = d * q
      BY <1>1
    <3>4. k * d \in Nat /\ d * q \in Nat
      BY <1>1
    <3> QED BY <1>1, <1>3, <3>2, <3>3, <3>4
  <2> QED BY <1>1, <2>1, <2>2
<1> QED BY <1>2, <1>3 DEF q

\* What fits into an int is not wrapped.
LEMMA NoWrap ==
  ASSUME NEW x \in 0 .. IntMax
  PROVE  Wrap(x) = x
<1> DEFINE m == 2 * (IntMax + 1)
<1>1. IntMax \in Nat
  BY PageServiceAssumption
<1>2. x + IntMax + 1 \in Nat /\ m \in Nat \ {0} /\ x + IntMax + 1 < m
  BY <1>1
<1> HIDE DEF m
<1>3. \A y \in Nat : y < m => y % m = y
  BY <1>2
<1>4. (x + IntMax + 1) % m = x + IntMax + 1
  BY <1>2, <1>3
<1> QED BY <1>1, <1>4 DEF Wrap, m

\* Skip and Take of a page that begins within an int are the records that the
\* user counts on that page (LinqProvider.ApplyPaging).
LEMMA SliceIsPage ==
  ASSUME NEW records \in 0 .. IntMax, NEW size \in Nat \ {0}, NEW n \in Nat \ {0},
         (n - 1) * size <= IntMax
  PROVE  Slice(records, size, n) = OnPage(records, size, n)
<1> DEFINE first == (n - 1) * size
<1>0. IntMax \in Nat /\ n - 1 \in Nat
  BY PageServiceAssumption
<1>1. first \in 0 .. IntMax
  BY <1>0
<1>2. \A r \in 1 .. records : (r - 1) \div size = n - 1 <=> first <= r - 1 /\ r - 1 < first + size
  <2> SUFFICES ASSUME NEW r \in 1 .. records
               PROVE  (r - 1) \div size = n - 1 <=> first <= r - 1 /\ r - 1 < first + size
    OBVIOUS
  <2>1. r - 1 \in Nat
    BY <1>0
  <2> QED BY <1>0, <2>1, Quotient
<1>3. AtLeast(0, Skip(size, n)) = first
  <2>1. Skip(size, n) = first
    BY <1>1, NoWrap DEF Skip
  <2> HIDE DEF first
  <2> QED BY <1>1, <2>1 DEF AtLeast
<1> HIDE DEF first
<1>4. Slice(records, size, n) = {i \in 1 .. records : first < i /\ i <= first + size}
  BY <1>3 DEF Slice
<1>5. OnPage(records, size, n) = {r \in 1 .. records : first <= r - 1 /\ r - 1 < first + size}
  BY <1>2 DEF OnPage
<1>6. \A r \in 1 .. records : first < r /\ r <= first + size <=> first <= r - 1 /\ r - 1 < first + size
  BY <1>0, <1>1
<1> QED BY <1>4, <1>5, <1>6

-----------------------------------------------------------------------------
(* The handler.                                                            *)

LEMMA QueryType ==
  ASSUME NEW q \in Queries
  PROVE  /\ q.size \in 0 .. IntMax /\ q.page \in 0 .. IntMax
         /\ q.total \in BOOLEAN /\ q.matching \in 0 .. IntMax
         /\ q.size \in Nat /\ q.page \in Nat /\ q.matching \in Nat
         /\ IntMax \in Nat
<1>1. IntMax \in Nat
  BY PageServiceAssumption
<1>2. q.size \in Sizes /\ q.page \in Pages \cup {0} /\ q.total \in BOOLEAN
      /\ q.matching \in Matching
  BY DEF Queries
<1>3. Sizes \subseteq 0 .. IntMax /\ Matching \subseteq 0 .. IntMax
  BY PageServiceAssumption
<1>4. q.size \in 0 .. IntMax /\ q.matching \in 0 .. IntMax
  BY <1>2, <1>3
<1>5. q.page \in 0 .. IntMax
  BY <1>1, <1>2 DEF Pages
<1> QED BY <1>1, <1>2, <1>4, <1>5

\* A query that wants the total gets the page it is told it gets.
LEMMA PageAsSaid ==
  ASSUME NEW q \in Queries, q.total
  PROVE  LET a == BuildQuery(q)
         IN /\ a.data = OnPage(q.matching, q.size, a.page)
            /\ a.records = q.matching
            /\ a.data = {} <=> q.matching = 0
            /\ a.pages \in 0 .. IntMax /\ a.page \in 0 .. a.pages
            /\ OnPage(q.matching, q.size, a.pages + 1) = {} \/ q.size = 0
<1> DEFINE acquired == CalculateAcquiredPageNumber(q.matching, q.size, q.page)
           pages == CalculateTotalPages(q.matching, q.size)
           data == IF q.size > 0 THEN Slice(q.matching, q.size, acquired) ELSE 1 .. q.matching
<1>0. BuildQuery(q) = [data |-> data, records |-> q.matching, pages |-> pages,
                       page |-> acquired]
  BY DEF BuildQuery, Page, Counted, HasPaging, PageSizeNoPagging
<1>1. pages \in 0 .. IntMax /\ acquired \in 0 .. pages
  <2>1. pages \in Nat /\ pages <= q.matching
    BY QueryType, TotalPagesType, FewPages
  <2>2. acquired \in 0 .. pages
    <3>1. q.matching \in Nat /\ q.size \in Nat /\ q.page \in Int
      BY QueryType
    <3> QED BY <3>1, AcquiredPageRange
  <2> HIDE DEF pages, acquired
  <2> QED BY <2>1, <2>2, QueryType
<1>2. CASE q.size = 0
  <2>1. data = 1 .. q.matching
    BY <1>2
  <2>2. data = OnPage(q.matching, q.size, acquired)
    BY <1>2, <2>1 DEF OnPage
  <2>3. data = {} <=> q.matching = 0
    BY <2>1, QueryType
  <2> HIDE DEF data, pages, acquired
  <2> QED BY <1>0, <1>1, <1>2, <2>2, <2>3
<1>3. CASE q.matching = 0
  <2>1. 1 .. q.matching = {}
    BY <1>3
  <2>2. data = {} /\ \A n : OnPage(q.matching, q.size, n) = {}
    BY <2>1 DEF Slice, OnPage
  <2> HIDE DEF data, pages, acquired
  <2> QED BY <1>0, <1>1, <1>3, <2>2
<1>4. CASE q.size # 0 /\ q.matching # 0
  <2>0. q.size \in Nat \ {0} /\ q.matching \in Nat \ {0} /\ q.page \in Int
    BY <1>4, QueryType
  <2>1. /\ acquired \in Nat \ {0}
        /\ (acquired - 1) * q.size \in Nat
        /\ (acquired - 1) * q.size < q.matching
    BY <2>0, ServedPageBegins
  <2>2. data = Slice(q.matching, q.size, acquired)
    BY <2>0
  <2>3. q.matching <= pages * q.size
    BY <2>0, PagesCoverRecords
  <2> HIDE DEF data, pages, acquired
  <2>4. data = OnPage(q.matching, q.size, acquired)
    <3>1. (acquired - 1) * q.size <= IntMax
      BY <2>1, QueryType
    <3> QED BY <2>0, <2>1, <2>2, <3>1, SliceIsPage, QueryType
  <2>5. data # {}
    <3> DEFINE first == (acquired - 1) * q.size
    <3>1. first \in Nat /\ first < q.matching
      BY <2>1
    <3>2. acquired - 1 \in Nat
      BY <2>1
    <3> HIDE DEF first
    <3>3. first + 1 \in 1 .. q.matching /\ (first + 1) - 1 = first
      BY <2>0, <3>1
    <3>4. first \div q.size = acquired - 1
      BY <2>0, <3>1, <3>2, Quotient DEF first
    <3>5. first + 1 \in OnPage(q.matching, q.size, acquired)
      BY <2>0, <3>3, <3>4 DEF OnPage
    <3> QED BY <2>4, <3>5
  <2>6. OnPage(q.matching, q.size, pages + 1) = {}
    <3> SUFFICES ASSUME NEW r \in 1 .. q.matching, (r - 1) \div q.size = pages
                 PROVE  FALSE
      BY <1>1, <2>0 DEF OnPage
    <3>1. r - 1 \in Nat /\ r \in Nat /\ r <= q.matching /\ pages \in Nat
      BY <1>1, <2>0
    <3>2. pages * q.size <= r - 1
      BY <2>0, <3>1, Quotient
    <3>3. pages * q.size \in Nat
      BY <2>0, <3>1
    <3> QED BY <2>0, <2>3, <3>1, <3>2, <3>3
  <2>7. data = {} <=> q.matching = 0
    BY <1>4, <2>5
  <2> QED BY <1>0, <1>1, <2>4, <2>6, <2>7
<1> QED BY <1>2, <1>3, <1>4, QueryType

\* Any answer has its type.
LEMMA AnswerType ==
  ASSUME NEW q \in Queries, Answer(q) # Exception
  PROVE  /\ Answer(q) = BuildQuery(q)
         /\ Answer(q).data \subseteq 1 .. q.matching
         /\ Answer(q).data \subseteq 1 .. IntMax
         /\ {Answer(q).records, Answer(q).pages, Answer(q).page} \subseteq 0 .. IntMax
<1>1. Answer(q) = BuildQuery(q)
  BY DEF Answer
<1>2. BuildQuery(q).data \subseteq 1 .. q.matching
  BY DEF BuildQuery, Page, Slice
<1>3. 1 .. q.matching \subseteq 1 .. IntMax
  BY QueryType
<1>4. CASE q.total
  <2>1. /\ BuildQuery(q).records = q.matching
        /\ BuildQuery(q).pages \in 0 .. IntMax
        /\ BuildQuery(q).page \in 0 .. BuildQuery(q).pages
    BY <1>4, PageAsSaid
  <2>2. BuildQuery(q).page \in 0 .. IntMax
    BY <2>1, QueryType
  <2> QED BY <1>1, <1>2, <1>3, <2>1, <2>2, QueryType
<1>5. CASE ~q.total
  <2>1. BuildQuery(q).records = 0 /\ BuildQuery(q).pages = 0 /\ BuildQuery(q).page = 0
    BY <1>5 DEF BuildQuery, Page, Counted
  <2> QED BY <1>1, <1>2, <1>3, <2>1, QueryType
<1> QED BY <1>4, <1>5, QueryType

\* Who asks for the first page is served no other, and a total of 0 means that
\* nothing is served.
LEMMA ServedForFirst ==
  ASSUME NEW q \in Queries, q.total, Answer(q) # Exception
  PROVE  /\ q.page = 1 => Answer(q).page <= 1
         /\ Answer(q).records = 0 => Answer(q).data = {}
<1>1. Answer(q) = BuildQuery(q)
  BY AnswerType
<1>2. Answer(q).records = 0 => Answer(q).data = {}
  BY <1>1, PageAsSaid
<1>3. Answer(q).page = CalculateAcquiredPageNumber(q.matching, q.size, q.page)
  BY <1>1 DEF BuildQuery, Page, Counted
<1>4. CalculateTotalPages(q.matching, q.size) \in Nat
  BY QueryType, TotalPagesType
<1>5. q.page = 1 => Answer(q).page <= 1
  BY <1>3, <1>4 DEF CalculateAcquiredPageNumber, AtMost, AtLeast
<1> QED BY <1>2, <1>5

\* What is served as the first page to one who asked for a later one is all
\* there is.
LEMMA ServedForLater ==
  ASSUME NEW q \in Queries, q.total, Answer(q) # Exception, q.page # 1, Answer(q).page = 1
  PROVE  Answer(q).data = 1 .. q.matching
<1> DEFINE pages == CalculateTotalPages(q.matching, q.size)
<1>1. Answer(q).data = OnPage(q.matching, q.size, 1)
  BY AnswerType, PageAsSaid
<1>2. Answer(q).page = CalculateAcquiredPageNumber(q.matching, q.size, q.page)
  BY AnswerType DEF BuildQuery, Page, Counted
<1>3. q.page >= 2 /\ q.page \in Nat
  BY QueryType DEF Answer, ValidQuery
<1>4. q.matching # 0 /\ pages = 1
  <2>1. pages \in Nat
    BY QueryType, TotalPagesType
  <2>2. q.matching # 0
    BY <1>2 DEF CalculateAcquiredPageNumber
  <2>3. 1 = AtMost(pages, AtLeast(1, q.page))
    BY <1>2, <2>2 DEF CalculateAcquiredPageNumber
  <2> HIDE DEF pages
  <2> QED BY <1>3, <2>1, <2>2, <2>3 DEF AtMost, AtLeast
<1>5. CASE q.size = 0
  BY <1>1, <1>5 DEF OnPage
<1>6. CASE q.size # 0
  <2>1. q.matching <= q.size /\ q.size \in Nat \ {0} /\ q.matching \in Nat
    <3>1. q.matching \in Nat \ {0} /\ q.size \in Nat \ {0}
      BY <1>4, <1>6, QueryType
    <3>2. q.matching <= pages * q.size
      BY <3>1, PagesCoverRecords
    <3> HIDE DEF pages
    <3> QED BY <1>4, <3>1, <3>2
  <2>2. ASSUME NEW r \in 1 .. q.matching PROVE (r - 1) \div q.size = 1 - 1
    <3>1. r - 1 \in Nat /\ 0 * q.size <= r - 1 /\ r - 1 < 0 * q.size + q.size
      BY <2>1
    <3>2. (r - 1) \div q.size = 0
      BY <2>1, <3>1, Quotient
    <3> QED BY <3>2
  <2> QED BY <1>1, <1>6, <2>2 DEF OnPage
<1> QED BY <1>5, <1>6

-----------------------------------------------------------------------------
(* The items of the list.                                                  *)

\* Numbers are counted off: of a finite set there is one with i of them up to
\* it.  Counting is one to one into as many ranks, so it takes every rank.
LEMMA Ranked ==
  ASSUME NEW S \in SUBSET Nat, IsFiniteSet(S), NEW i \in 1 .. Cardinality(S)
  PROVE  \E x \in S : Cardinality({y \in S : y <= x}) = i
<1> DEFINE UpTo(x) == {y \in S : y <= x}
           ranks == 1 .. Cardinality(S)
           rank == [x \in S |-> Cardinality(UpTo(x))]
<1>1. Cardinality(S) \in Nat
  BY FS_CardinalityType
<1>2. \A x \in S : IsFiniteSet(UpTo(x)) /\ Cardinality(UpTo(x)) \in ranks
  <2> SUFFICES ASSUME NEW x \in S
               PROVE  IsFiniteSet(UpTo(x)) /\ Cardinality(UpTo(x)) \in ranks
    OBVIOUS
  <2>1. UpTo(x) \in SUBSET S /\ UpTo(x) # {}
    OBVIOUS
  <2> HIDE DEF UpTo
  <2>2. IsFiniteSet(UpTo(x)) /\ Cardinality(UpTo(x)) <= Cardinality(S)
    BY <2>1, FS_Subset
  <2>3. Cardinality(UpTo(x)) \in Nat /\ Cardinality(UpTo(x)) # 0
    BY <2>1, <2>2, FS_CardinalityType, FS_EmptySet
  <2> QED BY <1>1, <2>2, <2>3
<1>3. \A x, y \in S : x < y => rank[x] # rank[y]
  <2> SUFFICES ASSUME NEW x \in S, NEW y \in S, x < y
               PROVE  Cardinality(UpTo(x)) # Cardinality(UpTo(y))
    OBVIOUS
  <2>1. UpTo(x) \in SUBSET UpTo(y)
    <3>1. \A z \in S : z <= x => z <= y
      OBVIOUS
    <3> QED BY <3>1
  <2>2. y \in UpTo(y) /\ y \notin UpTo(x)
    OBVIOUS
  <2>3. IsFiniteSet(UpTo(y))
    BY <1>2
  <2> HIDE DEF UpTo
  <2> QED BY <2>1, <2>2, <2>3, FS_Subset
<1>4. rank \in Injection(S, ranks)
  <2>1. rank \in [S -> ranks]
    BY <1>2
  <2>2. \A x, y \in S : rank[x] = rank[y] => x = y
    <3>1. \A x, y \in S : x = y \/ x < y \/ y < x
      OBVIOUS
    <3> HIDE DEF rank
    <3> QED BY <1>3, <3>1
  <2> HIDE DEF rank, ranks
  <2> QED BY <2>1, <2>2 DEF Injection, IsInjective
<1>5. IsFiniteSet(ranks) /\ Cardinality(ranks) = Cardinality(S)
  BY <1>1, FS_Interval
<1>6. rank \in Surjection(S, ranks)
  <2> HIDE DEF rank, ranks
  <2> QED BY <1>4, <1>5, FS_Injection
<1>7. PICK x \in S : rank[x] = i
  <2> HIDE DEF rank
  <2> QED BY <1>6 DEF Surjection
<1> QED BY <1>7

\* There are as many items as records, and each is one of them.
LEMMA SortedIs ==
  ASSUME NEW S \in SUBSET Nat, IsFiniteSet(S)
  PROVE  /\ Sorted(S) \in Seq(Nat)
         /\ Len(Sorted(S)) = Cardinality(S)
<1>1. Cardinality(S) \in Nat
  BY FS_CardinalityType
<1>2. ASSUME NEW i \in 1 .. Cardinality(S)
      PROVE  (CHOOSE x \in S : Cardinality({y \in S : y <= x}) = i) \in S
  BY <1>2, Ranked
<1>3. Sorted(S) \in [1 .. Cardinality(S) -> Nat]
  BY <1>2 DEF Sorted
<1> QED BY <1>1, <1>3

\* Adding an item at the top.
LEMMA Prepend ==
  ASSUME NEW X, NEW s \in Seq(X), NEW a
  PROVE  /\ <<a>> \o s \in Seq(X \cup {a})
         /\ Len(<<a>> \o s) = Len(s) + 1
         /\ (<<a>> \o s)[1] = a
         /\ \A i \in 2 .. Len(s) + 1 : (<<a>> \o s)[i] = s[i - 1]
<1>1. <<a>> \in Seq(X \cup {a}) /\ s \in Seq(X \cup {a}) /\ Len(<<a>>) = 1
  OBVIOUS
<1> QED BY <1>1, ConcatProperties

\* Where [All] is among the items that a page becomes.
LEMMA AllIsOnTop ==
  ASSUME NEW q \in Queries, NEW data \in SUBSET (1 .. IntMax), IsFiniteSet(data), NEW n
  PROVE  LET items == WithAll(PageItems(q, data), n)
         IN /\ items \in Seq(Nat \cup {All})
            /\ \A i \in 1 .. Len(items) :
                 items[i] = All => i = 1 /\ AddAll /\ (q.page = 1 \/ n = 1)
            /\ AddAll /\ n = 1 /\ (q.page = 1 \/ Cardinality(data) > 1) => items[1] = All
            /\ data = {} => Len(PageItems(q, data)) \in 0 .. 1
<1> DEFINE sorted == Sorted(data)
           given == PageItems(q, data)
           items == WithAll(given, n)
<1>0. IntMax \in Nat /\ AddAll \in BOOLEAN /\ All \notin Nat
  BY PageServiceAssumption
<1>1. sorted \in Seq(Nat) /\ Len(sorted) \in Nat /\ (data = {} => Len(sorted) = 0)
  <2>1. data \in SUBSET Nat
    BY <1>0
  <2>2. sorted \in Seq(Nat) /\ Len(sorted) = Cardinality(data)
    BY <2>1, SortedIs
  <2>3. data = {} => Cardinality(data) = 0
    BY FS_EmptySet
  <2> HIDE DEF sorted
  <2> QED BY <2>1, <2>2, <2>3
<1>6. Len(sorted) = Cardinality(data)
  BY <1>0, SortedIs
<1> HIDE DEF sorted
<1>2. /\ \A i \in 1 .. Len(sorted) : sorted[i] # All
      /\ sorted \in Seq(Nat \cup {All})
  BY <1>0, <1>1
<1> DEFINE topped == <<All>> \o sorted
<1>3. /\ topped \in Seq(Nat \cup {All})
      /\ Len(topped) = Len(sorted) + 1
      /\ topped[1] = All
      /\ \A i \in 1 .. Len(topped) : topped[i] = All => i = 1
  <2>1. /\ topped \in Seq(Nat \cup {All})
        /\ Len(topped) = Len(sorted) + 1
        /\ topped[1] = All
        /\ \A i \in 2 .. Len(sorted) + 1 : topped[i] = sorted[i - 1]
    BY <1>1, Prepend
  <2> HIDE DEF topped
  <2>2. \A i \in 2 .. Len(sorted) + 1 : i - 1 \in 1 .. Len(sorted)
    BY <1>1
  <2>3. \A i \in 2 .. Len(sorted) + 1 : topped[i] # All
    BY <1>2, <2>1, <2>2
  <2>4. \A i \in 1 .. Len(sorted) + 1 : i = 1 \/ i \in 2 .. Len(sorted) + 1
    BY <1>1
  <2> QED BY <2>1, <2>3, <2>4
<1>4. CASE AddAll /\ q.page = 1
  <2>1. given = topped
    BY <1>4 DEF PageItems, sorted
  <2> HIDE DEF topped, given
  <2>2. items = topped
    BY <1>3, <2>1 DEF WithAll
  <2> HIDE DEF items
  <2>3. data = {} => Len(given) \in 0 .. 1
    BY <1>1, <1>3, <2>1
  <2> QED BY <1>3, <1>4, <2>2, <2>3 DEF items, given
<1>5. CASE ~(AddAll /\ q.page = 1)
  <2>1. given = sorted
    <3>1. given = <<>> \o sorted
      BY <1>5 DEF PageItems, sorted
    <3> QED BY <1>1, <3>1
  <2>2. ASSUME Len(sorted) >= 1 PROVE sorted[1] # All
    <3>1. 1 \in 1 .. Len(sorted)
      BY <1>1, <2>2
    <3> QED BY <1>2, <3>1
  <2> HIDE DEF topped, given
  <2>3. CASE AddAll /\ n = 1 /\ Len(sorted) > 1
    <3>1. items = <<All>> \o sorted
      BY <1>1, <2>1, <2>2, <2>3 DEF WithAll
    <3>2. items = topped
      BY <3>1 DEF topped
    <3> HIDE DEF items
    <3>3. data = {} => Len(given) \in 0 .. 1
      BY <1>1, <2>1
    <3> QED BY <1>3, <2>3, <3>2, <3>3 DEF items, given
  <2>4. CASE ~(AddAll /\ n = 1 /\ Len(sorted) > 1)
    <3>1. items = sorted /\ (data = {} => Len(given) \in 0 .. 1)
      BY <1>1, <2>1, <2>4 DEF WithAll
    <3>2. ~(AddAll /\ n = 1 /\ (q.page = 1 \/ Cardinality(data) > 1))
      BY <1>5, <1>6, <2>4
    <3> HIDE DEF items
    <3> QED BY <1>1, <1>2, <3>1, <3>2 DEF items, given
  <2> QED BY <2>3, <2>4
<1> QED BY <1>4, <1>5

-----------------------------------------------------------------------------
(* The invariant.                                                          *)

IInv == TypeOK /\ ServedAsSaid /\ OneAllOnFirstPage

LEMMA InitInv == Init => IInv
<1> SUFFICES ASSUME Init PROVE IInv
  OBVIOUS
<1> USE DEF Init, NoQuery, NoPage
<1>0. IntMax \in Nat \ {0}
  BY PageServiceAssumption
<1>1. TypeOK
  BY <1>0 DEF TypeOK
<1>2. ServedAsSaid
  <2>1. 1 .. 0 = {}
    OBVIOUS
  <2>2. \A n : OnPage(0, 0, n) = {}
    BY <2>1 DEF OnPage
  <2> QED BY <2>2 DEF ServedAsSaid
<1>3. OneAllOnFirstPage
  BY DEF OneAllOnFirstPage
<1> QED BY <1>1, <1>2, <1>3 DEF IInv

\* The answer to any query is as said, and so is what is made of it.
LEMMA AnswerIsAsSaid ==
  ASSUME NEW q \in Queries, query' = q, answer' = Answer(q)
  PROVE  /\ query' \in Queries
         /\ answer' # Exception =>
              /\ answer'.data \subseteq 1 .. IntMax
              /\ {answer'.records, answer'.pages, answer'.page} \subseteq 0 .. IntMax
         /\ ServedAsSaid'
<1>1. answer' # Exception =>
        /\ answer'.data \subseteq 1 .. IntMax
        /\ {answer'.records, answer'.pages, answer'.page} \subseteq 0 .. IntMax
  BY AnswerType
<1>2. ASSUME answer' # Exception, q.total
      PROVE  /\ answer'.data = OnPage(q.matching, q.size, answer'.page)
             /\ answer'.records = q.matching
             /\ answer'.data = {} <=> q.matching = 0
             /\ answer'.page <= answer'.pages
             /\ OnPage(q.matching, q.size, answer'.pages + 1) = {} \/ q.size = 0
  <2>1. answer' = BuildQuery(q)
    BY <1>2, AnswerType
  <2> QED BY <1>2, <2>1, PageAsSaid
<1> QED BY <1>1, <1>2 DEF ServedAsSaid

LEMMA NextInv == IInv /\ [Next]_vars => IInv'
<1> SUFFICES ASSUME IInv, [Next]_vars PROVE IInv'
  OBVIOUS
<1> USE DEF IInv
<1>0. IntMax \in Nat \ {0} /\ AddAll \in BOOLEAN
  BY PageServiceAssumption
<1>1. ASSUME NEW q \in Queries, Ask(q) PROVE IInv'
  <2>1. query' = q /\ answer' = Answer(q) /\ model' = model
    BY <1>1 DEF Ask
  <2>2. TypeOK' /\ ServedAsSaid'
    BY <2>1, AnswerIsAsSaid DEF TypeOK
  <2>3. OneAllOnFirstPage'
    BY <2>1 DEF OneAllOnFirstPage
  <2> QED BY <2>2, <2>3
<1>2. ASSUME NEW q \in Queries, FetchPage(q) PROVE IInv'
  <2>1. query' = q /\ answer' = Answer(q) /\ q.total
    BY <1>2 DEF FetchPage
  <2>2. CASE answer' = Exception
    <3>1. model' = model
      BY <1>2, <2>2 DEF FetchPage
    <3>2. TypeOK' /\ ServedAsSaid'
      BY <2>1, <3>1, AnswerIsAsSaid DEF TypeOK
    <3>3. OneAllOnFirstPage'
      BY <3>1 DEF OneAllOnFirstPage
    <3> QED BY <3>2, <3>3
  <2>3. CASE answer' # Exception
    <3> DEFINE data == answer'.data
               n == answer'.page
               items == WithAll(PageItems(q, data), n)
    <3>1. model' = SetItems(PageItems(q, data), n, answer'.pages, answer'.records)
      BY <1>2, <2>3 DEF FetchPage
    <3>2. /\ data \subseteq 1 .. IntMax
          /\ n \in 0 .. IntMax /\ answer'.pages \in 0 .. IntMax
          /\ answer'.records \in 0 .. IntMax
      BY <2>1, <2>3, AnswerType
    <3>3. IsFiniteSet(data)
      <4>1. IsFiniteSet(1 .. IntMax)
        BY <1>0, FS_Interval
      <4> QED BY <3>2, <4>1, FS_Subset
    <3>4. /\ items \in Seq(Nat \cup {All})
          /\ \A i \in 1 .. Len(items) :
               items[i] = All => i = 1 /\ AddAll /\ (q.page = 1 \/ n = 1)
          /\ AddAll /\ n = 1 /\ (q.page = 1 \/ Cardinality(data) > 1) => items[1] = All
          /\ data = {} => Len(PageItems(q, data)) \in 0 .. 1
      BY <3>2, <3>3, AllIsOnTop
    <3>5. /\ q.page = 1 => n <= 1
          /\ answer'.records = 0 => data = {}
      BY <2>1, <2>3, ServedForFirst
    <3> HIDE DEF data, n, items
    <3>6. model' = [items |-> items, page |-> n, pages |-> answer'.pages,
                    records |-> IF answer'.records = 0 THEN Len(PageItems(q, data))
                                ELSE answer'.records,
                    selected |-> {}]
      BY <3>1 DEF SetItems, items
    <3>7. answer'.records = 0 => Len(PageItems(q, data)) \in 0 .. 1
      BY <3>4, <3>5
    <3>8. ASSUME n = 1, model'.records > 1 PROVE q.page = 1 \/ Cardinality(data) > 1
      <4> SUFFICES ASSUME q.page # 1 PROVE Cardinality(data) > 1
        OBVIOUS
      <4>1. data = 1 .. q.matching
        BY <2>1, <2>3, <3>8, ServedForLater DEF data, n
      <4>2. q.matching \in Nat /\ answer'.records = q.matching
        BY <2>1, <2>3, AnswerType, PageAsSaid, QueryType
      <4>3. q.matching > 1
        <5>1. answer'.records = 0 => model'.records \in 0 .. 1
          BY <3>6, <3>7
        <5>2. answer'.records # 0 => model'.records = q.matching
          BY <3>6, <4>2
        <5> HIDE DEF data, n
        <5> QED BY <3>8, <4>2, <5>1, <5>2
      <4>4. Cardinality(1 .. q.matching) = q.matching
        BY <4>2, FS_Interval
      <4> QED BY <4>1, <4>3, <4>4
    <3>9. TypeOK'
      <4>1. {model'.page, model'.pages, model'.records} \subseteq 0 .. IntMax + 1
        BY <1>0, <3>2, <3>6, <3>7
      <4>2. model'.items \in Seq(Nat \cup {All}) /\ model'.selected = {}
        BY <3>4, <3>6
      <4> QED BY <2>1, <4>1, <4>2, AnswerIsAsSaid DEF TypeOK
    <3>10. OneAllOnFirstPage'
      BY <3>2, <3>4, <3>5, <3>6, <3>8 DEF OneAllOnFirstPage
    <3> QED BY <2>1, <3>9, <3>10, AnswerIsAsSaid
  <2> QED BY <2>2, <2>3
<1>3. ASSUME NEW ids \in Ids, Select(ids) PROVE IInv'
  BY <1>3 DEF Select, TypeOK, ServedAsSaid, OneAllOnFirstPage, Items
<1>4. ASSUME ClearData PROVE IInv'
  BY <1>4 DEF ClearData, TypeOK, ServedAsSaid, OneAllOnFirstPage
<1>5. ASSUME SetEmptyPageOfVariables PROVE IInv'
  BY <1>0, <1>5 DEF SetEmptyPageOfVariables, TypeOK, ServedAsSaid, OneAllOnFirstPage
<1>6. CASE UNCHANGED vars
  BY <1>6 DEF vars, TypeOK, ServedAsSaid, OneAllOnFirstPage
<1> QED BY <1>1, <1>2, <1>3, <1>4, <1>5, <1>6 DEF Next

LEMMA Invariance == Spec => []IInv
BY InitInv, NextInv, PTL DEF Spec

\* Every state of every behaviour has the types of TypeOK: whatever the width
\* of the integers, no number but the product under Skip leaves it.
THEOREM TypeCorrect == Spec => []TypeOK
<1>1. IInv => TypeOK
  BY DEF IInv
<1> QED BY <1>1, Invariance, PTL

\* For every number of records, page size and page asked for: the page said to
\* be served is the one whose records are served, and the product under Skip
\* never overflows (QueryHandlerPaggedLinqBase.BuildQuery).
THEOREM PageServedIsPageSaid == Spec => []ServedAsSaid
<1>1. IInv => ServedAsSaid
  BY DEF IInv
<1> QED BY <1>1, Invariance, PTL

\* [All] is nowhere but at the top of a first page, and of several records the
\* first page has it, whichever of provider and model put it there and whatever
\* page was asked for (PagedListDataProviderBase.FetchPage,
\* PagedListConfigModel.SetItems).
THEOREM AllOnceOnFirstPage == Spec => []OneAllOnFirstPage
<1>1. IInv => OneAllOnFirstPage
  BY DEF IInv
<1> QED BY <1>1, Invariance, PTL

=============================================================================
