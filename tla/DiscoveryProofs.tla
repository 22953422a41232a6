---------------------------- MODULE DiscoveryProofs ----------------------------
(***************************************************************************)
(* Proofs about Discovery, for any catalogue, limit and number of changes. *)
(*                                                                         *)
(* PagedOnce speaks of a search that has ended.  While it goes on, each    *)
(* result has a rank, the number of results that come before it.  A        *)
(* result not received yet keeps a rank beyond the rows delivered as long  *)
(* as none of its predecessors leaves (CompleteInv), and a result received *)
(* keeps one below them as long as none enters (UniqueInv).                *)
(***************************************************************************)
EXTENDS Discovery, FiniteSetTheorems, SequenceTheorems, TLAPS

\* The results of the search ahead of l.
Rank(l) == Cardinality({m \in Found(query) : Before(query.sort, m, l)})

\* The rows of a page that was read and not delivered.
Read == IF page = Null THEN <<>> ELSE page

\* Nothing has happened that may lose a listing, or repeat one.
MayNotLose == seen \cap {"left", "moved", "tied", "torn"} = {}
MayNotRepeat == seen \cap {"entered", "moved", "tied"} = {}

\* A client that has not begun has nothing; one that waits asked for what the API accepts.
PagingInv ==
  /\ pc = "idle" => got = <<>> /\ offset = 0 /\ page = Null /\ total = Null /\ seen = {}
  /\ Waiting => query \in Query /\ offset <= MaxOffset

\* A result of the start that is still to come ranks beyond the rows read, and a page that
\* does not hold it is not the last one.
CompleteInv ==
  Waiting /\ MayNotLose =>
    /\ start \subseteq Found(query)
    /\ page = Null /\ total # Null => total = Cardinality(Found(query))
    /\ \A l \in start \ (ToSet(got) \cup ToSet(Read)) :
         /\ Rank(l) >= offset + Len(Read)
         /\ Null \notin {page, total} => total > offset + Len(page)

\* What was read so far ranks below the next row, if it still is a result at all.
UniqueInv ==
  Waiting /\ MayNotRepeat =>
    /\ IsInjective(got \o Read)
    /\ \A l \in ToSet(got \o Read) \cap Found(query) : Rank(l) < offset + Len(Read)

IInv == TypeOK /\ PagingInv /\ CompleteInv /\ UniqueInv /\ PagedOnce

-----------------------------------------------------------------------------
(* Rows, pages and ranks.                                                  *)

LEMMA MinOfTwo ==
  ASSUME NEW a \in Int, NEW b \in Int PROVE Min({a, b}) = IF a <= b THEN a ELSE b
<1> DEFINE m == IF a <= b THEN a ELSE b
<1>1. m \in {a, b} /\ \A y \in {a, b} : m =< y
  OBVIOUS
<1>2. \A x \in {a, b} : (\A y \in {a, b} : x =< y) => x = m
  OBVIOUS
<1>3. QED
  BY <1>1, <1>2 DEF Min

LEMMA Catalogue ==
  ASSUME NEW q PROVE /\ Found(q) \subseteq Listing
                     /\ IsFiniteSet(Found(q)) /\ Cardinality(Found(q)) \in 0 .. Cardinality(Listing)
<1>1. Found(q) \in SUBSET Listing
  BY DEF Found, Public
<1>2. IsFiniteSet(Listing)
  BY DiscoveryAssumption
<1>3. QED
  BY <1>1, <1>2, FS_Subset, FS_CardinalityType

LEMMA RankType == ASSUME NEW l PROVE Rank(l) \in Nat
<1>1. {m \in Found(query) : Before(query.sort, m, l)} \in SUBSET Found(query)
  OBVIOUS
<1>2. QED
  BY <1>1, Catalogue, FS_Subset, FS_CardinalityType DEF Rank

LEMMA RankTypeNext == ASSUME NEW l PROVE Rank(l)' \in Nat
<1>1. {m \in Found(query)' : Before(query.sort, m, l)'} \in SUBSET Listing
  BY DEF Found, Public
<1>2. Cardinality({m \in Found(query)' : Before(query.sort, m, l)'}) \in Nat
  BY <1>1, DiscoveryAssumption, FS_Subset, FS_CardinalityType
<1>3. QED
  BY <1>2 DEF Rank

\* The rows of a query are its results, each once.
LEMMA RowsOfResults ==
  ASSUME NEW S, IsFiniteSet(S), NEW rows \in SetToSeqs(S)
  PROVE  /\ rows \in Seq(S) /\ Len(rows) = Cardinality(S)
         /\ \A i, j \in 1 .. Len(rows) : rows[i] = rows[j] => i = j
         /\ \A l \in S : \E i \in 1 .. Len(rows) : rows[i] = l
<1> DEFINE N == Cardinality(S)
<1>1. N \in Nat
  BY FS_CardinalityType
<1>2. rows \in [1 .. N -> S] /\ \A i, j \in 1 .. N : i # j => rows[i] # rows[j]
  BY DEF SetToSeqs
<1>3. rows \in Seq(S) /\ Len(rows) = N
  BY <1>1, <1>2
<1>4. rows \in Injection(1 .. N, S)
  BY <1>2 DEF Injection, IsInjective
<1>5. IsFiniteSet(1 .. N) /\ Cardinality(1 .. N) = N
  BY <1>1, FS_Interval
<1>6. rows \in Surjection(1 .. N, S)
  BY <1>4, <1>5, FS_Injection
<1>7. QED
  BY <1>2, <1>3, <1>6 DEF Surjection

\* In an order without ties the rank of a row is its place.
LEMMA RankIsPlace ==
  ASSUME NEW rows \in Ordered(query.sort, Found(query)), ~Tied(query.sort, Found(query)),
         NEW j \in 1 .. Len(rows)
  PROVE  Rank(rows[j]) = j - 1
<1> DEFINE S == Found(query)
           T == {m \in S : Before(query.sort, m, rows[j])}
           ahead == [i \in 1 .. j - 1 |-> rows[i]]
<1>1. rows \in SetToSeqs(S) /\ \A i, k \in 1 .. Len(rows) : Before(query.sort, rows[i], rows[k]) => i < k
  BY DEF Ordered
<1>2. /\ rows \in Seq(S)
      /\ \A i, k \in 1 .. Len(rows) : rows[i] = rows[k] => i = k
      /\ \A l \in S : \E i \in 1 .. Len(rows) : rows[i] = l
  BY <1>1, Catalogue, RowsOfResults
<1>3. Len(rows) \in Nat /\ \A i \in 1 .. Len(rows) : rows[i] \in S
  BY <1>2
<1>4. \A i \in 1 .. j - 1 : rows[i] \in T
  <2> SUFFICES ASSUME NEW i \in 1 .. j - 1 PROVE Before(query.sort, rows[i], rows[j])
    BY <1>3
  <2>1. i \in 1 .. Len(rows) /\ i < j
    BY <1>3
  <2>2. rows[i] \in S /\ rows[j] \in S /\ rows[i] # rows[j]
    BY <2>1, <1>2, <1>3
  <2>3. Before(query.sort, rows[i], rows[j]) \/ Before(query.sort, rows[j], rows[i])
    BY <2>2 DEF Tied
  <2>4. ~Before(query.sort, rows[j], rows[i])
    BY <2>1, <1>1, <1>3
  <2>5. QED
    BY <2>3, <2>4
<1>5. \A m \in T : \E i \in 1 .. j - 1 : rows[i] = m
  <2> SUFFICES ASSUME NEW m \in T PROVE \E i \in 1 .. j - 1 : rows[i] = m
    OBVIOUS
  <2>1. PICK i \in 1 .. Len(rows) : rows[i] = m
    BY <1>2
  <2>2. i < j
    BY <2>1, <1>1
  <2>3. QED
    BY <2>1, <2>2, <1>3
<1>6. ahead \in Bijection(1 .. j - 1, T)
  <2>1. ahead \in [1 .. j - 1 -> T]
    BY <1>4
  <2>2. \A i, k \in 1 .. j - 1 : ahead[i] = ahead[k] => i = k
    <3>1. \A i \in 1 .. j - 1 : i \in 1 .. Len(rows) /\ ahead[i] = rows[i]
      BY <1>3
    <3>2. QED
      BY <3>1, <1>2
  <2>3. \A m \in T : \E i \in 1 .. j - 1 : ahead[i] = m
    BY <1>5
  <2>4. QED
    BY <2>1, <2>2, <2>3 DEF Bijection, Injection, Surjection, IsInjective
<1>7. Cardinality(T) = j - 1
  <2>1. ExistsBijection(1 .. j - 1, T)
    BY <1>6 DEF ExistsBijection
  <2>2. j - 1 \in Nat
    BY <1>3
  <2>3. QED
    BY <2>1, <2>2, FS_CountingElements
<1>8. QED
  BY <1>7 DEF Rank

\* A page is the rows from the offset on, as many as there are up to the limit.
LEMMA PageOfRows ==
  ASSUME NEW S, NEW rows \in Seq(S), offset \in Nat
  PROVE  /\ PageOf(rows) \in Seq(S) /\ Len(PageOf(rows)) <= Limit
         /\ \A i \in 1 .. Len(PageOf(rows)) :
               offset + i \in 1 .. Len(rows) /\ PageOf(rows)[i] = rows[offset + i]
         /\ \A j \in 1 .. Len(rows) : offset < j /\ j <= offset + Limit =>
               j - offset \in 1 .. Len(PageOf(rows))
         /\ Len(PageOf(rows)) < Limit => Len(rows) <= offset + Len(PageOf(rows))
<1> DEFINE last == Min({offset + Limit, Len(rows)})
<1>1. Limit \in Nat \ {0} /\ Len(rows) \in Nat
  BY DiscoveryAssumption
<1>2. last = IF offset + Limit <= Len(rows) THEN offset + Limit ELSE Len(rows)
  BY <1>1, MinOfTwo
<1>3. \A i \in offset + 1 .. last : rows[i] \in S
  BY <1>1, <1>2
<1>4. PageOf(rows) = SubSeq(rows, offset + 1, last)
  BY DEF PageOf
<1>5. last \in Nat
  BY <1>1, <1>2
<1> HIDE DEF last
<1>6. /\ PageOf(rows) \in Seq(S)
      /\ Len(PageOf(rows)) = IF offset + 1 <= last THEN last - offset ELSE 0
      /\ \A i \in 1 .. last - offset : PageOf(rows)[i] = rows[offset + i]
  <2>1. /\ PageOf(rows) \in Seq(S)
        /\ Len(PageOf(rows)) = IF offset + 1 <= last THEN last - (offset + 1) + 1 ELSE 0
        /\ \A i \in 1 .. last - (offset + 1) + 1 : PageOf(rows)[i] = rows[(offset + 1) + i - 1]
    BY <1>3, <1>4, <1>5, SubSeqProperties
  <2>2. last - (offset + 1) + 1 = last - offset /\ \A i \in Nat : (offset + 1) + i - 1 = offset + i
    BY <1>5
  <2>3. QED
    BY <2>1, <2>2, <1>5
<1>7. QED
  BY <1>1, <1>2, <1>5, <1>6

LEMMA Concatenation ==
  ASSUME NEW S, NEW s \in Seq(S), NEW t \in Seq(S)
  PROVE  /\ ToSet(s \o t) = ToSet(s) \cup ToSet(t)
         /\ IsInjective(s) /\ IsInjective(t) /\ ToSet(s) \cap ToSet(t) = {} => IsInjective(s \o t)
<1>1. /\ s \o t \in Seq(S) /\ Len(s \o t) = Len(s) + Len(t)
      /\ \A i \in 1 .. Len(s) : (s \o t)[i] = s[i]
      /\ \A i \in 1 .. Len(t) : (s \o t)[Len(s) + i] = t[i]
  OBVIOUS
<1>2. /\ DOMAIN s = 1 .. Len(s) /\ DOMAIN t = 1 .. Len(t) /\ DOMAIN (s \o t) = 1 .. Len(s) + Len(t)
      /\ Len(s) \in Nat /\ Len(t) \in Nat
  BY <1>1
<1>3. \A i \in 1 .. Len(s) + Len(t) :
        i \in 1 .. Len(s) \/ (i - Len(s) \in 1 .. Len(t) /\ i = Len(s) + (i - Len(s)))
  BY <1>2
<1>4. \A i \in DOMAIN (s \o t) :
        \/ i \in DOMAIN s /\ (s \o t)[i] = s[i]
        \/ i - Len(s) \in DOMAIN t /\ (s \o t)[i] = t[i - Len(s)]
  BY <1>1, <1>2, <1>3
<1>5. ToSet(s \o t) = ToSet(s) \cup ToSet(t)
  <2>1. ToSet(s \o t) \subseteq ToSet(s) \cup ToSet(t)
    BY <1>4 DEF ToSet
  <2>2. \A i \in DOMAIN s : i \in DOMAIN (s \o t) /\ (s \o t)[i] = s[i]
    BY <1>1, <1>2
  <2>3. \A i \in DOMAIN t : Len(s) + i \in DOMAIN (s \o t) /\ (s \o t)[Len(s) + i] = t[i]
    BY <1>1, <1>2
  <2>4. ToSet(s) \subseteq ToSet(s \o t)
    BY <2>2 DEF ToSet
  <2>5. ToSet(t) \subseteq ToSet(s \o t)
    BY <2>3 DEF ToSet
  <2>6. QED
    BY <2>1, <2>4, <2>5
<1>6. ASSUME IsInjective(s), IsInjective(t), ToSet(s) \cap ToSet(t) = {}
      PROVE  IsInjective(s \o t)
  <2> SUFFICES ASSUME NEW a \in DOMAIN (s \o t), NEW b \in DOMAIN (s \o t), (s \o t)[a] = (s \o t)[b]
               PROVE  a = b
    BY DEF IsInjective
  <2>1. CASE a \in DOMAIN s /\ (s \o t)[a] = s[a]
    <3>1. (s \o t)[b] \notin ToSet(t)
      BY <2>1, <1>6 DEF ToSet
    <3>2. b \in DOMAIN s /\ (s \o t)[b] = s[b]
      BY <3>1, <1>4 DEF ToSet
    <3>3. QED
      BY <2>1, <3>2, <1>6 DEF IsInjective
  <2>2. CASE a - Len(s) \in DOMAIN t /\ (s \o t)[a] = t[a - Len(s)]
    <3>1. (s \o t)[b] \notin ToSet(s)
      BY <2>2, <1>6 DEF ToSet
    <3>2. b - Len(s) \in DOMAIN t /\ (s \o t)[b] = t[b - Len(s)]
      BY <3>1, <1>4 DEF ToSet
    <3>3. a - Len(s) = b - Len(s)
      BY <2>2, <3>2, <1>6 DEF IsInjective
    <3>4. QED
      BY <3>3, <1>2
  <2>3. QED
    BY <2>1, <2>2, <1>4
<1>7. QED
  BY <1>5, <1>6

\* No listing comes before itself.
LEMMA NotBeforeItself ==
  ASSUME TypeOK, NEW l \in Listing, NEW sort \in Sort PROVE ~Before(sort, l, l)
<1>1. listing[l].publishedAt \in Nat /\ listing[l].price \in Nat /\ DistanceOf[l] \in Nat
  <2>1. listing[l] \in Row
    BY DEF TypeOK
  <2>2. MaxTime \in Nat
    BY DiscoveryAssumption, FS_CardinalityType DEF MaxTime
  <2>3. QED
    BY <2>1, <2>2, DiscoveryAssumption DEF Row
<1>2. /\ ~(listing[l].publishedAt > listing[l].publishedAt) /\ ~(DistanceOf[l] < DistanceOf[l])
      /\ ~(listing[l].price < listing[l].price) /\ ~(listing[l].price > listing[l].price)
  BY <1>1
<1>3. CASE sort = "newest"
  BY <1>2, <1>3 DEF Before
<1>4. CASE sort = "priceAsc"
  BY <1>2, <1>4 DEF Before
<1>5. CASE sort = "priceDesc"
  BY <1>2, <1>5 DEF Before
<1>6. CASE sort = "distance"
  BY <1>2, <1>6 DEF Before
<1>7. QED
  BY <1>3, <1>4, <1>5, <1>6 DEF Sort

\* A result ranks below the number of results.
LEMMA RankBelowTotal ==
  ASSUME TypeOK, query \in Query, NEW l \in Found(query)
  PROVE  Rank(l) < Cardinality(Found(query))
<1> DEFINE S == Found(query)
           T == {m \in S : Before(query.sort, m, l)}
<1>1. IsFiniteSet(S) /\ l \in Listing /\ Cardinality(S) \in Nat
  BY Catalogue
<1>2. query.sort \in Sort
  BY DEF Query
<1>3. T \in SUBSET S /\ T # S
  BY <1>1, <1>2, NotBeforeItself
<1>4. Cardinality(T) <= Cardinality(S) /\ Cardinality(T) # Cardinality(S) /\ Cardinality(T) \in Nat
  BY <1>1, <1>3, FS_Subset, FS_CardinalityType
<1>5. QED
  BY <1>1, <1>4 DEF Rank

-----------------------------------------------------------------------------
(* The catalogue.                                                          *)

LEMMA Times == MaxTime \in Nat /\ Cardinality(Listing) \in Nat /\ MaxChanges \in Nat
BY DiscoveryAssumption, FS_CardinalityType DEF MaxTime

LEMMA InitInv == Init => IInv
<1> SUFFICES ASSUME Init PROVE IInv
  OBVIOUS
<1>1. TypeOK
  <2>1. \A l \in Listing : FirstDate[l] \in 0 .. MaxTime /\ FirstPrice[l] \in Price
    BY Times, DiscoveryAssumption DEF MaxTime
  <2>2. listing \in [Listing -> Row]
    BY <2>1 DEF Init, Row
  <2>3. Limit \in Nat /\ MaxOffset \in Nat /\ MaxChanges \in Nat
    BY DiscoveryAssumption
  <2>4. QED
    BY <2>2, <2>3 DEF Init, TypeOK
<1>2. PagingInv /\ CompleteInv /\ UniqueInv /\ PagedOnce
  BY DEF Init, PagingInv, CompleteInv, UniqueInv, PagedOnce, Waiting
<1>3. QED
  BY <1>1, <1>2 DEF IInv

\* Every step of a seller, a buyer or the clock writes one row.
LEMMA CatalogueStepChanges ==
  ASSUME TypeOK, NEW l \in Listing, CatalogueStep(l)
  PROVE  \E row \in Row : Change(l, row)
<1>1. listing[l] \in Row
  BY DEF TypeOK
<1>2. CASE Publish(l)
  <2> DEFINE row == [listing[l] EXCEPT !.status = "PUBLISHED",
                                       !.publishedAt = Cardinality(Listing) + changes + 1]
  <2>1. Cardinality(Listing) + changes + 1 \in 0 .. MaxTime
    BY <1>2, Times DEF Publish, Change, MaxTime, TypeOK
  <2>2. row \in Row
    BY <1>1, <2>1 DEF Row
  <2>3. QED
    BY <1>2, <2>2 DEF Publish
<1>3. CASE Archive(l)
  <2>1. [listing[l] EXCEPT !.status = "ARCHIVED"] \in Row
    BY <1>1 DEF Row
  <2>2. QED
    BY <1>3, <2>1 DEF Archive
<1>4. CASE SellOut(l)
  <2>1. [listing[l] EXCEPT !.status = "SOLD_OUT"] \in Row
    BY <1>1 DEF Row
  <2>2. QED
    BY <1>4, <2>1 DEF SellOut
<1>5. CASE Restock(l)
  <2>1. [listing[l] EXCEPT !.status = "PUBLISHED"] \in Row
    BY <1>1 DEF Row
  <2>2. QED
    BY <1>5, <2>1 DEF Restock
<1>6. CASE SoftDelete(l)
  <2>1. [listing[l] EXCEPT !.status = "ARCHIVED", !.deleted = TRUE] \in Row
    BY <1>1 DEF Row
  <2>2. QED
    BY <1>6, <2>1 DEF SoftDelete
<1>7. CASE Expire(l)
  <2>1. [listing[l] EXCEPT !.expired = TRUE] \in Row
    BY <1>1 DEF Row
  <2>2. QED
    BY <1>7, <2>1 DEF Expire
<1>8. CASE Reprice(l)
  <2>1. PICK price \in Price \ {listing[l].price} :
          Change(l, [listing[l] EXCEPT !.price = price])
    BY <1>8 DEF Reprice
  <2>2. [listing[l] EXCEPT !.price = price] \in Row
    BY <1>1 DEF Row
  <2>3. QED
    BY <2>1, <2>2
<1>9. QED
  BY <1>2, <1>3, <1>4, <1>5, <1>6, <1>7, <1>8 DEF CatalogueStep

\* What a change under a waiting client may do without being named in seen.
LEMMA UnnamedChange ==
  ASSUME TypeOK, NEW l \in Listing, NEW row \in Row, Change(l, row), Waiting
  PROVE  /\ MayNotLose' =>
              /\ MayNotLose /\ Found(query) \subseteq Found(query)'
              /\ page = Null <=> total = Null
              /\ \A m \in Found(query) : listing'[m] = listing[m]
         /\ MayNotRepeat' =>
              /\ MayNotRepeat /\ Found(query)' \subseteq Found(query)
              /\ \A m \in Found(query)' : listing'[m] = listing[m]
<1> DEFINE before == Found(query)
           after == Found(query)'
<1>1. \A m \in Listing \ {l} : listing'[m] = listing[m]
  BY DEF Change, TypeOK
<1>2. before \subseteq Listing /\ after \subseteq Listing
  BY DEF Found, Public
<1>3. /\ after \ before # {} => "entered" \in seen'
      /\ before \ after # {} => "left" \in seen'
      /\ l \in before \cap after => "moved" \in seen'
      /\ (page = Null) # (total = Null) => "torn" \in seen'
      /\ seen \subseteq seen'
  BY DEF Change, Effect
<1> HIDE DEF before, after
<1>4. ASSUME MayNotLose'
      PROVE  /\ MayNotLose /\ before \subseteq after
             /\ page = Null <=> total = Null
             /\ \A m \in before : listing'[m] = listing[m]
  <2>1. seen' \cap {"left", "moved", "tied", "torn"} = {}
    BY <1>4 DEF MayNotLose
  <2>2. before \subseteq after /\ l \notin before /\ (page = Null <=> total = Null)
    BY <2>1, <1>3
  <2>3. QED
    BY <2>1, <2>2, <1>1, <1>2, <1>3 DEF MayNotLose
<1>5. ASSUME MayNotRepeat'
      PROVE  /\ MayNotRepeat /\ after \subseteq before
             /\ \A m \in after : listing'[m] = listing[m]
  <2>1. seen' \cap {"entered", "moved", "tied"} = {}
    BY <1>5 DEF MayNotRepeat
  <2>2. after \subseteq before /\ l \notin after
    BY <2>1, <1>3
  <2>3. QED
    BY <2>1, <2>2, <1>1, <1>2, <1>3 DEF MayNotRepeat
<1>6. QED
  BY <1>4, <1>5 DEF before, after

\* Results that enter push others back, results that leave let them move up.
LEMMA RankGrows ==
  ASSUME query' = query, Found(query) \subseteq Found(query)',
         \A m \in Found(query) : listing'[m] = listing[m], NEW l \in Found(query)
  PROVE  Rank(l) <= Rank(l)'
<1> DEFINE T == {m \in Found(query) : Before(query.sort, m, l)}
           U == {m \in Found(query)' : Before(query.sort, m, l)'}
<1>1. \A m \in Found(query) : Before(query.sort, m, l)' <=> Before(query.sort, m, l)
  <2> SUFFICES ASSUME NEW m \in Found(query)
               PROVE  Before(query.sort, m, l)' <=> Before(query.sort, m, l)
    OBVIOUS
  <2>1. listing'[l] = listing[l] /\ listing'[m] = listing[m]
    OBVIOUS
  <2>2. QED
    BY <2>1 DEF Before
<1>2. T \in SUBSET U
  BY <1>1
<1>3. Found(query)' \in SUBSET Listing /\ U \in SUBSET Found(query)'
  BY DEF Found, Public
<1>4. IsFiniteSet(U)
  BY <1>3, DiscoveryAssumption, FS_Subset
<1>5. Cardinality(T) <= Cardinality(U)
  BY <1>2, <1>4, FS_Subset
<1>6. QED
  BY <1>5 DEF Rank

LEMMA RankShrinks ==
  ASSUME query' = query, Found(query)' \subseteq Found(query),
         \A m \in Found(query)' : listing'[m] = listing[m], NEW l \in Found(query)'
  PROVE  Rank(l)' <= Rank(l)
<1> DEFINE T == {m \in Found(query) : Before(query.sort, m, l)}
           U == {m \in Found(query)' : Before(query.sort, m, l)'}
<1>1. \A m \in Found(query)' : Before(query.sort, m, l)' <=> Before(query.sort, m, l)
  <2> SUFFICES ASSUME NEW m \in Found(query)'
               PROVE  Before(query.sort, m, l)' <=> Before(query.sort, m, l)
    OBVIOUS
  <2>1. listing'[l] = listing[l] /\ listing'[m] = listing[m]
    OBVIOUS
  <2>2. QED
    BY <2>1 DEF Before
<1>2. U \in SUBSET T
  BY <1>1
<1>3. T \in SUBSET Found(query)
  OBVIOUS
<1>4. IsFiniteSet(T)
  BY <1>3, Catalogue, FS_Subset
<1>5. Cardinality(U) <= Cardinality(T)
  BY <1>2, <1>4, FS_Subset
<1>6. QED
  BY <1>5 DEF Rank

LEMMA ChangeInv ==
  ASSUME IInv, NEW l \in Listing, NEW row \in Row, Change(l, row)
  PROVE  IInv'
<1>1. /\ UNCHANGED <<pc, query, offset, page, total, got, start>>
      /\ listing' = [listing EXCEPT ![l] = row]
      /\ changes < MaxChanges /\ changes' = changes + 1
      /\ seen' = seen \cup Effect(l)
  BY DEF Change, client
<1>2. TypeOK /\ PagingInv
  BY DEF IInv
<1>3. TypeOK'
  <2>1. listing' \in [Listing -> Row]
    BY <1>1, <1>2 DEF TypeOK
  <2>2. changes' \in 0 .. MaxChanges
    BY <1>1, <1>2, Times DEF TypeOK
  <2>3. seen' \subseteq Event
    BY <1>1, <1>2 DEF TypeOK, Effect, Event
  <2>4. QED
    BY <1>1, <1>2, <2>1, <2>2, <2>3 DEF TypeOK
<1>4. ~Waiting => seen' = seen
  BY <1>1 DEF Effect
<1>5. PagingInv'
  BY <1>1, <1>2, <1>4 DEF PagingInv, Waiting
<1>6. ToSet(got)' = ToSet(got) /\ ToSet(Read)' = ToSet(Read) /\ Len(Read)' = Len(Read)
      /\ ToSet(got \o Read)' = ToSet(got \o Read) /\ Read' = Read
  BY <1>1 DEF Read
<1>7. CompleteInv'
  <2> SUFFICES ASSUME Waiting, MayNotLose'
               PROVE  /\ start \subseteq Found(query)'
                      /\ page = Null /\ total # Null => total = Cardinality(Found(query)')
                      /\ \A x \in start \ (ToSet(got) \cup ToSet(Read)) :
                           /\ Rank(x)' >= offset + Len(Read)
                           /\ Null \notin {page, total} => total > offset + Len(page)
    BY <1>1, <1>6 DEF CompleteInv, Waiting
  <2>1. /\ MayNotLose /\ Found(query) \subseteq Found(query)'
        /\ page = Null <=> total = Null
        /\ \A m \in Found(query) : listing'[m] = listing[m]
    BY <1>2, UnnamedChange
  <2>2. /\ start \subseteq Found(query)
        /\ \A x \in start \ (ToSet(got) \cup ToSet(Read)) :
             /\ Rank(x) >= offset + Len(Read)
             /\ Null \notin {page, total} => total > offset + Len(page)
    BY <2>1 DEF IInv, CompleteInv
  <2>3. \A x \in Found(query) : Rank(x) <= Rank(x)'
    BY <1>1, <2>1, RankGrows
  <2>4. \A x : Rank(x) \in Nat /\ Rank(x)' \in Nat
    BY RankType, RankTypeNext
  <2>5. offset + Len(Read) \in Nat
    BY <1>2 DEF TypeOK, Read
  <2>6. QED
    BY <2>1, <2>2, <2>3, <2>4, <2>5
<1>8. UniqueInv'
  <2> SUFFICES ASSUME Waiting, MayNotRepeat'
               PROVE  /\ IsInjective(got \o Read)
                      /\ \A x \in ToSet(got \o Read) \cap Found(query)' :
                           Rank(x)' < offset + Len(Read)
    BY <1>1, <1>6 DEF UniqueInv, Waiting
  <2>1. /\ MayNotRepeat /\ Found(query)' \subseteq Found(query)
        /\ \A m \in Found(query)' : listing'[m] = listing[m]
    BY <1>2, UnnamedChange
  <2>2. /\ IsInjective(got \o Read)
        /\ \A x \in ToSet(got \o Read) \cap Found(query) : Rank(x) < offset + Len(Read)
    BY <2>1 DEF IInv, UniqueInv
  <2>3. \A x \in Found(query)' : Rank(x)' <= Rank(x)
    BY <1>1, <2>1, RankShrinks
  <2>4. \A x : Rank(x) \in Nat /\ Rank(x)' \in Nat
    BY RankType, RankTypeNext
  <2>5. offset + Len(Read) \in Nat
    BY <1>2 DEF TypeOK, Read
  <2>6. QED
    BY <2>1, <2>2, <2>3, <2>4, <2>5
<1>9. PagedOnce'
  <2>1. pc = "done" => seen' = seen
    BY <1>4 DEF Waiting
  <2>2. QED
    BY <1>1, <2>1 DEF IInv, PagedOnce
<1>10. QED
  BY <1>3, <1>5, <1>7, <1>8, <1>9 DEF IInv

LEMMA StartSearchInv ==
  ASSUME IInv, NEW q \in Query, StartSearch(q)
  PROVE  IInv'
<1>1. /\ pc = "idle" /\ pc' = "waiting" /\ query' = q /\ start' = Found(q)
      /\ UNCHANGED <<listing, changes, offset, page, total, got, seen>>
  BY DEF StartSearch
<1>2. TypeOK /\ got = <<>> /\ offset = 0 /\ page = Null /\ total = Null /\ seen = {}
  BY <1>1 DEF IInv, PagingInv
<1>3. TypeOK'
  <2>1. start' \subseteq Listing
    BY <1>1, Catalogue
  <2>2. QED
    BY <1>1, <1>2, <2>1 DEF TypeOK
<1>4. PagingInv'
  <2>1. MaxOffset \in Nat
    BY DiscoveryAssumption
  <2>2. QED
    BY <1>1, <1>2, <2>1 DEF PagingInv, Waiting
<1>5. Read' = <<>> /\ got' \o Read' = <<>> /\ Len(Read)' = 0
  BY <1>1, <1>2 DEF Read
<1>6. start' \subseteq Found(query)'
  BY <1>1 DEF Found, Public, InReach
<1>7. CompleteInv'
  BY <1>1, <1>2, <1>5, <1>6, RankTypeNext DEF CompleteInv
<1>8. UniqueInv'
  <2>1. IsInjective(<<>>) /\ ToSet(<<>>) = {}
    BY DEF IsInjective, ToSet
  <2>2. QED
    BY <1>5, <2>1 DEF UniqueInv
<1>9. PagedOnce'
  BY <1>1 DEF PagedOnce
<1>10. QED
  BY <1>3, <1>4, <1>7, <1>8, <1>9 DEF IInv

-----------------------------------------------------------------------------
(* The client.                                                             *)

\* While the catalogue and the query stay, so do the results and their ranks.
LEMMA ResultsStay ==
  ASSUME UNCHANGED <<listing, query>>
  PROVE  Found(query)' = Found(query) /\ \A l : Rank(l)' = Rank(l)
<1>1. \A sort, l, m : Before(sort, l, m)' <=> Before(sort, l, m)
  BY DEF Before
<1>2. Found(query)' = Found(query)
  BY DEF Found, Public, InReach
<1>3. \A l : {m \in Found(query)' : Before(query.sort, m, l)'} = {m \in Found(query) : Before(query.sort, m, l)}
  BY <1>1, <1>2
<1>4. QED
  BY <1>2, <1>3 DEF Rank

LEMMA ReadRowsInv == ASSUME IInv, ReadRows PROVE IInv'
<1> DEFINE S == Found(query)
<1>1. PICK rows \in Ordered(query.sort, S) : page' = PageOf(rows)
  BY DEF ReadRows
<1>2. /\ pc = "waiting" /\ pc' = "waiting" /\ page = Null
      /\ seen' = seen \cup (IF Tied(query.sort, S) THEN {"tied"} ELSE {})
      /\ UNCHANGED <<listing, changes, query, offset, total, got, start>>
  BY DEF ReadRows, Waiting
<1>3. TypeOK /\ PagingInv /\ query \in Query /\ offset \in Nat /\ Limit \in Nat
  BY <1>2, DiscoveryAssumption DEF IInv, PagingInv, Waiting, TypeOK
<1>4. /\ rows \in Seq(S) /\ Len(rows) = Cardinality(S)
      /\ \A i, j \in 1 .. Len(rows) : rows[i] = rows[j] => i = j
      /\ \A l \in S : \E i \in 1 .. Len(rows) : rows[i] = l
  <2>1. rows \in SetToSeqs(S) /\ IsFiniteSet(S)
    BY <1>1, Catalogue DEF Ordered
  <2>2. QED
    BY <2>1, RowsOfResults
<1>5. /\ page' \in Seq(S) /\ Len(page') <= Limit
      /\ \A i \in 1 .. Len(page') : offset + i \in 1 .. Len(rows) /\ page'[i] = rows[offset + i]
      /\ \A j \in 1 .. Len(rows) : offset < j /\ j <= offset + Limit => j - offset \in 1 .. Len(page')
  BY <1>1, <1>3, <1>4, PageOfRows
<1>6. page' \in Seq(Listing) /\ page' # Null /\ Read' = page' /\ Read = <<>>
  <2>1. page' \in Seq(Listing)
    BY <1>5, Catalogue
  <2>2. QED
    BY <2>1, <1>2, DiscoveryAssumption DEF Read
<1>7. TypeOK'
  BY <1>2, <1>3, <1>5, <1>6 DEF TypeOK, Event
<1>8. PagingInv'
  BY <1>2, <1>3 DEF PagingInv, Waiting
<1>9. S = Found(query)' /\ \A l : Rank(l)' = Rank(l)
  BY <1>2, ResultsStay
<1>10. ~Tied(query.sort, S) => \A j \in 1 .. Len(rows) : Rank(rows[j]) = j - 1
  BY <1>1, RankIsPlace
<1>11. Len(page') \in Nat /\ Len(rows) \in Nat /\ got \in Seq(Listing) /\ Len(Read) = 0
  BY <1>3, <1>4, <1>5, <1>6 DEF TypeOK
<1> HIDE DEF S
<1>12. CompleteInv'
  <2> SUFFICES ASSUME MayNotLose'
               PROVE  /\ start \subseteq S
                      /\ \A l \in start \ (ToSet(got) \cup ToSet(page')) :
                           /\ Rank(l) >= offset + Len(page')
                           /\ total # Null => total > offset + Len(page')
    BY <1>2, <1>6, <1>9 DEF CompleteInv
  <2>1. MayNotLose /\ ~Tied(query.sort, S)
    BY <1>2 DEF MayNotLose
  <2>2. /\ start \subseteq S
        /\ total # Null => total = Cardinality(S)
        /\ \A l \in start \ ToSet(got) : Rank(l) >= offset
    <3>1. ToSet(Read) = {}
      BY <1>6 DEF ToSet
    <3>2. QED
      BY <1>2, <1>3, <1>11, <2>1, <3>1 DEF IInv, CompleteInv, Waiting, S
  <2>3. ASSUME NEW l \in start \ (ToSet(got) \cup ToSet(page'))
        PROVE  /\ Rank(l) >= offset + Len(page')
               /\ total # Null => total > offset + Len(page')
    <3>1. PICK j \in 1 .. Len(rows) : rows[j] = l
      BY <1>4, <2>2
    <3>2. j - 1 >= offset
      BY <3>1, <1>10, <2>1, <2>2, <2>3
    <3>3. \A i \in 1 .. Len(page') : page'[i] # l
      BY <1>11, <2>3 DEF ToSet
    <3>4. ~(j <= offset + Limit)
      <4>1. SUFFICES ASSUME j <= offset + Limit PROVE FALSE
        OBVIOUS
      <4>2. j - offset \in 1 .. Len(page') /\ offset + (j - offset) = j
        BY <4>1, <3>2, <1>3, <1>5, <1>11
      <4>3. page'[j - offset] = l
        BY <4>2, <3>1, <1>5
      <4>4. QED
        BY <4>2, <4>3, <3>3
    <3>5. j > offset + Len(page')
      BY <3>4, <1>3, <1>5, <1>11
    <3>6. Rank(l) = j - 1
      BY <3>1, <1>10, <2>1
    <3>7. QED
      BY <3>5, <3>6, <2>2, <1>3, <1>4, <1>11
  <2>4. QED
    BY <2>2, <2>3
<1>13. UniqueInv'
  <2> SUFFICES ASSUME MayNotRepeat'
               PROVE  /\ IsInjective(got \o page')
                      /\ \A l \in ToSet(got \o page') \cap S : Rank(l) < offset + Len(page')
    BY <1>2, <1>6, <1>9 DEF UniqueInv
  <2>1. MayNotRepeat /\ ~Tied(query.sort, S)
    BY <1>2 DEF MayNotRepeat
  <2>2. IsInjective(got) /\ \A l \in ToSet(got) \cap S : Rank(l) < offset
    <3>1. got \o Read = got
      BY <1>6, <1>11
    <3>2. QED
      BY <1>2, <1>3, <1>11, <2>1, <3>1 DEF IInv, UniqueInv, Waiting, S
  <2>3. ASSUME NEW l, NEW i \in 1 .. Len(page'), l = page'[i]
        PROVE  l \in S /\ Rank(l) = offset + i - 1
    <3>1. PICK j \in 1 .. Len(rows) : j = offset + i
      BY <1>5
    <3>2. rows[j] = l
      BY <1>5, <2>3, <3>1
    <3>3. l \in S
      BY <1>4, <3>2
    <3>4. Rank(l) = j - 1
      BY <1>10, <2>1, <3>2
    <3>5. QED
      BY <3>1, <3>3, <3>4, <1>3, <1>11
  <2>4. DOMAIN page' = 1 .. Len(page')
    BY <1>6
  <2>5. IsInjective(page')
    <3> SUFFICES ASSUME NEW i \in 1 .. Len(page'), NEW k \in 1 .. Len(page'),
                        NEW l, l = page'[i], l = page'[k]
                 PROVE  i = k
      BY <2>4 DEF IsInjective
    <3>1. offset + i - 1 = offset + k - 1
      BY <2>3
    <3>2. QED
      BY <3>1, <1>3, <1>11
  <2>6. \A l \in ToSet(page') : l \in S /\ offset <= Rank(l) /\ Rank(l) < offset + Len(page')
    <3> SUFFICES ASSUME NEW l, NEW i \in 1 .. Len(page'), l = page'[i]
                 PROVE  l \in S /\ offset <= Rank(l) /\ Rank(l) < offset + Len(page')
      BY <2>4 DEF ToSet
    <3>1. QED
      BY <2>3, <1>3, <1>11
  <2>7. \A l \in ToSet(got) \cap S : Rank(l) \in Nat /\ Rank(l) < offset
    BY <2>2, RankType
  <2>8. ToSet(got) \cap ToSet(page') = {}
    BY <2>6, <2>7, <1>3
  <2>9. \A l \in ToSet(got) \cap S : Rank(l) < offset + Len(page')
    BY <2>7, <1>3, <1>11
  <2>10. IsInjective(got \o page') /\ ToSet(got \o page') = ToSet(got) \cup ToSet(page')
    BY <2>2, <2>5, <2>8, <1>6, <1>11, Concatenation
  <2>11. QED
    BY <2>6, <2>9, <2>10
<1>14. PagedOnce'
  BY <1>2 DEF PagedOnce
<1>15. QED
  BY <1>7, <1>8, <1>12, <1>13, <1>14 DEF IInv

LEMMA CountRowsInv == ASSUME IInv, CountRows PROVE IInv'
<1>1. /\ pc = "waiting" /\ total = Null /\ total' = Cardinality(Found(query))
      /\ UNCHANGED <<listing, changes, pc, query, offset, page, got, start, seen>>
  BY DEF CountRows, Waiting
<1>2. TypeOK /\ PagingInv /\ query \in Query /\ offset \in Nat
  BY <1>1, DiscoveryAssumption DEF IInv, PagingInv, Waiting, TypeOK
<1>3. Found(query)' = Found(query) /\ (\A l : Rank(l)' = Rank(l)) /\ Read' = Read
  BY <1>1, ResultsStay DEF Read
<1>4. TypeOK'
  BY <1>1, <1>2, Catalogue DEF TypeOK
<1>5. PagingInv'
  BY <1>1, <1>2 DEF PagingInv, Waiting
<1>6. CompleteInv'
  <2> SUFFICES ASSUME MayNotLose
               PROVE  /\ start \subseteq Found(query)
                      /\ \A l \in start \ (ToSet(got) \cup ToSet(Read)) :
                           /\ Rank(l) >= offset + Len(Read)
                           /\ page # Null => Cardinality(Found(query)) > offset + Len(page)
    BY <1>1, <1>3 DEF CompleteInv, MayNotLose
  <2>1. /\ start \subseteq Found(query)
        /\ \A l \in start \ (ToSet(got) \cup ToSet(Read)) : Rank(l) >= offset + Len(Read)
    BY <1>1 DEF IInv, CompleteInv, Waiting
  <2>2. ASSUME NEW l \in start \ (ToSet(got) \cup ToSet(Read)), page # Null
        PROVE  Cardinality(Found(query)) > offset + Len(page)
    <3>1. Rank(l) < Cardinality(Found(query)) /\ Rank(l) \in Nat
      BY <1>2, <2>1, RankBelowTotal, RankType
    <3>2. Read = page /\ Len(page) \in Nat
      BY <1>2, <2>2 DEF Read, TypeOK
    <3>3. Cardinality(Found(query)) \in Nat
      BY Catalogue, FS_CardinalityType
    <3>4. QED
      BY <3>1, <3>2, <3>3, <2>1, <1>2
  <2>3. QED
    BY <2>1, <2>2
<1>7. UniqueInv'
  BY <1>1, <1>3 DEF IInv, UniqueInv, MayNotRepeat, Waiting
<1>8. PagedOnce'
  BY <1>1 DEF PagedOnce
<1>9. QED
  BY <1>4, <1>5, <1>6, <1>7, <1>8 DEF IInv

LEMMA NextPageInv == ASSUME IInv, NextPage PROVE IInv'
<1>1. /\ pc = "waiting" /\ Null \notin {page, total}
      /\ got' = got \o page /\ offset' = offset + Len(page)
      /\ pc' = IF ~HasMore THEN "done" ELSE IF offset' > MaxOffset THEN "refused" ELSE "waiting"
      /\ page' = Null /\ total' = Null
      /\ UNCHANGED <<listing, changes, query, start, seen>>
  BY DEF NextPage, Waiting
<1>2. /\ TypeOK /\ PagingInv /\ query \in Query /\ offset \in 0 .. MaxOffset
      /\ page \in Seq(Listing) /\ Len(page) \in Nat /\ Len(page) <= Limit /\ total \in Nat
      /\ got \in Seq(Listing) /\ Limit \in Nat /\ MaxOffset \in Nat
  <2>1. TypeOK /\ PagingInv
    BY DEF IInv
  <2>2. query \in Query /\ offset \in Nat /\ offset <= MaxOffset
    BY <1>1, <2>1 DEF PagingInv, Waiting, TypeOK
  <2>3. page \in Seq(Listing) /\ Len(page) <= Limit /\ total \in Nat /\ got \in Seq(Listing)
    BY <1>1, <2>1 DEF TypeOK
  <2>4. QED
    BY <2>1, <2>2, <2>3, DiscoveryAssumption
<1>3. Found(query)' = Found(query) /\ (\A l : Rank(l)' = Rank(l)) /\ Read = page /\ Read' = <<>>
  BY <1>1, ResultsStay DEF Read
<1>4. /\ got' \in Seq(Listing) /\ ToSet(got') = ToSet(got) \cup ToSet(page) /\ got' \o <<>> = got'
      /\ ToSet(<<>>) = {} /\ Len(<<>>) = 0
  <2>1. got' \in Seq(Listing)
    BY <1>1, <1>2
  <2>2. ToSet(got') = ToSet(got) \cup ToSet(page)
    BY <1>1, <1>2, Concatenation
  <2>3. got' \o <<>> = got'
    BY <2>1
  <2>4. ToSet(<<>>) = {} /\ Len(<<>>) = 0
    BY DEF ToSet
  <2>5. QED
    BY <2>1, <2>2, <2>3, <2>4
<1>5. TypeOK'
  <2>1. offset' \in 0 .. MaxOffset + Limit
    BY <1>1, <1>2
  <2>2. pc' \in {"idle", "waiting", "done", "refused"}
    BY <1>1
  <2>3. QED
    BY <1>1, <1>2, <1>4, <2>1, <2>2 DEF TypeOK
<1>6. PagingInv'
  <2>1. pc' # "idle" /\ (pc' = "waiting" => offset' <= MaxOffset)
    BY <1>1, <1>2
  <2>2. QED
    BY <1>1, <1>2, <2>1 DEF PagingInv, Waiting
<1>7. MayNotLose =>
        /\ start \subseteq Found(query)
        /\ \A l \in start \ (ToSet(got) \cup ToSet(page)) :
             Rank(l) >= offset + Len(page) /\ total > offset + Len(page)
  BY <1>1, <1>3 DEF IInv, CompleteInv, Waiting
<1>8. MayNotRepeat =>
        /\ IsInjective(got \o page)
        /\ \A l \in ToSet(got \o page) \cap Found(query) : Rank(l) < offset + Len(page)
  BY <1>1, <1>3 DEF IInv, UniqueInv, Waiting
<1>9. CompleteInv'
  <2> SUFFICES ASSUME MayNotLose
               PROVE  /\ start \subseteq Found(query)
                      /\ \A l \in start \ ToSet(got') : Rank(l) >= offset' + 0
    BY <1>1, <1>3, <1>4 DEF CompleteInv, MayNotLose
  <2>1. offset' + 0 = offset + Len(page)
    BY <1>1, <1>2
  <2>2. QED
    BY <1>4, <1>7, <2>1
<1>10. UniqueInv'
  <2> SUFFICES ASSUME MayNotRepeat
               PROVE  /\ IsInjective(got')
                      /\ \A l \in ToSet(got') \cap Found(query) : Rank(l) < offset' + 0
    BY <1>3, <1>4, <1>1 DEF UniqueInv, MayNotRepeat
  <2>1. offset' + 0 = offset + Len(page)
    BY <1>1, <1>2
  <2>2. QED
    BY <1>1, <1>8, <2>1
<1>11. PagedOnce'
  <2> SUFFICES ASSUME ~HasMore
               PROVE  /\ MayNotLose => start \subseteq ToSet(got')
                      /\ MayNotRepeat => IsInjective(got')
    BY <1>1 DEF PagedOnce, MayNotLose, MayNotRepeat
  <2>1. ~(total > offset + Len(page))
    BY <1>2 DEF HasMore
  <2>2. QED
    BY <1>1, <1>4, <1>7, <1>8, <2>1
<1>12. QED
  BY <1>5, <1>6, <1>9, <1>10, <1>11 DEF IInv

LEMMA NextInv == IInv /\ [Next]_vars => IInv'
<1> SUFFICES ASSUME IInv, [Next]_vars PROVE IInv'
  OBVIOUS
<1>1. CASE \E l \in Listing : CatalogueStep(l)
  BY <1>1, CatalogueStepChanges, ChangeInv DEF IInv
<1>2. CASE \E q \in Query : StartSearch(q)
  BY <1>2, StartSearchInv
<1>3. CASE SearchStep
  BY <1>3, ReadRowsInv, CountRowsInv, NextPageInv DEF SearchStep
<1>4. CASE UNCHANGED vars
  <2>1. UNCHANGED <<listing, changes, pc, query, offset, page, total, got, start, seen>>
    BY <1>4 DEF vars, client
  <2>2. Found(query)' = Found(query) /\ (\A l : Rank(l)' = Rank(l)) /\ Read' = Read
    BY <2>1, ResultsStay DEF Read
  <2>3. TypeOK' /\ PagingInv' /\ PagedOnce'
    BY <2>1 DEF IInv, TypeOK, PagingInv, PagedOnce, Waiting
  <2>4. CompleteInv'
    BY <2>1, <2>2 DEF IInv, CompleteInv, MayNotLose, Waiting
  <2>5. UniqueInv'
    BY <2>1, <2>2 DEF IInv, UniqueInv, MayNotRepeat, Waiting
  <2>6. QED
    BY <2>3, <2>4, <2>5 DEF IInv
<1>5. QED
  BY <1>1, <1>2, <1>3, <1>4 DEF Next

\* The inductive invariant of Discovery: where a search stands, whatever happened to the
\* catalogue since it began.
THEOREM Invariance == Spec => []IInv
<1>1. QED
  BY InitInv, NextInv, PTL DEF Spec

\* Rows, dates, pages and totals have the types of the schema and of the API, for any
\* catalogue and any number of changes to it.
THEOREM TypeCorrect == Spec => []TypeOK
<1>1. IInv => TypeOK
  BY DEF IInv
<1>2. QED
  BY <1>1, Invariance, PTL

\* A client that has followed hasMore to its end has every listing that stayed among the
\* results and none twice, except for the changes the search cannot see.
THEOREM PagingIsExact == Spec => []PagedOnce
<1>1. IInv => PagedOnce
  BY DEF IInv
<1>2. QED
  BY <1>1, Invariance, PTL

-----------------------------------------------------------------------------
(* The rails.                                                              *)

LEMMA GlobalRadius ==
  GlobalMaxKm \in Nat /\ \A l \in Listing : RadiusOf[CategoryOf[l]] <= GlobalMaxKm
<1> DEFINE Radii == {RadiusOf[c] : c \in DOMAIN RadiusOf}
<1>1. PICK c \in DOMAIN RadiusOf : \A d \in DOMAIN RadiusOf : RadiusOf[c] >= RadiusOf[d]
  BY DiscoveryAssumption
<1>2. RadiusOf[c] \in Radii /\ \A y \in Radii : RadiusOf[c] >= y
  BY <1>1
<1>3. GlobalMaxKm \in Radii /\ \A y \in Radii : GlobalMaxKm >= y
  BY <1>2 DEF GlobalMaxKm, Max
<1>4. QED
  BY <1>3, DiscoveryAssumption

\* Within the reach of its category means within the global radius.
LEMMA NearbyIsInReach ==
  ASSUME NEW category
  PROVE  Found([sort |-> "newest", category |-> category, km |-> GlobalMaxKm]) =
           {l \in Public \cap InReach : category \in {Null, CategoryOf[l]}}
<1> DEFINE q == [sort |-> "newest", category |-> category, km |-> GlobalMaxKm]
<1>1. q.km = GlobalMaxKm /\ q.category = category /\ GlobalMaxKm # Null
  BY GlobalRadius, DiscoveryAssumption
<1>2. \A l \in InReach : DistanceOf[l] <= GlobalMaxKm
  BY GlobalRadius, DiscoveryAssumption DEF InReach
<1>3. Found(q) = {l \in Public : q.category \in {Null, CategoryOf[l]} /\ l \in InReach}
  BY <1>1, <1>2 DEF Found
<1>4. QED
  BY <1>1, <1>3

\* In every state of the catalogue the rails show what a search for the same would find,
\* and whom a buyer can reach, for any categories, radii, sellers and prices.
THEOREM RailsAgree == Spec => []RailsAgreeWithSearch
<1>1. RailsAgreeWithSearch
  <2> DEFINE nearby(category) == Found([sort |-> "newest", category |-> category, km |-> GlobalMaxKm])
  <2>1. nearby(Null) = Public \cap InReach
    BY NearbyIsInReach
  <2>2. nearby(Services) = {l \in Public \cap InReach : CategoryOf[l] = Services}
    <3>1. Services # Null
      BY DiscoveryAssumption
    <3>2. QED
      BY <3>1, NearbyIsInReach
  <2>3. \A l \in Public \cap InReach :
          /\ l \in Listing /\ listing[l].status = "PUBLISHED" /\ ~listing[l].deleted
          /\ DistanceOf[l] <= GlobalMaxKm
    BY GlobalRadius, DiscoveryAssumption DEF Public, InReach
  <2> HIDE DEF nearby
  <2>4. Feed.aDecouvrir = nearby(Null) /\ Feed.servicesPresDeToi = nearby(Services)
    BY <2>1, <2>2 DEF Feed, ADecouvrir, ServicesPresDeToi
  <2>5. Feed.bonsPlans \cup Feed.bientotTermine \subseteq nearby(Null)
    BY <2>1 DEF Feed, BonsPlans, BientotTermine
  <2>6. nearby(Null) \subseteq FindPublished
    BY <2>1, <2>3 DEF FindPublished
  <2>7. {SellerOf[l] : l \in nearby(Null)} \subseteq Feed.vendeursProches
    BY <2>1, <2>3 DEF Feed, VendeursProches
  <2>8. \A s \in Feed.vendeursProches : ListBySeller(s) # {}
    BY DEF Feed, VendeursProches, ListBySeller
  <2>9. QED
    BY <2>4, <2>5, <2>6, <2>7, <2>8 DEF RailsAgreeWithSearch, nearby
<1>2. QED
  BY <1>1, PTL

=============================================================================
