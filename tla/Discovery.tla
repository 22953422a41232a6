-------------------------------- MODULE Discovery -------------------------------
(***************************************************************************)
(* What buyers see of the catalogue: paged searches and the rails of the   *)
(* home feed (src/src/modules/discovery/).                                 *)
(*                                                                         *)
(* A client pages through a search with LIMIT and OFFSET while sellers     *)
(* change the catalogue; the rows of a page and the number of all rows are *)
(* two queries of their own.                                               *)
(***************************************************************************)
EXTENDS Naturals, Sequences, SequencesExt, FiniteSetsExt

CONSTANTS
  Listing,
  CategoryOf, SellerOf, DistanceOf,  \* of each listing; the distance from the client
  RadiusOf,    \* kilometres, of each category
  Services,    \* the category of the services rail
  Ending,      \* listings low in stock or about to expire
  FirstDate,   \* when each listing was published, 0 for a draft
  FirstPrice,  \* what it costs at first
  Price,       \* prices
  Km,          \* distances a client may ask for
  Limit,       \* listings of a page
  MaxOffset,   \* largest offset a client may ask for
  MaxChanges,  \* bound on the changes of the catalogue
  Null

ASSUME DiscoveryAssumption ==
  /\ IsFiniteSet(Listing)
  /\ \A l \in Listing : CategoryOf[l] \in DOMAIN RadiusOf /\ DistanceOf[l] \in Nat
  /\ \A c \in DOMAIN RadiusOf : RadiusOf[c] \in Nat
  /\ \E c \in DOMAIN RadiusOf : \A d \in DOMAIN RadiusOf : RadiusOf[c] >= RadiusOf[d]
  /\ Services \in DOMAIN RadiusOf /\ Null \notin DOMAIN RadiusOf \cup Nat \cup Seq(Listing)
  /\ FirstDate \in [Listing -> 0 .. Cardinality(Listing)] /\ FirstPrice \in [Listing -> Price]
  /\ Price \cup Km \subseteq Nat /\ Ending \subseteq Listing
  /\ Limit \in Nat \ {0} /\ {MaxOffset, MaxChanges} \subseteq Nat

VARIABLES
  listing,   \* the rows of the catalogue
  changes,   \* changes of the catalogue so far: the clock of publishedAt
  pc,        \* the client: idle, waiting for a page, done or refused
  query,     \* what it searches
  offset,    \* of the page it waits for
  page,      \* the rows of that page once read, or Null
  total,     \* the number of all rows once counted, or Null
  got,       \* the listings received so far
  start,     \* history: the results when the search began
  seen       \* history: what happened to the results while the client was paging

client == <<pc, query, offset, page, total, got, start>>
vars == <<listing, changes, client, seen>>

\* Listings published before have the first dates.
MaxTime == Cardinality(Listing) + MaxChanges

Row == [status : {"DRAFT", "PUBLISHED", "ARCHIVED", "SOLD_OUT"}, deleted : BOOLEAN,
        expired : BOOLEAN, publishedAt : 0 .. MaxTime, price : Price]
Sort == {"newest", "priceAsc", "priceDesc", "distance"}
Query == {q \in [sort : Sort, category : DOMAIN RadiusOf \cup {Null}, km : Km \cup {Null}] :
            q.sort = "distance" => q.km # Null}
Event == {"entered", "left", "moved", "torn", "tied"}

\* The rows have the types of the schema, a page has at most Limit of them and the offset
\* is one the API accepts, or the first beyond.
TypeOK ==
  /\ listing \in [Listing -> Row] /\ changes \in 0 .. MaxChanges
  /\ pc \in {"idle", "waiting", "done", "refused"}
  /\ query \in Query \cup {Null}
  /\ offset \in 0 .. MaxOffset + Limit
  /\ page = Null \/ (page \in Seq(Listing) /\ Len(page) <= Limit)
  /\ total \in 0 .. Cardinality(Listing) \cup {Null}
  /\ got \in Seq(Listing)
  /\ start \subseteq Listing /\ seen \subseteq Event

Init ==
  /\ listing = [l \in Listing |->
       [status |-> IF FirstDate[l] = 0 THEN "DRAFT" ELSE "PUBLISHED", deleted |-> FALSE,
        expired |-> FALSE, price |-> FirstPrice[l], publishedAt |-> FirstDate[l]]]
  /\ changes = 0
  /\ pc = "idle" /\ query = Null /\ offset = 0 /\ page = Null /\ total = Null
  /\ got = <<>> /\ start = {} /\ seen = {}

-----------------------------------------------------------------------------
(* DiscoveryRepository.search.                                             *)

\* PUBLIC_FILTER
Public == {l \in Listing :
             listing[l].status = "PUBLISHED" /\ ~listing[l].deleted /\ ~listing[l].expired}

\* ST_DWithin with the radius of the category.
InReach == {l \in Listing : DistanceOf[l] <= RadiusOf[CategoryOf[l]]}

Found(q) ==
  {l \in Public :
     /\ q.category \in {Null, CategoryOf[l]}
     /\ q.km # Null => l \in InReach /\ DistanceOf[l] <= q.km}

\* orderClause: l comes before m.
Before(sort, l, m) ==
  LET newer == listing[l].publishedAt > listing[m].publishedAt
      cheaper == listing[l].price < listing[m].price
      dearer == listing[l].price > listing[m].price
  IN CASE sort = "newest"    -> newer
       [] sort = "priceAsc"  -> cheaper \/ (~dearer /\ newer)
       [] sort = "priceDesc" -> dearer \/ (~cheaper /\ newer)
       [] sort = "distance"  -> DistanceOf[l] < DistanceOf[m]

\* Mutant: no ORDER BY.
Unordered(sort, rows) == SetToSeqs(rows)

\* Any order of the rows that the clause allows.
Ordered(sort, rows) ==
  {s \in SetToSeqs(rows) : \A i, j \in 1 .. Len(s) : Before(sort, s[i], s[j]) => i < j}

Tied(sort, rows) ==
  \E l, m \in rows : l # m /\ ~Before(sort, l, m) /\ ~Before(sort, m, l)

\* LIMIT and OFFSET.
\* Mutant: one row more, to know whether there is a next page.
PageAndOne(rows) == SubSeq(rows, offset + 1, Min({offset + Limit + 1, Len(rows)}))

PageOf(rows) == SubSeq(rows, offset + 1, Min({offset + Limit, Len(rows)}))

-----------------------------------------------------------------------------
(* The catalogue changes under a client that is paging.                    *)

Waiting == pc = "waiting"

\* What a change means to the search under way; torn when it falls between the two
\* queries of a page.
Effect(l) ==
  IF ~Waiting THEN {} ELSE
  LET before == Found(query)
      after == Found(query)'
  IN  (IF after \ before # {} THEN {"entered"} ELSE {})
        \cup (IF before \ after # {} THEN {"left"} ELSE {})
        \cup (IF l \in before \cap after THEN {"moved"} ELSE {})
        \cup (IF (page = Null) # (total = Null) THEN {"torn"} ELSE {})

Change(l, row) ==
  /\ changes < MaxChanges /\ changes' = changes + 1
  /\ listing' = [listing EXCEPT ![l] = row]
  /\ UNCHANGED client
  /\ seen' = seen \cup Effect(l)

\* publish: the listing comes first among the newest.
Publish(l) ==
  /\ listing[l].status \in {"DRAFT", "SOLD_OUT"}
  /\ Change(l, [listing[l] EXCEPT !.status = "PUBLISHED", !.publishedAt = Cardinality(Listing) + changes + 1])

Archive(l) ==
  /\ listing[l].status # "ARCHIVED"
  /\ Change(l, [listing[l] EXCEPT !.status = "ARCHIVED"])

\* A checkout of the last unit.
SellOut(l) ==
  /\ listing[l].status = "PUBLISHED"
  /\ Change(l, [listing[l] EXCEPT !.status = "SOLD_OUT"])

\* A cancelled order restocks a listing, which keeps its date.
Restock(l) ==
  /\ listing[l].status = "SOLD_OUT"
  /\ Change(l, [listing[l] EXCEPT !.status = "PUBLISHED"])

SoftDelete(l) ==
  /\ ~listing[l].deleted
  /\ Change(l, [listing[l] EXCEPT !.status = "ARCHIVED", !.deleted = TRUE])

Expire(l) == ~listing[l].expired /\ Change(l, [listing[l] EXCEPT !.expired = TRUE])

Reprice(l) ==
  \E price \in Price \ {listing[l].price} : Change(l, [listing[l] EXCEPT !.price = price])

CatalogueStep(l) ==
  Publish(l) \/ Archive(l) \/ SellOut(l) \/ Restock(l) \/ SoftDelete(l) \/ Expire(l) \/ Reprice(l)

-----------------------------------------------------------------------------
(* A client pages through a search: SearchService.search.                  *)

StartSearch(q) ==
  /\ pc = "idle"
  /\ pc' = "waiting" /\ query' = q /\ start' = Found(q)
  /\ UNCHANGED <<listing, changes, offset, page, total, got, seen>>

ReadRows ==
  /\ Waiting /\ page = Null
  /\ \E rows \in Ordered(query.sort, Found(query)) : page' = PageOf(rows)
  /\ seen' = seen \cup (IF Tied(query.sort, Found(query)) THEN {"tied"} ELSE {})
  /\ UNCHANGED <<listing, changes, pc, query, offset, total, got, start>>

CountRows ==
  /\ Waiting /\ total = Null
  /\ total' = Cardinality(Found(query))
  /\ UNCHANGED <<listing, changes, pc, query, offset, page, got, start, seen>>

\* Mutant: the last page promises another.
HasMoreAtEnd == offset + Len(page) <= total

HasMore == offset + Len(page) < total

\* The answer, and the client's request for the next page; the offset has a limit.
NextPage ==
  /\ Waiting /\ Null \notin {page, total}
  /\ got' = got \o page
  /\ offset' = offset + Len(page)
  /\ pc' = IF ~HasMore THEN "done" ELSE IF offset' > MaxOffset THEN "refused" ELSE "waiting"
  /\ page' = Null /\ total' = Null
  /\ UNCHANGED <<listing, changes, query, start, seen>>

-----------------------------------------------------------------------------

SearchStep == ReadRows \/ CountRows \/ NextPage

Next ==
  \/ \E l \in Listing : CatalogueStep(l)
  \/ \E q \in Query : StartSearch(q)
  \/ SearchStep

Spec == Init /\ [][Next]_vars

\* A query that was sent is answered, and the client asks for the next page.
FairSpec == Spec /\ WF_vars(SearchStep)

-----------------------------------------------------------------------------
(* FeedService.getFeed: the rails of a client with a position, before LIMIT. *)

\* Mutant: the rail has one radius for all categories.
ADecouvrirGlobal == {l \in Public : DistanceOf[l] <= 30}

ADecouvrir == Public \cap InReach

\* Four times percentile_cont(0.25) of the prices of a category: between two rows the
\* value is interpolated.  The query looks at expired listings too.
QuartileTimes4(category) ==
  LET rows == {l \in Listing : listing[l].status = "PUBLISHED" /\ ~listing[l].deleted
                                /\ CategoryOf[l] = category}
      sorted == SetToSortSeq(rows, LAMBDA l, m : listing[l].price < listing[m].price)
      price(k) == listing[sorted[k]].price
      k == 1 + (Len(sorted) - 1) \div 4
      part == (Len(sorted) - 1) % 4
  IN  IF part = 0 THEN 4 * price(k) ELSE (4 - part) * price(k) + part * price(k + 1)

BonsPlans == {l \in Public \cap InReach : 4 * listing[l].price <= QuartileTimes4(CategoryOf[l])}

BientotTermine == Public \cap InReach \cap Ending

ServicesPresDeToi == {l \in Public \cap InReach : CategoryOf[l] = Services}

\* GLOBAL_MAX_KM mirrors the largest radius.
GlobalMaxKm == Max({RadiusOf[c] : c \in DOMAIN RadiusOf})

\* Sellers of whom a listing is for sale, expired or not, within the global radius.
VendeursProches ==
  {SellerOf[l] : l \in {m \in Listing : /\ listing[m].status = "PUBLISHED" /\ ~listing[m].deleted
                                         /\ DistanceOf[m] <= GlobalMaxKm}}

\* getFeed; what the viewer has looked at is left out.
Feed == [aDecouvrir |-> ADecouvrir, bonsPlans |-> BonsPlans, bientotTermine |-> BientotTermine,
         servicesPresDeToi |-> ServicesPresDeToi, vendeursProches |-> VendeursProches]

\* The page of a seller, as others see it, and the list of everything: expired ones too.
ListBySeller(s) ==
  {l \in Listing : SellerOf[l] = s /\ listing[l].status = "PUBLISHED" /\ ~listing[l].deleted}

FindPublished == {l \in Listing : listing[l].status = "PUBLISHED" /\ ~listing[l].deleted}

-----------------------------------------------------------------------------

\* A client that has seen the last page has received every listing that stayed among the
\* results, and none twice.  What the code does not promise is named: a listing that left
\* or moved, equal sort keys, or a change between the two queries of a page may lose one;
\* a listing that entered may repeat one (discovery.repository.ts:79-91).
PagedOnce ==
  pc = "done" =>
    /\ seen \cap {"left", "moved", "tied", "torn"} = {} => start \subseteq ToSet(got)
    /\ seen \cap {"entered", "moved", "tied"} = {} => IsInjective(got)

\* Following hasMore comes to an end, whatever sellers do meanwhile.
PagingEnds == Waiting ~> pc \in {"done", "refused"}

\* The queries at one place agree, each with a filter of its own: each rail shows listings
\* a search finds, two of them all of those; the list of everything misses none of them;
\* no seller of a listing in reach is left out, and none has an empty page
\* (discovery.repository.ts:62-69, 121-227, listings.repository.ts:87-99, 185-192).
RailsAgreeWithSearch ==
  LET nearby(category) == Found([sort |-> "newest", category |-> category, km |-> GlobalMaxKm]) IN
  /\ Feed.aDecouvrir = nearby(Null)
  /\ Feed.servicesPresDeToi = nearby(Services)
  /\ Feed.bonsPlans \cup Feed.bientotTermine \subseteq nearby(Null)
  /\ nearby(Null) \subseteq FindPublished
  /\ {SellerOf[l] : l \in nearby(Null)} \subseteq Feed.vendeursProches
  /\ \A s \in Feed.vendeursProches : ListBySeller(s) # {}

=============================================================================
