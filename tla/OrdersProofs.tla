----------------------------- MODULE OrdersProofs -----------------------------
(***************************************************************************)
(* Proofs about Orders, for any number of requests in flight, listings,    *)
(* orders, buyers and sellers and any cart contents.                       *)
(*                                                                         *)
(* The inductive invariant is IInv.  The stock ledger is not inductive by  *)
(* itself: createFromCart writes a quantity computed from a row it read    *)
(* earlier, so the ledger rests on LockedRowsAreCurrent, and that on the   *)
(* lock protocol.  RequestInv is what keeps a stale status check harmless  *)
(* enough for NoSkippedDispatch.                                           *)
(*                                                                         *)
(* Every step of Orders is a step of the ledger: because of what a request *)
(* remembers (RequestsKnow), and because a request that is alone with its  *)
(* order knows the order's status (AloneInv), or the order is contested.   *)
(* In the same way a checkout that is alone with its filling of a cart is  *)
(* its first (FillingsInv), or the filling is doubled.                     *)
(***************************************************************************)
EXTENDS OrdersRefinement, FiniteSetTheorems, WellFoundedInduction, TLAPS

IInv == TypeOK /\ RequestInv /\ LockedRowsAreCurrent /\ NoOversell /\ StockLedger

\* Whatever a row was, a sale or a restock of it is again a row.
LEMMA RowAfterSale ==
  ASSUME NEW row \in Row, NEW read \in Row, NEW n \in Nat
  PROVE  /\ AfterSale(row, read, n) \in Row
         /\ AfterSale(row, read, n).qty = read.qty - n
<1> DEFINE q == read.qty - n
           st == IF q = 0 THEN "SOLD_OUT" ELSE read.status
<1>1. q \in Int /\ st \in ListingStatus
  BY DEF Row, ListingStatus
<1>2. AfterSale(row, read, n) = [row EXCEPT !.qty = q, !.status = st]
  BY DEF AfterSale
<1> HIDE DEF q, st
<1>3. /\ [row EXCEPT !.qty = q, !.status = st] \in Row
      /\ [row EXCEPT !.qty = q, !.status = st].qty = q
  BY <1>1 DEF Row
<1>4. QED
  BY <1>2, <1>3 DEF q

LEMMA RowAfterRestock ==
  ASSUME NEW row \in Row, NEW n \in Nat
  PROVE  /\ AfterRestock(row, n) \in Row
         /\ AfterRestock(row, n).qty = row.qty + n
<1> DEFINE q == row.qty + n
           st == IF row.status = "SOLD_OUT" THEN "PUBLISHED" ELSE row.status
<1>1. q \in Int /\ st \in ListingStatus
  BY DEF Row, ListingStatus
<1>2. AfterRestock(row, n) = [row EXCEPT !.qty = q, !.status = st]
  BY DEF AfterRestock
<1> HIDE DEF q, st
<1>3. /\ [row EXCEPT !.qty = q, !.status = st] \in Row
      /\ [row EXCEPT !.qty = q, !.status = st].qty = q
  BY <1>1 DEF Row
<1>4. QED
  BY <1>2, <1>3 DEF q

\* Columns of a row may be overwritten with values of their types.
LEMMA RowRestated ==
  ASSUME NEW row \in Row, NEW q \in Nat, NEW c \in Currency
  PROVE  /\ [row EXCEPT !.qty = q, !.currency = c] \in Row
         /\ [row EXCEPT !.qty = q, !.currency = c].qty = q
<1>1. q \in Int
  OBVIOUS
<1>2. QED
  BY <1>1 DEF Row

LEMMA RowWithdrawn ==
  ASSUME NEW row \in Row
  PROVE  /\ [row EXCEPT !.deleted = TRUE, !.status = "ARCHIVED"] \in Row
         /\ [row EXCEPT !.deleted = TRUE, !.status = "ARCHIVED"].qty = row.qty
<1>1. ASSUME NEW d \in BOOLEAN, NEW st \in ListingStatus
      PROVE  /\ [row EXCEPT !.deleted = d, !.status = st] \in Row
             /\ [row EXCEPT !.deleted = d, !.status = st].qty = row.qty
  BY <1>1 DEF Row
<1>2. "ARCHIVED" \in ListingStatus
  BY DEF ListingStatus
<1>3. QED
  BY <1>1, <1>2

\* The value NULL is nobody's lock and no row.
LEMMA NullIsFresh == Null \notin Request /\ Null \notin Row
BY OrdersAssumption

LEMMA EmptyBasketType == NoBasket \in Basket /\ NothingSeen \in [ListingId -> Row \cup {Null}]
BY DEF NoBasket, NoItems, NothingSeen, Basket

\* A cleared cart is a cart.
LEMMA EmptiedType == ASSUME NEW c \in Basket PROVE Emptied(c) \in Basket
BY DEF Emptied, Basket, NoItems

LEMMA InitInv == Init => IInv
<1> SUFFICES ASSUME Init PROVE IInv
  OBVIOUS
<1> USE DEF Init
<1>1. TypeOK
  <2>1. cart \in [Buyer -> Basket]
    BY EmptyBasketType DEF NoBasket, NoItems, Basket
  <2>2. listing \in [ListingId -> Row] /\ supplied \in [ListingId -> Int]
    BY OrdersAssumption DEF Row
  <2>3. restocks \in [OrderId -> Nat] /\ contested \subseteq OrderId /\ doubled \subseteq Buyer \X Nat
    OBVIOUS
  <2>4. QED
    BY <2>1, <2>2, <2>3, EmptyBasketType DEF TypeOK, NoItems, OrderStatus, Absent
<1>2. RequestInv
  BY DEF RequestInv
<1>3. LockedRowsAreCurrent
  BY DEF LockedRowsAreCurrent, NothingSeen
<1>4. NoOversell
  BY OrdersAssumption DEF NoOversell
<1>5. StockLedger
  BY OrdersAssumption DEF StockLedger, NoItems, Row
<1>6. QED
  BY <1>1, <1>2, <1>3, <1>4, <1>5 DEF IInv

-----------------------------------------------------------------------------
(* The bookkeeping every request shares.                                   *)

RequestTypes ==
  /\ pc \in [Request -> {"idle", "checkout", "cancel", "transition", "setStatus"}]
  /\ basket \in [Request -> Basket]
  /\ target \in [Request -> OrderId \cup ListingId \cup {Null}]
  /\ goal \in [Request -> OrderStatus \cup ListingStatus \cup Actor \cup {Null}]
  /\ seen \in [Request -> [ListingId -> Row \cup {Null}]]

\* Begin gives r its new step and leaves what the other requests know alone.
LEMMA BeginFacts ==
  ASSUME RequestTypes, NEW r \in Request,
         NEW step \in {"checkout", "cancel", "transition", "setStatus"},
         NEW b \in Basket, NEW subject \in OrderId \cup ListingId \cup {Null},
         NEW aim \in OrderStatus \cup ListingStatus \cup Actor \cup {Null},
         Begin(r, step, b, subject, aim)
  PROVE  /\ RequestTypes'
         /\ pc'[r] = step /\ target'[r] = subject /\ goal'[r] = aim
         /\ \A q \in Request \ {r} :
              pc'[q] = pc[q] /\ target'[q] = target[q] /\ goal'[q] = goal[q]
         /\ seen' = seen
BY DEF RequestTypes, Begin

\* End makes r idle, lets go of its locks and leaves the other requests alone.
LEMMA EndFacts ==
  ASSUME RequestTypes, lock \in [ListingId -> Request \cup {Null}], NEW r \in Request, End(r)
  PROVE  /\ RequestTypes'
         /\ lock' \in [ListingId -> Request \cup {Null}]
         /\ pc'[r] = "idle" /\ seen'[r] = NothingSeen
         /\ \A q \in Request \ {r} :
              /\ pc'[q] = pc[q] /\ target'[q] = target[q]
              /\ goal'[q] = goal[q] /\ seen'[q] = seen[q]
         /\ \A l \in ListingId : lock'[l] = IF lock[l] = r THEN Null ELSE lock[l]
BY EmptyBasketType DEF RequestTypes, End

\* A request that only starts disturbs nothing that IInv says of the tables.
LEMMA StartInv ==
  ASSUME IInv, NEW r \in Request,
         NEW step \in {"checkout", "cancel", "transition", "setStatus"},
         NEW b \in Basket, NEW subject \in OrderId \cup ListingId \cup {Null},
         NEW aim \in OrderStatus \cup ListingStatus \cup Actor \cup {Null},
         Begin(r, step, b, subject, aim),
         UNCHANGED <<listing, cart, status, placed, lock, supplied, sold, returned, restocks>>,
         contested' \subseteq OrderId, doubled' \subseteq Buyer \X Nat,
         step = "transition" =>
           /\ subject \in OrderId /\ status[subject] # Absent
           /\ aim \in {"ON_THE_WAY", "DELIVERED"}
           /\ aim = "DELIVERED" => status[subject] # "PREPARING",
         step = "cancel" => subject \in OrderId /\ status[subject] # Absent,
         step = "setStatus" => subject \in ListingId /\ aim \in ListingStatus
  PROVE  IInv'
<1>1. RequestTypes
  BY DEF IInv, TypeOK, RequestTypes
<1>2. /\ RequestTypes'
      /\ pc'[r] = step /\ target'[r] = subject /\ goal'[r] = aim
      /\ \A q \in Request \ {r} :
           pc'[q] = pc[q] /\ target'[q] = target[q] /\ goal'[q] = goal[q]
      /\ seen' = seen
  BY <1>1, BeginFacts
<1>3. TypeOK'
  BY <1>2 DEF IInv, TypeOK, RequestTypes
<1>4. RequestInv'
  BY <1>2 DEF IInv, RequestInv
<1>5. LockedRowsAreCurrent' /\ NoOversell' /\ StockLedger'
  BY <1>2 DEF IInv, LockedRowsAreCurrent, NoOversell, StockLedger
<1>6. QED
  BY <1>3, <1>4, <1>5 DEF IInv

LEMMA ContestTypes ==
  ASSUME IInv, NEW o \in OrderId, Contest(o)
  PROVE  /\ doubled' \subseteq Buyer \X Nat /\ contested' \subseteq OrderId
         /\ contested \subseteq contested'
         /\ UNCHANGED <<supplied, sold, returned, restocks, doubled>>
BY DEF Contest, IInv, TypeOK

-----------------------------------------------------------------------------
(* One lemma per action that writes.                                       *)

LEMMA EditCartInv == ASSUME IInv, NEW b \in Buyer, EditCart(b) PROVE IInv'
<1>1. PICK c \in CartContents :
        cart' = [cart EXCEPT ![b] = [buyer |-> b, seller |-> c.seller, currency |-> c.currency,
                                     items |-> c.items, fill |-> cart[b].fill + 1]]
  BY DEF EditCart
<1>2. cart' \in [Buyer -> Basket]
  BY <1>1, OrdersAssumption DEF IInv, TypeOK, Basket
<1>3. UNCHANGED <<listing, status, placed, lock, request, history>>
  BY DEF EditCart
<1>4. TypeOK'
  BY <1>2, <1>3 DEF IInv, TypeOK, request, history
<1>5. RequestInv' /\ LockedRowsAreCurrent' /\ NoOversell' /\ StockLedger'
  BY <1>3 DEF IInv, RequestInv, LockedRowsAreCurrent, NoOversell, StockLedger, request, history
<1>6. QED
  BY <1>4, <1>5 DEF IInv

LEMMA LockListingInv ==
  ASSUME IInv, NEW r \in Request, NEW l \in ListingId, LockListing(r, l) PROVE IInv'
<1> USE DEF LockListing
<1>1. TypeOK'
  BY DEF IInv, TypeOK, history
<1>2. RequestInv'
  BY DEF IInv, RequestInv
<1>3. LockedRowsAreCurrent'
  <2> SUFFICES ASSUME NEW q \in Request, NEW k \in ListingId, seen'[q][k] # Null
               PROVE  lock'[k] = q /\ seen'[q][k] = listing'[k]
    BY DEF LockedRowsAreCurrent
  <2>1. CASE q = r /\ k = l
    BY <2>1 DEF IInv, TypeOK
  <2>2. CASE q # r \/ k # l
    <3>1. seen'[q][k] = seen[q][k]
      BY <2>2 DEF IInv, TypeOK
    <3>2. lock[k] = q /\ seen[q][k] = listing[k]
      BY <3>1 DEF IInv, LockedRowsAreCurrent
    <3>3. k # l
      BY <3>2, NullIsFresh
    <3>4. QED
      BY <3>1, <3>2, <3>3 DEF IInv, TypeOK
  <2>3. QED
    BY <2>1, <2>2
<1>4. NoOversell' /\ StockLedger'
  BY DEF IInv, NoOversell, StockLedger, history
<1>5. QED
  BY <1>1, <1>2, <1>3, <1>4 DEF IInv

\* A request that ends after writing status as given leaves RequestInv true.
LEMMA EndRequestInv ==
  ASSUME IInv, NEW r \in Request, End(r),
         \A o \in OrderId :
           /\ status[o] # Absent => status'[o] # Absent
           /\ status[o] # Absent /\ status[o] # "PREPARING" => status'[o] # "PREPARING"
  PROVE  RequestInv'
<1>1. RequestTypes /\ lock \in [ListingId -> Request \cup {Null}]
  BY DEF IInv, TypeOK, RequestTypes
<1>2. /\ pc'[r] = "idle"
      /\ \A q \in Request \ {r} :
           pc'[q] = pc[q] /\ target'[q] = target[q] /\ goal'[q] = goal[q]
  BY <1>1, EndFacts
<1>3. SUFFICES ASSUME NEW q \in Request \ {r}
               PROVE  /\ pc[q] = "transition" =>
                           /\ target[q] \in OrderId /\ status'[target[q]] # Absent
                           /\ goal[q] \in {"ON_THE_WAY", "DELIVERED"}
                           /\ goal[q] = "DELIVERED" => status'[target[q]] # "PREPARING"
                      /\ pc[q] = "cancel" => target[q] \in OrderId /\ status'[target[q]] # Absent
                      /\ pc[q] = "setStatus" => target[q] \in ListingId /\ goal[q] \in ListingStatus
  BY <1>2 DEF RequestInv
<1>4. QED
  BY <1>3 DEF IInv, RequestInv

\* Rows nobody but r has locked may be written by r when it ends.
LEMMA EndLockedRows ==
  ASSUME IInv, NEW r \in Request, End(r),
         \A l \in ListingId : listing'[l] = listing[l] \/ lock[l] \in {r, Null}
  PROVE  LockedRowsAreCurrent'
<1>1. RequestTypes /\ lock \in [ListingId -> Request \cup {Null}]
  BY DEF IInv, TypeOK, RequestTypes
<1>2. /\ seen'[r] = NothingSeen
      /\ \A q \in Request \ {r} : seen'[q] = seen[q]
      /\ \A l \in ListingId : lock'[l] = IF lock[l] = r THEN Null ELSE lock[l]
  BY <1>1, EndFacts
<1>3. SUFFICES ASSUME NEW q \in Request, NEW l \in ListingId, seen'[q][l] # Null
               PROVE  lock'[l] = q /\ seen'[q][l] = listing'[l]
  BY DEF LockedRowsAreCurrent
<1>4. q # r /\ seen'[q][l] = seen[q][l]
  BY <1>2, <1>3 DEF NothingSeen
<1>5. lock[l] = q /\ seen[q][l] = listing[l]
  BY <1>3, <1>4 DEF IInv, LockedRowsAreCurrent
<1>6. QED
  BY <1>2, <1>4, <1>5, NullIsFresh

LEMMA EndTypes ==
  ASSUME IInv, NEW r \in Request, End(r)
  PROVE  RequestTypes' /\ lock' \in [ListingId -> Request \cup {Null}]
BY EndFacts DEF IInv, TypeOK, RequestTypes

LEMMA AbortInv ==
  ASSUME IInv, NEW r \in Request, End(r),
         UNCHANGED <<listing, cart, status, placed, history>>
  PROVE  IInv'
<1>1. TypeOK'
  BY EndTypes DEF IInv, TypeOK, RequestTypes, history
<1>2. RequestInv' /\ LockedRowsAreCurrent'
  BY EndRequestInv, EndLockedRows
<1>3. NoOversell' /\ StockLedger'
  BY DEF IInv, NoOversell, StockLedger, history
<1>4. QED
  BY <1>1, <1>2, <1>3 DEF IInv

\* The heart of the argument: the quantity written is computed from the row
\* that was read, and by LockedRowsAreCurrent that is the row overwritten.
LEMMA CommitCheckoutInv ==
  ASSUME IInv, NEW r \in Request, NEW o \in OrderId, CommitCheckout(r, o) PROVE IInv'
<1> DEFINE b == basket[r]
<1>1. /\ pc[r] = "checkout" /\ Granted(r) /\ Acceptable(r) /\ status[o] = Absent
      /\ listing' = [l \in ListingId |->
            IF l \in Lines(b) THEN AfterSale(listing[l], seen[r][l], b.items[l]) ELSE listing[l]]
      /\ sold' = [l \in ListingId |-> sold[l] + b.items[l]]
      /\ status' = [status EXCEPT ![o] = "PREPARING"]
      /\ placed' = [placed EXCEPT ![o] = b]
      /\ cart' = [cart EXCEPT ![b.buyer] = Emptied(cart[b.buyer])]
      /\ End(r)
      /\ UNCHANGED <<supplied, returned, restocks, contested, doubled>>
  BY DEF CommitCheckout
<1>2. /\ b \in Basket
      /\ \A l \in ListingId : b.items[l] \in Nat /\ (l \notin Lines(b) => b.items[l] = 0)
  BY DEF IInv, TypeOK, Basket, Lines
<1> HIDE DEF b
<1>3. \A l \in Lines(b) :
        /\ l \in ListingId /\ lock[l] = r
        /\ seen[r][l] = listing[l] /\ seen[r][l] \in Row
        /\ seen[r][l].qty >= b.items[l]
  <2> SUFFICES ASSUME NEW l \in Lines(b)
               PROVE  /\ l \in ListingId /\ lock[l] = r
                      /\ seen[r][l] = listing[l] /\ seen[r][l] \in Row
                      /\ seen[r][l].qty >= b.items[l]
    OBVIOUS
  <2>1. l \in ListingId
    BY DEF Lines
  <2>2. seen[r][l] # Null
    BY <1>1 DEF Granted, b
  <2>3. lock[l] = r /\ seen[r][l] = listing[l]
    BY <2>1, <2>2 DEF IInv, LockedRowsAreCurrent
  <2>4. seen[r][l].qty >= b.items[l]
    BY <1>1 DEF Acceptable, b
  <2>5. QED
    BY <2>1, <2>3, <2>4 DEF IInv, TypeOK
<1>4. \A l \in ListingId :
        /\ listing'[l] \in Row
        /\ listing'[l].qty = listing[l].qty - b.items[l]
        /\ listing'[l].qty >= 0
  <2> SUFFICES ASSUME NEW l \in ListingId
               PROVE  /\ listing'[l] \in Row
                      /\ listing'[l].qty = listing[l].qty - b.items[l]
                      /\ listing'[l].qty >= 0
    OBVIOUS
  <2>1. listing[l] \in Row /\ listing[l].qty \in Int /\ listing[l].qty >= 0
    BY DEF IInv, TypeOK, NoOversell, Row
  <2>2. CASE l \in Lines(b)
    <3>1. listing'[l] = AfterSale(listing[l], seen[r][l], b.items[l])
      BY <1>1, <2>2
    <3>2. /\ AfterSale(listing[l], seen[r][l], b.items[l]) \in Row
          /\ AfterSale(listing[l], seen[r][l], b.items[l]).qty = seen[r][l].qty - b.items[l]
      BY <1>2, <1>3, <2>1, <2>2, RowAfterSale
    <3>3. QED
      BY <1>2, <1>3, <2>1, <2>2, <3>1, <3>2
  <2>3. CASE l \notin Lines(b)
    BY <1>1, <1>2, <2>1, <2>3
  <2>4. QED
    BY <2>2, <2>3
<1>5. TypeOK'
  <2>1. cart' \in [Buyer -> Basket]
    BY <1>1, EmptiedType DEF IInv, TypeOK
  <2>2. sold' \in [ListingId -> Int]
    BY <1>1, <1>2 DEF IInv, TypeOK
  <2>3. listing' \in [ListingId -> Row]
    BY <1>1, <1>4
  <2>4. status' \in [OrderId -> OrderStatus \cup {Absent}] /\ placed' \in [OrderId -> Basket]
    BY <1>1, <1>2 DEF IInv, TypeOK, OrderStatus
  <2>5. RequestTypes' /\ lock' \in [ListingId -> Request \cup {Null}]
    BY <1>1, EndTypes
  <2>6. supplied' \in [ListingId -> Int] /\ returned' \in [ListingId -> Int]
    BY <1>1 DEF IInv, TypeOK
  <2>7. /\ restocks' \in [OrderId -> Nat] /\ contested' \subseteq OrderId
        /\ doubled' \subseteq Buyer \X Nat
    BY <1>1 DEF IInv, TypeOK
  <2>8. QED
    BY <2>1, <2>2, <2>3, <2>4, <2>5, <2>6, <2>7 DEF TypeOK, RequestTypes
<1>6. RequestInv'
  BY <1>1, EndRequestInv DEF IInv, TypeOK, Absent
<1>7. LockedRowsAreCurrent'
  BY <1>1, <1>3, EndLockedRows
<1>8. NoOversell'
  BY <1>4 DEF NoOversell
<1>9. StockLedger'
  BY <1>1, <1>2, <1>4 DEF IInv, TypeOK, StockLedger, Row
<1>10. QED
  BY <1>5, <1>6, <1>7, <1>8, <1>9 DEF IInv

LEMMA CommitTransitionInv ==
  ASSUME IInv, NEW r \in Request, CommitTransition(r) PROVE IInv'
<1>1. target[r] \in OrderId /\ goal[r] \in {"ON_THE_WAY", "DELIVERED"} /\ End(r)
  BY DEF IInv, RequestInv, CommitTransition
<1>2. status' = [status EXCEPT ![target[r]] = goal[r]]
  BY DEF CommitTransition
<1>3. UNCHANGED <<listing, cart, placed, history>>
  BY DEF CommitTransition
<1>4. TypeOK'
  <2>1. status' \in [OrderId -> OrderStatus \cup {Absent}]
    BY <1>1, <1>2 DEF IInv, TypeOK, OrderStatus
  <2>2. QED
    BY <1>1, <1>3, <2>1, EndTypes DEF IInv, TypeOK, RequestTypes, history
<1>5. RequestInv'
  BY <1>1, <1>2, EndRequestInv DEF IInv, TypeOK, Absent
<1>6. LockedRowsAreCurrent'
  BY <1>1, <1>3, EndLockedRows
<1>7. NoOversell' /\ StockLedger'
  BY <1>3 DEF IInv, NoOversell, StockLedger, history
<1>8. QED
  BY <1>4, <1>5, <1>6, <1>7 DEF IInv

LEMMA CommitCancelInv ==
  ASSUME IInv, NEW r \in Request, CommitCancel(r) PROVE IInv'
<1> DEFINE Restocked == {l \in Lines(basket[r]) : seen[r][l] # Null}
           n == basket[r].items
<1>1. /\ target[r] \in OrderId /\ End(r)
      /\ status' = [status EXCEPT ![target[r]] = "CANCELLED"]
      /\ listing' = [l \in ListingId |->
            IF l \in Restocked THEN AfterRestock(listing[l], n[l]) ELSE listing[l]]
      /\ returned' = [l \in ListingId |->
            IF l \in Restocked THEN returned[l] + n[l] ELSE returned[l]]
      /\ restocks' = [restocks EXCEPT ![target[r]] = @ + 1]
      /\ UNCHANGED <<cart, placed, supplied, sold, contested, doubled>>
  BY DEF IInv, RequestInv, CommitCancel
<1>2. \A l \in ListingId : n[l] \in Nat /\ (l \in Restocked => lock[l] = r)
  BY DEF IInv, TypeOK, Basket, LockedRowsAreCurrent
<1> HIDE DEF Restocked, n
<1>3. \A l \in ListingId :
        /\ listing'[l] \in Row
        /\ listing'[l].qty = IF l \in Restocked THEN listing[l].qty + n[l] ELSE listing[l].qty
  <2> SUFFICES ASSUME NEW l \in ListingId
               PROVE  /\ listing'[l] \in Row
                      /\ listing'[l].qty = IF l \in Restocked THEN listing[l].qty + n[l]
                                                              ELSE listing[l].qty
    OBVIOUS
  <2>1. listing[l] \in Row
    BY DEF IInv, TypeOK
  <2>2. QED
    BY <1>1, <1>2, <2>1, RowAfterRestock
<1>4. TypeOK'
  <2>1. listing' \in [ListingId -> Row] /\ returned' \in [ListingId -> Int]
    BY <1>1, <1>2, <1>3 DEF IInv, TypeOK
  <2>2. status' \in [OrderId -> OrderStatus \cup {Absent}] /\ restocks' \in [OrderId -> Nat]
    BY <1>1 DEF IInv, TypeOK, OrderStatus
  <2>3. QED
    BY <1>1, <2>1, <2>2, EndTypes DEF IInv, TypeOK, RequestTypes
<1>5. RequestInv'
  BY <1>1, EndRequestInv DEF IInv, TypeOK, Absent
<1>6. LockedRowsAreCurrent'
  BY <1>1, <1>2, EndLockedRows
<1>7. NoOversell'
  <2> SUFFICES ASSUME NEW l \in ListingId PROVE listing'[l].qty >= 0
    BY DEF NoOversell
  <2>1. listing[l].qty \in Int /\ listing[l].qty >= 0
    BY DEF IInv, TypeOK, NoOversell, Row
  <2>2. QED
    BY <1>2, <1>3, <2>1
<1>8. StockLedger'
  BY <1>1, <1>2, <1>3 DEF IInv, TypeOK, StockLedger, Row
<1>9. QED
  BY <1>4, <1>5, <1>6, <1>7, <1>8 DEF IInv

\* A seller's UPDATE waits for the row lock, so no transaction has read the row.
LEMMA SellerWriteKeepsLocks ==
  ASSUME IInv, NEW l \in ListingId, lock[l] = Null, UNCHANGED <<lock, seen>>,
         \A k \in ListingId \ {l} : listing'[k] = listing[k]
  PROVE  LockedRowsAreCurrent'
BY NullIsFresh DEF IInv, LockedRowsAreCurrent

LEMMA UpdateListingInv ==
  ASSUME IInv, NEW l \in ListingId, NEW qty \in Quantity, NEW currency \in Currency,
         UpdateListing(l, qty, currency)
  PROVE  IInv'
<1>1. /\ lock[l] = Null
      /\ listing' = [listing EXCEPT ![l].qty = qty, ![l].currency = currency]
      /\ supplied' = [supplied EXCEPT ![l] = @ + qty - listing[l].qty]
      /\ UNCHANGED <<cart, status, placed, lock, request>>
      /\ UNCHANGED <<sold, returned, restocks, contested, doubled>>
  BY DEF UpdateListing
<1>2. qty \in Nat
  BY OrdersAssumption
<1>3. /\ listing' \in [ListingId -> Row] /\ listing'[l].qty = qty
      /\ \A k \in ListingId \ {l} : listing'[k] = listing[k]
  <2>1. /\ listing \in [ListingId -> Row] /\ listing[l] \in Row
        /\ listing'[l] = [listing[l] EXCEPT !.qty = qty, !.currency = currency]
    BY <1>1 DEF IInv, TypeOK
  <2>2. listing'[l] \in Row /\ listing'[l].qty = qty
    <3>1. /\ [listing[l] EXCEPT !.qty = qty, !.currency = currency] \in Row
          /\ [listing[l] EXCEPT !.qty = qty, !.currency = currency].qty = qty
      BY <1>2, <2>1, RowRestated
    <3>2. QED
      BY <2>1, <3>1
  <2>3. QED
    BY <1>1, <2>1, <2>2
<1>4. \A k \in ListingId : listing[k].qty \in Int
  BY DEF IInv, TypeOK, Row
<1>5. /\ supplied' \in [ListingId -> Int] /\ supplied'[l] = supplied[l] + qty - listing[l].qty
      /\ \A k \in ListingId \ {l} : supplied'[k] = supplied[k]
  BY <1>1, <1>2, <1>4 DEF IInv, TypeOK
<1>6. TypeOK'
  BY <1>1, <1>3, <1>5 DEF IInv, TypeOK, request
<1>7. RequestInv'
  BY <1>1 DEF IInv, RequestInv, request
<1>8. LockedRowsAreCurrent'
  BY <1>1, <1>3, SellerWriteKeepsLocks DEF request
<1>9. NoOversell'
  BY <1>2, <1>3 DEF IInv, NoOversell
<1>10. StockLedger'
  <2> SUFFICES ASSUME NEW k \in ListingId
               PROVE  listing'[k].qty = supplied'[k] - sold[k] + returned[k]
    BY <1>1 DEF StockLedger
  <2>1. listing[k].qty = supplied[k] - sold[k] + returned[k]
    BY DEF IInv, StockLedger
  <2>2. supplied[k] \in Int /\ sold[k] \in Int /\ returned[k] \in Int
    BY DEF IInv, TypeOK
  <2>3. QED
    BY <1>2, <1>3, <1>4, <1>5, <2>1, <2>2
<1>11. QED
  BY <1>6, <1>7, <1>8, <1>9, <1>10 DEF IInv

LEMMA SoftDeleteInv == ASSUME IInv, NEW l \in ListingId, SoftDelete(l) PROVE IInv'
<1>1. /\ lock[l] = Null
      /\ listing' = [listing EXCEPT ![l].deleted = TRUE, ![l].status = "ARCHIVED"]
      /\ UNCHANGED <<cart, status, placed, lock, request, history>>
  BY DEF SoftDelete
<1>2. /\ listing' \in [ListingId -> Row]
      /\ \A k \in ListingId : listing'[k].qty = listing[k].qty
      /\ \A k \in ListingId \ {l} : listing'[k] = listing[k]
  <2>1. /\ listing \in [ListingId -> Row] /\ listing[l] \in Row
        /\ listing'[l] = [listing[l] EXCEPT !.deleted = TRUE, !.status = "ARCHIVED"]
    BY <1>1 DEF IInv, TypeOK
  <2>2. listing'[l] \in Row /\ listing'[l].qty = listing[l].qty
    BY <2>1, RowWithdrawn
  <2>3. QED
    BY <1>1, <2>1, <2>2
<1>3. TypeOK' /\ RequestInv'
  BY <1>1, <1>2 DEF IInv, TypeOK, RequestInv, request, history
<1>4. LockedRowsAreCurrent'
  BY <1>1, <1>2, SellerWriteKeepsLocks DEF request
<1>5. NoOversell' /\ StockLedger'
  BY <1>1, <1>2 DEF IInv, NoOversell, StockLedger, history
<1>6. QED
  BY <1>3, <1>4, <1>5 DEF IInv

LEMMA CommitSetStatusInv == ASSUME IInv, NEW r \in Request, CommitSetStatus(r) PROVE IInv'
<1> DEFINE l == target[r]
<1>1. l \in ListingId /\ goal[r] \in ListingStatus
  BY DEF IInv, RequestInv, CommitSetStatus
<1>2. /\ lock[l] = Null /\ End(r)
      /\ listing' = [listing EXCEPT ![l].status = goal[r]]
      /\ UNCHANGED <<cart, status, placed, history>>
  BY DEF CommitSetStatus
<1> HIDE DEF l
<1>3. /\ listing' \in [ListingId -> Row]
      /\ \A k \in ListingId : listing'[k].qty = listing[k].qty
      /\ \A k \in ListingId \ {l} : listing'[k] = listing[k]
  BY <1>1, <1>2 DEF IInv, TypeOK, Row
<1>4. TypeOK'
  BY <1>2, <1>3, EndTypes DEF IInv, TypeOK, RequestTypes, history
<1>5. RequestInv' /\ LockedRowsAreCurrent'
  BY <1>1, <1>2, <1>3, EndRequestInv, EndLockedRows
<1>6. NoOversell' /\ StockLedger'
  BY <1>2, <1>3 DEF IInv, NoOversell, StockLedger, history
<1>7. QED
  BY <1>4, <1>5, <1>6 DEF IInv

-----------------------------------------------------------------------------
(* The invariant and what follows from it.                                 *)

LEMMA NextInv == IInv /\ [Next]_vars => IInv'
<1> SUFFICES ASSUME IInv, [Next]_vars PROVE IInv'
  OBVIOUS
<1>1. CASE BuyerStep
  <2>1. PICK b \in Buyer : EditCart(b) \/ (\E r \in Request : StartCheckout(r, b))
    BY <1>1 DEF BuyerStep
  <2>2. CASE EditCart(b)
    BY <2>2, EditCartInv
  <2>3. ASSUME NEW r \in Request, StartCheckout(r, b) PROVE IInv'
    <3>1. cart[b] \in Basket /\ cart[b].fill \in Nat
      BY DEF IInv, TypeOK, Basket
    <3>2. /\ doubled' \subseteq Buyer \X Nat /\ contested' \subseteq OrderId
          /\ UNCHANGED <<supplied, sold, returned, restocks>>
      BY <2>3, <3>1 DEF StartCheckout, Double, IInv, TypeOK
    <3>3. QED
      BY <2>3, <3>1, <3>2, StartInv DEF StartCheckout
  <2>4. QED
    BY <2>1, <2>2, <2>3
<1>2. CASE SellerStep
  <2>1. PICK l \in ListingId :
          \/ SoftDelete(l)
          \/ \E q \in Quantity, c \in Currency : UpdateListing(l, q, c)
          \/ \E r \in Request, s \in {"PUBLISHED", "ARCHIVED"} : StartSetStatus(r, l, s)
    BY <1>2 DEF SellerStep
  <2>2. CASE SoftDelete(l)
    BY <2>2, SoftDeleteInv
  <2>3. ASSUME NEW q \in Quantity, NEW c \in Currency, UpdateListing(l, q, c) PROVE IInv'
    BY <2>3, UpdateListingInv
  <2>4. ASSUME NEW r \in Request, NEW s \in {"PUBLISHED", "ARCHIVED"}, StartSetStatus(r, l, s)
        PROVE  IInv'
    <3>1. s \in ListingStatus
      BY DEF ListingStatus
    <3>2. /\ doubled' \subseteq Buyer \X Nat /\ contested' \subseteq OrderId
          /\ UNCHANGED <<supplied, sold, returned, restocks>>
      BY <2>4 DEF StartSetStatus, history, IInv, TypeOK
    <3>3. QED
      BY <2>4, <3>1, <3>2, StartInv, EmptyBasketType DEF StartSetStatus
  <2>5. QED
    BY <2>1, <2>2, <2>3, <2>4
<1>3. CASE OrderStep
  <2>1. PICK r \in Request, o \in OrderId :
          \/ CommitCheckout(r, o)
          \/ \E to \in OrderStatus : StartTransition(r, o, to)
          \/ \E actor \in Actor : StartCancel(r, o, actor)
    BY <1>3 DEF OrderStep
  <2>2. CASE CommitCheckout(r, o)
    BY <2>2, CommitCheckoutInv
  <2>3. ASSUME NEW to \in OrderStatus, StartTransition(r, o, to) PROVE IInv'
    <3>1. to \in {"ON_THE_WAY", "DELIVERED"} /\ (to = "DELIVERED" => status[o] # "PREPARING")
      BY <2>3 DEF StartTransition, OrderTransitions, OrderStatus, IInv, TypeOK, Absent
    <3>2. Contest(o)
      BY <2>3 DEF StartTransition
    <3>3. QED
      BY <2>3, <3>1, <3>2, ContestTypes, StartInv, EmptyBasketType DEF StartTransition
  <2>4. ASSUME NEW actor \in Actor, StartCancel(r, o, actor) PROVE IInv'
    <3>1. placed[o] \in Basket
      BY DEF IInv, TypeOK
    <3>2. Contest(o)
      BY <2>4 DEF StartCancel
    <3>3. QED
      BY <2>4, <3>1, <3>2, ContestTypes, StartInv DEF StartCancel
  <2>5. QED
    BY <2>1, <2>2, <2>3, <2>4
<1>4. CASE RequestStep
  <2>1. PICK r \in Request :
          \/ \E l \in ListingId : LockListing(r, l)
          \/ RejectCheckout(r)
          \/ CommitTransition(r)
          \/ CommitCancel(r)
          \/ CommitSetStatus(r)
          \/ Abort(r)
    BY <1>4 DEF RequestStep
  <2>2. CASE \E l \in ListingId : LockListing(r, l)
    BY <2>2, LockListingInv
  <2>3. CASE RejectCheckout(r) \/ Abort(r)
    BY <2>3, AbortInv DEF RejectCheckout, Abort
  <2>4. CASE CommitTransition(r) \/ CommitCancel(r) \/ CommitSetStatus(r)
    BY <2>4, CommitTransitionInv, CommitCancelInv, CommitSetStatusInv
  <2>5. QED
    BY <2>1, <2>2, <2>3, <2>4
<1>5. CASE UNCHANGED vars
  BY <1>5 DEF IInv, TypeOK, RequestInv, LockedRowsAreCurrent, NoOversell, StockLedger,
              vars, request, history
<1>6. QED
  BY <1>1, <1>2, <1>3, <1>4, <1>5 DEF Next

\* The invariant behind everything below holds of every behaviour.
THEOREM Invariance == Spec => []IInv
BY InitInv, NextInv, PTL DEF Spec

\* Every column and every piece of request state keeps its type.
THEOREM TypeCorrect == Spec => []TypeOK
<1>1. IInv => TypeOK
  BY DEF IInv
<1>2. QED
  BY <1>1, Invariance, PTL

\* createFromCart never takes stock below zero.
THEOREM NeverOversold == Spec => []NoOversell
<1>1. IInv => NoOversell
  BY DEF IInv
<1>2. QED
  BY <1>1, Invariance, PTL

\* Stock always equals what was supplied, minus sold, plus returned.
THEOREM StockAccounted == Spec => []StockLedger
<1>1. IInv => StockLedger
  BY DEF IInv
<1>2. QED
  BY <1>1, Invariance, PTL

\* What a transaction read under FOR UPDATE is current until it ends.
THEOREM LocksHold == Spec => []LockedRowsAreCurrent
<1>1. IInv => LockedRowsAreCurrent
  BY DEF IInv
<1>2. QED
  BY <1>1, Invariance, PTL

-----------------------------------------------------------------------------
(* Action properties.                                                      *)

SoldAsListedStep ==
  \A o \in OrderId : status[o] = Absent /\ status'[o] # Absent =>
    \A l \in Lines(placed'[o]) :
      /\ ~listing[l].deleted /\ listing[l].status = "PUBLISHED"
      /\ SellerOf[l] = placed'[o].seller
      /\ listing[l].currency = placed'[o].currency
      /\ listing[l].qty >= placed'[o].items[l]

NoSkippedDispatchStep ==
  \A o \in OrderId :
    /\ status[o] = "PREPARING" => status'[o] \in {"PREPARING", "ON_THE_WAY", "CANCELLED"}
    /\ status[o] \notin {Absent, "PREPARING"} => status'[o] \notin {Absent, "PREPARING"}

\* The steps that write an order's status, and the only ones.
LEMMA StatusWriters ==
  ASSUME [Next]_vars
  PROVE  \/ UNCHANGED status
         \/ \E r \in Request, o \in OrderId : CommitCheckout(r, o)
         \/ \E r \in Request : CommitTransition(r) \/ CommitCancel(r)
<1>1. CASE BuyerStep
  BY <1>1 DEF BuyerStep, EditCart, StartCheckout
<1>2. CASE SellerStep
  BY <1>2 DEF SellerStep, SoftDelete, UpdateListing, StartSetStatus
<1>3. CASE OrderStep
  BY <1>3 DEF OrderStep, StartTransition, StartCancel
<1>4. CASE RequestStep
  BY <1>4 DEF RequestStep, LockListing, RejectCheckout, CommitSetStatus, Abort
<1>5. CASE UNCHANGED vars
  BY <1>5 DEF vars
<1>6. QED
  BY <1>1, <1>2, <1>3, <1>4, <1>5 DEF Next

LEMMA SoldAsListedNext == IInv /\ [Next]_vars => SoldAsListedStep
<1> SUFFICES ASSUME IInv, [Next]_vars, NEW o \in OrderId,
                    status[o] = Absent, status'[o] # Absent,
                    NEW l \in Lines(placed'[o])
             PROVE  /\ ~listing[l].deleted /\ listing[l].status = "PUBLISHED"
                    /\ SellerOf[l] = placed'[o].seller
                    /\ listing[l].currency = placed'[o].currency
                    /\ listing[l].qty >= placed'[o].items[l]
  BY DEF SoldAsListedStep
<1>1. ASSUME NEW r \in Request, NEW p \in OrderId, CommitCheckout(r, p)
      PROVE  /\ ~listing[l].deleted /\ listing[l].status = "PUBLISHED"
             /\ SellerOf[l] = placed'[o].seller
             /\ listing[l].currency = placed'[o].currency
             /\ listing[l].qty >= placed'[o].items[l]
  <2>1. /\ pc[r] = "checkout" /\ Granted(r) /\ Acceptable(r)
        /\ status' = [status EXCEPT ![p] = "PREPARING"]
        /\ placed' = [placed EXCEPT ![p] = basket[r]]
    BY <1>1 DEF CommitCheckout
  <2>2. o = p /\ placed'[o] = basket[r]
    BY <2>1 DEF IInv, TypeOK
  <2>3. l \in Lines(basket[r]) /\ l \in ListingId
    BY <2>2 DEF Lines
  <2>4. seen[r][l] = listing[l]
    BY <2>1, <2>3 DEF Granted, IInv, LockedRowsAreCurrent
  <2>5. QED
    BY <2>1, <2>2, <2>3, <2>4 DEF Acceptable
<1>2. ASSUME NEW r \in Request, CommitTransition(r) \/ CommitCancel(r)
      PROVE  FALSE
  <2>1. target[r] \in OrderId /\ status[target[r]] # Absent
    BY <1>2 DEF CommitTransition, CommitCancel, IInv, RequestInv
  <2>2. status'[o] = status[o]
    BY <1>2, <2>1 DEF CommitTransition, CommitCancel, IInv, TypeOK
  <2>3. QED
    BY <2>2
<1>3. QED
  BY <1>1, <1>2, StatusWriters

LEMMA NoSkippedDispatchNext == IInv /\ [Next]_vars => NoSkippedDispatchStep
<1> SUFFICES ASSUME IInv, [Next]_vars, NEW o \in OrderId
             PROVE  /\ status[o] = "PREPARING" =>
                          status'[o] \in {"PREPARING", "ON_THE_WAY", "CANCELLED"}
                    /\ status[o] \notin {Absent, "PREPARING"} =>
                          status'[o] \notin {Absent, "PREPARING"}
  BY DEF NoSkippedDispatchStep
<1>1. CASE UNCHANGED status
  BY <1>1
<1>2. ASSUME NEW r \in Request, NEW p \in OrderId, CommitCheckout(r, p)
      PROVE  status'[o] = status[o] \/ status[o] = Absent
  BY <1>2 DEF CommitCheckout, IInv, TypeOK
<1>3. ASSUME NEW r \in Request, CommitTransition(r)
      PROVE  /\ status'[o] # Absent \/ status[o] = Absent
             /\ status'[o] = status[o] \/ status'[o] \in {"ON_THE_WAY", "DELIVERED"}
             /\ status[o] = "PREPARING" => status'[o] # "DELIVERED"
  <2>1. /\ target[r] \in OrderId /\ goal[r] \in {"ON_THE_WAY", "DELIVERED"}
        /\ goal[r] = "DELIVERED" => status[target[r]] # "PREPARING"
        /\ status' = [status EXCEPT ![target[r]] = goal[r]]
    BY <1>3 DEF CommitTransition, IInv, RequestInv
  <2>2. QED
    BY <2>1 DEF IInv, TypeOK, Absent
<1>4. ASSUME NEW r \in Request, CommitCancel(r)
      PROVE  status'[o] = status[o] \/ status'[o] = "CANCELLED"
  BY <1>4 DEF CommitCancel, IInv, TypeOK
<1>5. QED
  BY <1>1, <1>2, <1>3, <1>4, StatusWriters DEF Absent

\* Every line of a committed order is on sale, in the order's quantity, seller
\* and currency, at the moment createFromCart commits.
THEOREM OrdersAreSoldAsListed == Spec => SoldAsListed
<1>1. Spec => [][SoldAsListedStep]_vars
  BY SoldAsListedNext, Invariance, PTL DEF Spec
<1>2. QED
  BY <1>1 DEF SoldAsListed, SoldAsListedStep

\* No interleaving of transition, cancel and cancelBySystem takes an order
\* from PREPARING straight to DELIVERED or back to PREPARING.
THEOREM DispatchNeverSkipped == Spec => NoSkippedDispatch
<1>1. Spec => [][NoSkippedDispatchStep]_vars
  BY NoSkippedDispatchNext, Invariance, PTL DEF Spec
<1>2. QED
  BY <1>1 DEF NoSkippedDispatch, NoSkippedDispatchStep

-----------------------------------------------------------------------------
(* What a request in flight remembers.                                     *)

\* What a request in flight remembers is what it read: a checkout has lines, a
\* cancellation has the order's lines and has locked no deleted row.
RequestsKnow ==
  \A r \in Request :
     /\ pc[r] = "checkout" => Lines(basket[r]) # {}
     /\ pc[r] = "cancel" =>
          /\ basket[r] = placed[target[r]]
          /\ \A l \in ListingId : seen[r][l] # Null => ~seen[r][l].deleted
     /\ pc[r] \notin {"checkout", "cancel"} => seen[r] = NothingSeen

LEMMA InitKnow == Init => RequestsKnow
BY DEF Init, RequestsKnow

LEMMA BeginKnow ==
  ASSUME IInv, RequestsKnow, UNCHANGED placed, NEW r \in Request,
         NEW step \in {"checkout", "cancel", "transition", "setStatus"},
         NEW b, NEW subject, NEW aim, Begin(r, step, b, subject, aim),
         step = "checkout" => Lines(b) # {},
         step = "cancel" => b = placed[subject]
  PROVE  RequestsKnow'
<1>1. /\ pc[r] = "idle" /\ seen' = seen
      /\ pc'[r] = step /\ basket'[r] = b /\ target'[r] = subject
      /\ \A q \in Request \ {r} :
            pc'[q] = pc[q] /\ basket'[q] = basket[q] /\ target'[q] = target[q]
  BY DEF Begin, IInv, TypeOK
<1>2. seen[r] = NothingSeen
  BY <1>1 DEF RequestsKnow
<1>3. \A l \in ListingId : NothingSeen[l] = Null
  BY DEF NothingSeen
<1>4. QED
  BY <1>1, <1>2, <1>3 DEF RequestsKnow, Lines

\* Inserting an order touches no order that is being cancelled: that one exists.
LEMMA EndKnow ==
  ASSUME IInv, RequestsKnow, NEW r \in Request, End(r),
         \A o \in OrderId : status[o] # Absent => placed'[o] = placed[o]
  PROVE  RequestsKnow'
<1>1. /\ pc'[r] = "idle" /\ seen'[r] = NothingSeen
      /\ \A q \in Request \ {r} :
            pc'[q] = pc[q] /\ basket'[q] = basket[q] /\ target'[q] = target[q] /\ seen'[q] = seen[q]
  BY DEF End, IInv, TypeOK
<1>2. ASSUME NEW q \in Request, pc[q] = "cancel" PROVE placed'[target[q]] = placed[target[q]]
  BY <1>2 DEF IInv, RequestInv
<1>3. QED
  BY <1>1, <1>2 DEF RequestsKnow, Lines

LEMMA LockListingKnow ==
  ASSUME IInv, RequestsKnow, NEW r \in Request, NEW l \in ListingId, LockListing(r, l)
  PROVE  RequestsKnow'
<1>1. /\ pc[r] \in {"checkout", "cancel"} /\ (pc[r] = "cancel" => ~listing[l].deleted)
      /\ seen' = [seen EXCEPT ![r][l] = listing[l]]
      /\ UNCHANGED <<placed, pc, basket, target>>
  BY DEF LockListing
<1>2. /\ \A m \in ListingId : seen'[r][m] = IF m = l THEN listing[l] ELSE seen[r][m]
      /\ \A q \in Request \ {r} : seen'[q] = seen[q]
  BY <1>1 DEF IInv, TypeOK
<1>3. ASSUME NEW q \in Request
      PROVE  (/\ pc[q] = "checkout" => Lines(basket[q]) # {}
              /\ pc[q] = "cancel" =>
                   /\ basket[q] = placed[target[q]]
                   /\ \A m \in ListingId : seen[q][m] # Null => ~seen[q][m].deleted
              /\ pc[q] \notin {"checkout", "cancel"} => seen[q] = NothingSeen)'
  BY <1>1, <1>2 DEF RequestsKnow, Lines
<1>4. QED
  BY <1>3 DEF RequestsKnow

LEMMA NextKnow == ASSUME IInv, RequestsKnow, [Next]_vars PROVE RequestsKnow'
<1>1. ASSUME NEW r \in Request, End(r), UNCHANGED placed PROVE RequestsKnow'
  BY <1>1, EndKnow
<1>2. CASE BuyerStep
  <2>1. PICK b \in Buyer : EditCart(b) \/ \E r \in Request : StartCheckout(r, b)
    BY <1>2 DEF BuyerStep
  <2>2. CASE EditCart(b)
    BY <2>2 DEF EditCart, request, RequestsKnow, Lines
  <2>3. ASSUME NEW r \in Request, StartCheckout(r, b) PROVE RequestsKnow'
    BY <2>3, BeginKnow DEF StartCheckout
  <2>4. QED
    BY <2>1, <2>2, <2>3
<1>3. CASE SellerStep
  <2>1. PICK l \in ListingId :
          \/ SoftDelete(l)
          \/ \E q \in Quantity, c \in Currency : UpdateListing(l, q, c)
          \/ \E r \in Request, s \in {"PUBLISHED", "ARCHIVED"} : StartSetStatus(r, l, s)
    BY <1>3 DEF SellerStep
  <2>2. CASE SoftDelete(l) \/ \E q \in Quantity, c \in Currency : UpdateListing(l, q, c)
    BY <2>2 DEF SoftDelete, UpdateListing, request, RequestsKnow, Lines
  <2>3. ASSUME NEW r \in Request, NEW s \in {"PUBLISHED", "ARCHIVED"}, StartSetStatus(r, l, s)
        PROVE  RequestsKnow'
    BY <2>3, BeginKnow DEF StartSetStatus
  <2>4. QED
    BY <2>1, <2>2, <2>3
<1>4. CASE OrderStep
  <2>1. PICK r \in Request, o \in OrderId :
          \/ CommitCheckout(r, o)
          \/ \E to \in OrderStatus : StartTransition(r, o, to)
          \/ \E actor \in Actor : StartCancel(r, o, actor)
    BY <1>4 DEF OrderStep
  <2>2. CASE CommitCheckout(r, o)
    <3>1. End(r) /\ \A p \in OrderId : status[p] # Absent => placed'[p] = placed[p]
      BY <2>2 DEF CommitCheckout, IInv, TypeOK
    <3>2. QED
      BY <3>1, EndKnow
  <2>3. ASSUME NEW to \in OrderStatus, StartTransition(r, o, to) PROVE RequestsKnow'
    BY <2>3, BeginKnow DEF StartTransition
  <2>4. ASSUME NEW actor \in Actor, StartCancel(r, o, actor) PROVE RequestsKnow'
    BY <2>4, BeginKnow DEF StartCancel
  <2>5. QED
    BY <2>1, <2>2, <2>3, <2>4
<1>5. CASE RequestStep
  <2>1. PICK r \in Request :
          \/ \E l \in ListingId : LockListing(r, l)
          \/ RejectCheckout(r) \/ CommitTransition(r) \/ CommitCancel(r)
          \/ CommitSetStatus(r) \/ Abort(r)
    BY <1>5 DEF RequestStep
  <2>2. CASE \/ RejectCheckout(r) \/ CommitTransition(r) \/ CommitCancel(r)
             \/ CommitSetStatus(r) \/ Abort(r)
    <3>1. End(r) /\ UNCHANGED placed
      BY <2>2 DEF RejectCheckout, CommitTransition, CommitCancel, CommitSetStatus, Abort
    <3>2. QED
      BY <1>1, <3>1
  <2>3. QED
    BY <2>1, <2>2, LockListingKnow
<1>6. CASE UNCHANGED vars
  BY <1>6 DEF vars, request, RequestsKnow, Lines
<1>7. QED
  BY <1>2, <1>3, <1>4, <1>5, <1>6 DEF Next

-----------------------------------------------------------------------------
(* Requests that are alone with their order.                               *)

\* What is still true of the status that a request has read.
StatusKnown(r) ==
  /\ pc[r] = "cancel" => status[target[r]] \in {"PREPARING", "ON_THE_WAY"}
  /\ pc[r] = "transition" =>
       <<status[target[r]], goal[r]>> \in {<<"PREPARING", "ON_THE_WAY">>, <<"ON_THE_WAY", "DELIVERED">>}

\* Request r is the only one that moves order o, and knows its status.
Alone(r, o) == StatusKnown(r) /\ \A q \in Request : Moves(q, o) => q = r

\* Only a request that moves an order changes its status, so the first of them knows it for
\* as long as no second one has begun.
AloneInv == \A r \in Request, o \in OrderId \ contested : Moves(r, o) => Alone(r, o)

LEMMA InitAlone == Init => AloneInv
BY DEF Init, AloneInv, Moves

\* A step that begins and ends no request and writes no status.
LEMMA AloneStays ==
  ASSUME AloneInv, UNCHANGED <<status, pc, target, goal, contested>>
  PROVE  AloneInv'
BY DEF AloneInv, Alone, StatusKnown, Moves

\* A request begins that moves no order.
LEMMA BeginOtherAlone ==
  ASSUME IInv, AloneInv, NEW r \in Request, NEW step \in {"checkout", "setStatus"},
         NEW b, NEW subject, NEW aim, Begin(r, step, b, subject, aim),
         UNCHANGED <<status, contested>>
  PROVE  AloneInv'
<1>1. /\ pc'[r] = step
      /\ \A q \in Request \ {r} : pc'[q] = pc[q] /\ target'[q] = target[q] /\ goal'[q] = goal[q]
  BY DEF Begin, IInv, TypeOK
<1>2. \A q \in Request, o \in OrderId : Moves(q, o)' => q # r /\ Moves(q, o)
  BY <1>1 DEF Moves
<1>3. \A q \in Request \ {r} : StatusKnown(q) => StatusKnown(q)'
  BY <1>1 DEF StatusKnown
<1> SUFFICES ASSUME NEW q \in Request, NEW o \in OrderId \ contested', Moves(q, o)'
             PROVE  StatusKnown(q)' /\ \A p \in Request : Moves(p, o)' => p = q
  BY DEF AloneInv, Alone
<1>4. q # r /\ Alone(q, o)
  BY <1>2 DEF AloneInv
<1>5. QED
  BY <1>2, <1>3, <1>4 DEF Alone

\* A request begins to move order o: it is the only one, or the order is contested.
LEMMA BeginMoveAlone ==
  ASSUME IInv, AloneInv, NEW r \in Request, NEW o \in OrderId, NEW step \in {"cancel", "transition"},
         NEW b, NEW aim, Begin(r, step, b, o, aim), Contest(o), UNCHANGED status,
         step = "cancel" => status[o] \in {"PREPARING", "ON_THE_WAY"},
         step = "transition" =>
           <<status[o], aim>> \in {<<"PREPARING", "ON_THE_WAY">>, <<"ON_THE_WAY", "DELIVERED">>}
  PROVE  AloneInv'
<1>1. /\ pc'[r] = step /\ target'[r] = o /\ goal'[r] = aim
      /\ \A q \in Request \ {r} : pc'[q] = pc[q] /\ target'[q] = target[q] /\ goal'[q] = goal[q]
  BY DEF Begin, IInv, TypeOK
<1>2. \A q \in Request, p \in OrderId : Moves(q, p)' => Moves(q, p) \/ (q = r /\ p = o)
  BY <1>1 DEF Moves
<1>3. \A q \in Request \ {r} : StatusKnown(q) => StatusKnown(q)'
  BY <1>1 DEF StatusKnown
<1>4. StatusKnown(r)'
  BY <1>1 DEF StatusKnown
<1>5. contested \subseteq contested' /\ (o \notin contested' => \A q \in Request : ~Moves(q, o))
  BY DEF Contest
<1>6. ~\E p \in OrderId : Moves(r, p)
  BY DEF Begin, Moves
<1> SUFFICES ASSUME NEW q \in Request, NEW p \in OrderId \ contested', Moves(q, p)'
             PROVE  StatusKnown(q)' /\ \A k \in Request : Moves(k, p)' => k = q
  BY DEF AloneInv, Alone
<1>7. CASE p = o
  BY <1>2, <1>4, <1>5, <1>7
<1>8. CASE p # o
  <2>1. Moves(q, p) /\ q # r
    BY <1>2, <1>6, <1>8
  <2>2. Alone(q, p)
    BY <1>5, <2>1 DEF AloneInv
  <2>3. QED
    BY <1>2, <1>3, <1>8, <2>1, <2>2 DEF Alone
<1>9. QED
  BY <1>7, <1>8

\* Request r ends, and with it changes the status of its order at most, or of an order that
\* has not existed.
LEMMA EndAlone ==
  ASSUME IInv, AloneInv, NEW r \in Request, End(r), UNCHANGED contested,
         \A o \in OrderId : status'[o] = status[o] \/ status[o] = Absent \/ Moves(r, o)
  PROVE  AloneInv'
<1>1. /\ pc'[r] = "idle"
      /\ \A q \in Request \ {r} : pc'[q] = pc[q] /\ target'[q] = target[q] /\ goal'[q] = goal[q]
  BY DEF End, IInv, TypeOK
<1>2. \A q \in Request, o \in OrderId : Moves(q, o)' => q # r /\ Moves(q, o)
  BY <1>1 DEF Moves
<1> SUFFICES ASSUME NEW q \in Request, NEW o \in OrderId \ contested', Moves(q, o)'
             PROVE  StatusKnown(q)' /\ \A p \in Request : Moves(p, o)' => p = q
  BY DEF AloneInv, Alone
<1>3. q # r /\ Moves(q, o) /\ Alone(q, o)
  BY <1>2 DEF AloneInv
<1>4. ~Moves(r, o) /\ status[o] # Absent /\ target[q] = o
  BY <1>3 DEF Alone, Moves, IInv, RequestInv
<1>5. status'[o] = status[o]
  BY <1>4
<1>6. StatusKnown(q)'
  BY <1>1, <1>3, <1>4, <1>5 DEF StatusKnown, Alone
<1>7. QED
  BY <1>2, <1>3, <1>6 DEF Alone

LEMMA NextAlone == ASSUME IInv, AloneInv, [Next]_vars PROVE AloneInv'
<1>1. CASE BuyerStep
  <2>1. PICK b \in Buyer : EditCart(b) \/ (\E r \in Request : StartCheckout(r, b))
    BY <1>1 DEF BuyerStep
  <2>2. CASE EditCart(b)
    BY <2>2, AloneStays DEF EditCart, request, history
  <2>3. ASSUME NEW r \in Request, StartCheckout(r, b) PROVE AloneInv'
    BY <2>3, BeginOtherAlone DEF StartCheckout, Double
  <2>4. QED
    BY <2>1, <2>2, <2>3
<1>2. CASE SellerStep
  <2>1. PICK l \in ListingId :
          \/ SoftDelete(l)
          \/ \E q \in Quantity, c \in Currency : UpdateListing(l, q, c)
          \/ \E r \in Request, s \in {"PUBLISHED", "ARCHIVED"} : StartSetStatus(r, l, s)
    BY <1>2 DEF SellerStep
  <2>2. CASE SoftDelete(l) \/ \E q \in Quantity, c \in Currency : UpdateListing(l, q, c)
    BY <2>2, AloneStays DEF SoftDelete, UpdateListing, request, history
  <2>3. ASSUME NEW r \in Request, NEW s \in {"PUBLISHED", "ARCHIVED"}, StartSetStatus(r, l, s)
        PROVE  AloneInv'
    BY <2>3, BeginOtherAlone DEF StartSetStatus, history
  <2>4. QED
    BY <2>1, <2>2, <2>3
<1>3. CASE OrderStep
  <2>1. PICK r \in Request, o \in OrderId :
          \/ CommitCheckout(r, o)
          \/ \E to \in OrderStatus : StartTransition(r, o, to)
          \/ \E actor \in Actor : StartCancel(r, o, actor)
    BY <1>3 DEF OrderStep
  <2>2. CASE CommitCheckout(r, o)
    <3>1. /\ End(r) /\ UNCHANGED contested /\ status[o] = Absent
          /\ status' = [status EXCEPT ![o] = "PREPARING"]
      BY <2>2 DEF CommitCheckout
    <3>2. \A p \in OrderId : status'[p] = status[p] \/ status[p] = Absent
      BY <3>1 DEF IInv, TypeOK
    <3>3. QED
      BY <3>1, <3>2, EndAlone
  <2>3. ASSUME NEW to \in OrderStatus, StartTransition(r, o, to) PROVE AloneInv'
    <3>1. <<status[o], to>> \in {<<"PREPARING", "ON_THE_WAY">>, <<"ON_THE_WAY", "DELIVERED">>}
      BY <2>3 DEF StartTransition, OrderTransitions, OrderStatus, IInv, TypeOK, Absent
    <3>2. Begin(r, "transition", NoBasket, o, to) /\ Contest(o) /\ UNCHANGED status
      BY <2>3 DEF StartTransition
    <3>3. QED
      BY <3>1, <3>2, BeginMoveAlone
  <2>4. ASSUME NEW actor \in Actor, StartCancel(r, o, actor) PROVE AloneInv'
    <3>1. status[o] \in {"PREPARING", "ON_THE_WAY"}
      BY <2>4 DEF StartCancel, OrderStatus, IInv, TypeOK, Absent
    <3>2. Begin(r, "cancel", placed[o], o, actor) /\ Contest(o) /\ UNCHANGED status
      BY <2>4 DEF StartCancel
    <3>3. QED
      BY <3>1, <3>2, BeginMoveAlone
  <2>5. QED
    BY <2>1, <2>2, <2>3, <2>4
<1>4. CASE RequestStep
  <2>1. PICK r \in Request :
          \/ \E l \in ListingId : LockListing(r, l)
          \/ RejectCheckout(r)
          \/ CommitTransition(r)
          \/ CommitCancel(r)
          \/ CommitSetStatus(r)
          \/ Abort(r)
    BY <1>4 DEF RequestStep
  <2>2. CASE \E l \in ListingId : LockListing(r, l)
    BY <2>2, AloneStays DEF LockListing, history
  <2>3. CASE RejectCheckout(r) \/ CommitSetStatus(r) \/ Abort(r)
    <3>1. End(r) /\ UNCHANGED <<status, contested>>
      BY <2>3 DEF RejectCheckout, CommitSetStatus, Abort, history
    <3>2. QED
      BY <3>1, EndAlone
  <2>4. CASE CommitTransition(r) \/ CommitCancel(r)
    <3>1. PICK o \in OrderId : o = target[r]
      BY <2>4 DEF CommitTransition, CommitCancel, IInv, RequestInv
    <3>2. End(r) /\ UNCHANGED contested /\ Moves(r, o)
      BY <2>4, <3>1 DEF CommitTransition, CommitCancel, Moves, history
    <3>3. \A p \in OrderId \ {o} : status'[p] = status[p]
      BY <2>4, <3>1 DEF CommitTransition, CommitCancel, IInv, TypeOK
    <3>4. QED
      BY <3>2, <3>3, EndAlone
  <2>5. QED
    BY <2>1, <2>2, <2>3, <2>4
<1>5. CASE UNCHANGED vars
  BY <1>5, AloneStays DEF vars, request, history
<1>6. QED
  BY <1>1, <1>2, <1>3, <1>4, <1>5 DEF Next

\* An order that two requests have contested remains so.
LEMMA ContestedGrows == ASSUME [Next]_vars PROVE contested \subseteq contested'
<1>1. CASE BuyerStep
  BY <1>1 DEF BuyerStep, EditCart, StartCheckout, Double, history
<1>2. CASE SellerStep
  BY <1>2 DEF SellerStep, StartSetStatus, SoftDelete, UpdateListing, history
<1>3. CASE OrderStep
  BY <1>3 DEF OrderStep, CommitCheckout, StartTransition, StartCancel, Contest
<1>4. CASE RequestStep
  BY <1>4 DEF RequestStep, LockListing, RejectCheckout, CommitTransition, CommitCancel,
              CommitSetStatus, Abort, history
<1>5. CASE UNCHANGED vars
  BY <1>5 DEF vars, history
<1>6. QED
  BY <1>1, <1>2, <1>3, <1>4, <1>5 DEF Next

-----------------------------------------------------------------------------
(* Orders implements the ledger of overlapping requests.                   *)

LEMMA LedgerInitially == Init => Ledger!TablesInit
<1> SUFFICES ASSUME Init PROVE Ledger!TablesInit
  OBVIOUS
<1>1. [l \in ListingId |-> listing[l].qty] = [l \in ListingId |-> InitialListing[l].qty]
  BY DEF Init
<1>2. [l \in ListingId |-> ~listing[l].deleted] \in [ListingId -> BOOLEAN]
  OBVIOUS
<1>3. status = [o \in OrderId |-> "ABSENT"]
  BY DEF Init, Absent
<1>4. [o \in OrderId |-> placed[o].items] = [o \in OrderId |-> [l \in ListingId |-> 0]]
  BY DEF Init, NoBasket, NoItems
<1>5. QED
  BY <1>1, <1>2, <1>3, <1>4 DEF Ledger!TablesInit

\* What the ledger shows is unchanged by a step that leaves stock, deletion,
\* statuses and origins alone.
LEMMA LedgerStutter ==
  ASSUME \A l \in ListingId : listing'[l].qty = listing[l].qty /\ listing'[l].deleted = listing[l].deleted,
         UNCHANGED <<status, placed>>
  PROVE  UNCHANGED Ledger!ledger
<1>1. UNCHANGED [l \in ListingId |-> listing[l].qty]
  OBVIOUS
<1>2. UNCHANGED [l \in ListingId |-> ~listing[l].deleted]
  OBVIOUS
<1>3. UNCHANGED [o \in OrderId |-> placed[o].items]
  OBVIOUS
<1>4. QED
  BY <1>1, <1>2, <1>3 DEF Ledger!ledger

\* The commit of a checkout is Place: everything ordered was there.
LEMMA CommitCheckoutPlaces ==
  ASSUME IInv, RequestsKnow, NEW r \in Request, NEW o \in OrderId, CommitCheckout(r, o)
  PROVE  Ledger!Place(o)
<1> DEFINE b == basket[r]
<1>1. /\ pc[r] = "checkout" /\ Granted(r) /\ Acceptable(r) /\ status[o] = Absent
      /\ listing' = [l \in ListingId |->
            IF l \in Lines(b) THEN AfterSale(listing[l], seen[r][l], b.items[l]) ELSE listing[l]]
      /\ status' = [status EXCEPT ![o] = "PREPARING"]
      /\ placed' = [placed EXCEPT ![o] = b]
  BY DEF CommitCheckout
<1>2. b \in Basket /\ b.items \in [ListingId -> Nat] /\ Lines(b) # {}
  BY <1>1 DEF IInv, TypeOK, Basket, RequestsKnow
<1>3. ASSUME NEW l \in ListingId
      PROVE  /\ b.items[l] \in 0 .. listing[l].qty
             /\ b.items[l] > 0 => ~listing[l].deleted
             /\ listing'[l].qty = listing[l].qty - b.items[l]
             /\ listing'[l].deleted = listing[l].deleted
  <2>1. listing[l] \in Row /\ listing[l].qty \in Int /\ listing[l].qty >= 0 /\ b.items[l] \in Nat
    BY <1>2 DEF IInv, TypeOK, Row, NoOversell
  <2>2. CASE l \in Lines(b)
    <3>1. seen[r][l] = listing[l]
      BY <1>1, <2>2 DEF Granted, IInv, LockedRowsAreCurrent
    <3>2. ~listing[l].deleted /\ listing[l].qty >= b.items[l]
      BY <1>1, <2>2, <3>1 DEF Acceptable
    <3>3. listing'[l] = AfterSale(listing[l], listing[l], b.items[l])
      BY <1>1, <2>2, <3>1
    <3>4. listing'[l].qty = listing[l].qty - b.items[l] /\ listing'[l].deleted = listing[l].deleted
      BY <2>1, <3>3 DEF AfterSale, Row
    <3>5. QED
      BY <2>1, <3>2, <3>4
  <2>3. CASE l \notin Lines(b)
    <3>1. b.items[l] = 0
      BY <2>1, <2>3 DEF Lines
    <3>2. listing'[l] = listing[l]
      BY <1>1, <2>3
    <3>3. QED
      BY <2>1, <3>1, <3>2
  <2>4. QED
    BY <2>2, <2>3
<1>4. \E l \in ListingId : b.items[l] > 0
  BY <1>2 DEF Lines
<1>5. /\ placed'[o] = b
      /\ \A p \in OrderId \ {o} : placed'[p] = placed[p]
  BY <1>1 DEF IInv, TypeOK
<1> DEFINE units == [p \in OrderId |-> placed[p].items]
           stock == [l \in ListingId |-> listing[l].qty]
           onSale == [l \in ListingId |-> ~listing[l].deleted]
<1>6. units'[o] = b.items /\ units' = [units EXCEPT ![o] = units'[o]]
  BY <1>5
<1>7. /\ stock' = [l \in ListingId |-> stock[l] - units'[o][l]]
      /\ \A l \in ListingId : stock[l] = listing[l].qty
  BY <1>3, <1>6
<1>8. UNCHANGED onSale /\ \A l \in ListingId : onSale[l] = ~listing[l].deleted
  BY <1>3
<1>9. \A l \in ListingId : units'[o][l] \in 0 .. stock[l] /\ (units'[o][l] > 0 => onSale[l])
  BY <1>3, <1>6, <1>7, <1>8
<1>10. QED
  BY <1>1, <1>4, <1>6, <1>7, <1>8, <1>9 DEF Ledger!Place, Absent

\* The commit of a cancellation is Return: it reaches exactly the
\* rows that are not deleted, because a row is locked before it is written.
LEMMA CommitCancelReturns ==
  ASSUME IInv, RequestsKnow, NEW r \in Request, NEW o \in OrderId, o = target[r], CommitCancel(r)
  PROVE  Ledger!Return(o)
<1> DEFINE n == placed[o].items
           Restocked == {l \in Lines(basket[r]) : seen[r][l] # Null}
<1>1. /\ pc[r] = "cancel" /\ Granted(r)
      /\ listing' = [l \in ListingId |->
            IF l \in Restocked THEN AfterRestock(listing[l], basket[r].items[l]) ELSE listing[l]]
      /\ status' = [status EXCEPT ![o] = "CANCELLED"]
      /\ UNCHANGED placed
  BY DEF CommitCancel
<1>2. /\ status[o] # "ABSENT" /\ basket[r] = placed[o]
      /\ \A l \in ListingId : seen[r][l] # Null => ~seen[r][l].deleted
  BY <1>1 DEF RequestsKnow, IInv, RequestInv, Absent
<1>3. n \in [ListingId -> Nat]
  BY <1>2 DEF IInv, TypeOK, Basket
<1>4. ASSUME NEW l \in ListingId
      PROVE  /\ listing'[l].qty = IF ~listing[l].deleted THEN listing[l].qty + n[l] ELSE listing[l].qty
             /\ listing'[l].deleted = listing[l].deleted
  <2>1. listing[l] \in Row /\ listing[l].qty \in Int /\ n[l] \in Nat
    BY <1>3 DEF IInv, TypeOK, Row
  <2>2. CASE l \in Restocked
    <3>1. ~listing[l].deleted
      BY <1>2, <2>2 DEF IInv, LockedRowsAreCurrent
    <3>2. listing'[l] = AfterRestock(listing[l], n[l])
      BY <1>1, <1>2, <2>2
    <3>3. listing'[l].qty = listing[l].qty + n[l] /\ listing'[l].deleted = listing[l].deleted
      BY <2>1, <3>2 DEF AfterRestock, Row
    <3>4. QED
      BY <3>1, <3>3
  <2>3. CASE l \notin Restocked
    <3>1. listing'[l] = listing[l]
      BY <1>1, <2>3
    <3>2. l \in Lines(basket[r]) => listing[l].deleted
      BY <1>1, <2>3 DEF Granted
    <3>3. l \notin Lines(basket[r]) => n[l] = 0
      BY <1>2, <2>1 DEF Lines
    <3>4. QED
      BY <2>1, <3>1, <3>2, <3>3
  <2>4. QED
    BY <2>2, <2>3
<1> DEFINE stock == [l \in ListingId |-> listing[l].qty]
           onSale == [l \in ListingId |-> ~listing[l].deleted]
           units == [p \in OrderId |-> placed[p].items]
<1>5. stock' = [l \in ListingId |-> IF onSale[l] THEN stock[l] + units[o][l] ELSE stock[l]]
  BY <1>2, <1>4
<1>6. UNCHANGED onSale
  BY <1>4
<1>7. UNCHANGED units
  BY <1>1
<1>8. QED
  BY <1>1, <1>2, <1>5, <1>6, <1>7 DEF Ledger!Return

\* The commit of a transition is Overwrite: RequestInv says what may be written.
LEMMA CommitTransitionOverwrites ==
  ASSUME IInv, NEW r \in Request, NEW o \in OrderId, o = target[r], CommitTransition(r)
  PROVE  Ledger!Overwrite(o)
<1>1. /\ pc[r] = "transition" /\ status' = [status EXCEPT ![o] = goal[r]]
      /\ UNCHANGED <<listing, placed>>
  BY DEF CommitTransition
<1>2. /\ status[o] # "ABSENT" /\ goal[r] \in {"ON_THE_WAY", "DELIVERED"}
      /\ goal[r] = "DELIVERED" => status[o] # "PREPARING"
  BY <1>1 DEF IInv, RequestInv, Absent
<1>3. UNCHANGED <<[l \in ListingId |-> listing[l].qty], [l \in ListingId |-> ~listing[l].deleted],
                  [p \in OrderId |-> placed[p].items]>>
  BY <1>1
<1>4. QED
  BY <1>1, <1>2, <1>3 DEF Ledger!Overwrite

\* A cancellation that knows its order's status cancels an open order.
LEMMA CommitCancelRestocks ==
  ASSUME IInv, RequestsKnow, NEW r \in Request, NEW o \in OrderId, o = target[r], StatusKnown(r),
         CommitCancel(r)
  PROVE  Ledger!CancelAndRestock(o)
<1>1. status[o] \in {"PREPARING", "ON_THE_WAY"}
  BY DEF CommitCancel, StatusKnown
<1>2. QED
  BY <1>1, CommitCancelReturns DEF Ledger!CancelAndRestock

\* A transition that knows its order's status is Advance.
LEMMA CommitTransitionAdvances ==
  ASSUME IInv, NEW r \in Request, NEW o \in OrderId, o = target[r], StatusKnown(r),
         CommitTransition(r)
  PROVE  Ledger!Advance(o)
<1>1. /\ pc[r] = "transition" /\ status' = [status EXCEPT ![o] = goal[r]]
      /\ UNCHANGED <<listing, placed>>
  BY DEF CommitTransition
<1>2. <<status[o], goal[r]>> \in {<<"PREPARING", "ON_THE_WAY">>, <<"ON_THE_WAY", "DELIVERED">>}
  BY <1>1 DEF StatusKnown
<1>3. UNCHANGED <<[l \in ListingId |-> listing[l].qty], [l \in ListingId |-> ~listing[l].deleted],
                  [p \in OrderId |-> placed[p].items]>>
  BY <1>1
<1>4. QED
  BY <1>1, <1>2, <1>3 DEF Ledger!Advance

\* A seller's new stock is Restate, a deletion is Withdraw or, if only the
\* status of a deleted listing changes, nothing the ledger shows.
LEMMA UpdateListingRestates ==
  ASSUME IInv, NEW l \in ListingId, NEW q \in Quantity, NEW c \in Currency, UpdateListing(l, q, c)
  PROVE  Ledger!Restate(l)
<1>1. /\ listing' = [listing EXCEPT ![l].qty = q, ![l].currency = c]
      /\ UNCHANGED <<status, placed>>
  BY DEF UpdateListing
<1>2. /\ listing'[l].qty = q /\ listing'[l].deleted = listing[l].deleted
      /\ \A m \in ListingId \ {l} : listing'[m] = listing[m]
  <2>1. listing[l] \in Row
    BY DEF IInv, TypeOK
  <2>2. QED
    BY <1>1, <2>1 DEF IInv, TypeOK, Row
<1>3. q \in Nat
  BY OrdersAssumption DEF OrdersAssumption
<1> DEFINE stock == [m \in ListingId |-> listing[m].qty]
           onSale == [m \in ListingId |-> ~listing[m].deleted]
           units == [o \in OrderId |-> placed[o].items]
<1>4. stock'[l] \in Nat /\ stock' = [stock EXCEPT ![l] = stock'[l]]
  BY <1>2, <1>3
<1>5. UNCHANGED onSale
  BY <1>2
<1>6. UNCHANGED units
  BY <1>1
<1>7. QED
  BY <1>1, <1>4, <1>5, <1>6 DEF Ledger!Restate

LEMMA SoftDeleteWithdraws ==
  ASSUME IInv, NEW l \in ListingId, SoftDelete(l)
  PROVE  Ledger!Withdraw(l) \/ UNCHANGED Ledger!ledger
<1>1. /\ listing' = [listing EXCEPT ![l].deleted = TRUE, ![l].status = "ARCHIVED"]
      /\ UNCHANGED <<status, placed>>
  BY DEF SoftDelete
<1>2. /\ listing'[l].qty = listing[l].qty /\ listing'[l].deleted
      /\ listing[l].deleted \in BOOLEAN
      /\ \A m \in ListingId \ {l} : listing'[m] = listing[m]
  <2>1. listing[l] \in Row
    BY DEF IInv, TypeOK
  <2>2. QED
    BY <1>1, <2>1 DEF IInv, TypeOK, Row
<1>3. CASE listing[l].deleted
  <2>1. \A m \in ListingId : listing'[m].qty = listing[m].qty /\ (listing'[m].deleted <=> listing[m].deleted)
    BY <1>2, <1>3
  <2>2. UNCHANGED <<[m \in ListingId |-> listing[m].qty], [m \in ListingId |-> ~listing[m].deleted],
                    [o \in OrderId |-> placed[o].items]>>
    BY <1>1, <2>1
  <2>3. QED
    BY <1>1, <2>2 DEF Ledger!ledger
<1>4. CASE ~listing[l].deleted
  <2> DEFINE stock == [m \in ListingId |-> listing[m].qty]
             onSale == [m \in ListingId |-> ~listing[m].deleted]
             units == [o \in OrderId |-> placed[o].items]
  <2>1. UNCHANGED stock
    BY <1>2
  <2>2. UNCHANGED units
    BY <1>1
  <2>3. onSale[l] /\ onSale' = [onSale EXCEPT ![l] = FALSE]
    BY <1>2, <1>4
  <2>4. QED
    BY <1>1, <2>1, <2>2, <2>3 DEF Ledger!Withdraw
<1>5. QED
  BY <1>3, <1>4

\* Publishing and archiving change nothing the ledger shows.
LEMMA CommitSetStatusStutters ==
  ASSUME IInv, NEW r \in Request, CommitSetStatus(r) PROVE UNCHANGED Ledger!ledger
<1>1. /\ listing' = [listing EXCEPT ![target[r]].status = goal[r]]
      /\ UNCHANGED <<status, placed>>
  BY DEF CommitSetStatus
<1>2. ASSUME NEW l \in ListingId
      PROVE  listing'[l].qty = listing[l].qty /\ listing'[l].deleted = listing[l].deleted
  <2>1. listing[l] \in Row
    BY DEF IInv, TypeOK
  <2>2. QED
    BY <1>1, <2>1 DEF IInv, TypeOK, Row
<1>3. QED
  BY <1>1, <1>2, LedgerStutter

\* The steps that the ledger shows.
LEMMA VisibleSteps ==
  ASSUME [Next]_vars
  PROVE  \/ UNCHANGED <<listing, status, placed>>
         \/ \E r \in Request, o \in OrderId : CommitCheckout(r, o)
         \/ \E r \in Request : CommitTransition(r) \/ CommitCancel(r) \/ CommitSetStatus(r)
         \/ \E l \in ListingId : SoftDelete(l) \/ \E q \in Quantity, c \in Currency : UpdateListing(l, q, c)
<1>1. CASE BuyerStep
  BY <1>1 DEF BuyerStep, EditCart, StartCheckout
<1>2. CASE SellerStep
  BY <1>2 DEF SellerStep, StartSetStatus
<1>3. CASE OrderStep
  BY <1>3 DEF OrderStep, StartTransition, StartCancel
<1>4. CASE RequestStep
  BY <1>4 DEF RequestStep, LockListing, RejectCheckout, Abort
<1>5. CASE UNCHANGED vars
  BY <1>5 DEF vars
<1>6. QED
  BY <1>1, <1>2, <1>3, <1>4, <1>5 DEF Next

\* Every step of Orders is a step of the ledger of overlapping requests, or
\* leaves the ledger as it is.
LEMMA NextOverlaps ==
  ASSUME IInv, RequestsKnow, AloneInv, [Next]_vars PROVE Ledger!LedgerNext
<1>1. contested \subseteq contested'
  BY ContestedGrows
<1>2. CASE UNCHANGED <<listing, status, placed>>
  BY <1>1, <1>2, LedgerStutter DEF Ledger!LedgerNext
<1>3. ASSUME NEW r \in Request, NEW o \in OrderId, CommitCheckout(r, o)
      PROVE  Ledger!LedgerNext
  BY <1>1, <1>3, CommitCheckoutPlaces DEF Ledger!LedgerNext, Ledger!PromisedNext
<1>4. ASSUME NEW r \in Request, CommitTransition(r) \/ CommitCancel(r)
      PROVE  Ledger!LedgerNext
  <2>1. PICK o \in OrderId : o = target[r]
    BY <1>4 DEF CommitTransition, CommitCancel, IInv, RequestInv
  <2>2. CASE o \in contested
    <3>1. Ledger!Overwrite(o) \/ Ledger!Return(o)
      BY <1>4, <2>1, CommitTransitionOverwrites, CommitCancelReturns
    <3>2. QED
      BY <1>1, <2>2, <3>1 DEF Ledger!LedgerNext
  <2>3. CASE o \notin contested
    <3>1. StatusKnown(r)
      BY <1>4, <2>1, <2>3 DEF CommitTransition, CommitCancel, Moves, AloneInv, Alone
    <3>2. Ledger!Advance(o) \/ Ledger!CancelAndRestock(o)
      BY <1>4, <2>1, <3>1, CommitTransitionAdvances, CommitCancelRestocks
    <3>3. QED
      BY <1>1, <3>2 DEF Ledger!LedgerNext, Ledger!PromisedNext
  <2>4. QED
    BY <2>2, <2>3
<1>5. ASSUME NEW l \in ListingId, SoftDelete(l)
      PROVE  Ledger!LedgerNext
  BY <1>1, <1>5, SoftDeleteWithdraws DEF Ledger!LedgerNext, Ledger!PromisedNext
<1>6. ASSUME NEW l \in ListingId, NEW q \in Quantity, NEW c \in Currency, UpdateListing(l, q, c)
      PROVE  Ledger!LedgerNext
  BY <1>1, <1>6, UpdateListingRestates DEF Ledger!LedgerNext, Ledger!PromisedNext
<1>7. ASSUME NEW r \in Request, CommitSetStatus(r)
      PROVE  Ledger!LedgerNext
  BY <1>1, <1>7, CommitSetStatusStutters DEF Ledger!LedgerNext
<1>8. QED
  BY <1>2, <1>3, <1>4, <1>5, <1>6, <1>7, VisibleSteps

\* However many requests overlap, every checkout takes what it orders out of
\* stock that is there, and every cancellation puts back what was ordered, in
\* one step each: createFromCart and cancelInternal are atomic to whoever looks
\* at stock and orders, although they wait for locks and write absolute values.
\* An order that no two requests were about to move or cancel at the same time
\* is moved as the table allows and cancelled once (orders.service.ts:302-317
\* and 342-401); of the others only the status and the return go astray.
THEOREM LedgerImplemented == Spec => ImplementsLedger
<1>1. Init => RequestsKnow /\ AloneInv
  BY InitKnow, InitAlone
<1>2. IInv /\ RequestsKnow /\ AloneInv /\ [Next]_vars => (RequestsKnow /\ AloneInv)'
  BY NextKnow, NextAlone
<1>3. IInv /\ RequestsKnow /\ AloneInv /\ [Next]_vars => Ledger!LedgerNext
  BY NextOverlaps
<1>4. Init => Ledger!LedgerInit
  BY LedgerInitially DEF Ledger!LedgerInit, Init
<1>5. QED
  BY <1>1, <1>2, <1>3, <1>4, Invariance, PTL
     DEF Spec, ImplementsLedger, Ledger!LedgerSpec

-----------------------------------------------------------------------------
(* Fillings of a cart and the orders made from them.                       *)

\* No order has been made from the n-th filling of b's cart.
Unordered(b, n) ==
  \A o \in OrderId : status[o] # Absent /\ placed[o].buyer = b => placed[o].fill # n

\* Request r is between its read of the cart and its transaction.
Checks(r, b, n) == pc[r] = "checkout" /\ basket[r].buyer = b /\ basket[r].fill = n

\* A cart with lines has not been ordered yet, and no order is ahead of the cart.
CartsInv ==
  /\ \A b \in Buyer : cart[b].buyer = b /\ (Lines(cart[b]) # {} => Unordered(b, cart[b].fill))
  /\ \A o \in OrderId : status[o] # Absent =>
        placed[o].buyer \in Buyer /\ placed[o].fill <= cart[placed[o].buyer].fill

\* A checkout that is alone with its filling is going to make the first order of it.
CheckoutInv(r) ==
  LET b == basket[r].buyer
      n == basket[r].fill IN
  /\ b \in Buyer /\ n <= cart[b].fill
  /\ <<b, n>> \notin doubled => Unordered(b, n) /\ \A q \in Request : Checks(q, b, n) => q = r

CheckoutsInv == \A r \in Request : pc[r] = "checkout" => CheckoutInv(r)

FillingsInv == CartsInv /\ CheckoutsInv /\ OneOrderPerCart

LEMMA InitFillings == Init => FillingsInv
BY DEF Init, FillingsInv, CartsInv, CheckoutsInv, OneOrderPerCart, Unordered, NoBasket, NoItems, Lines

\* A step that changes no cart, no checkout and no origin of an order.
LEMMA FillingsStay ==
  ASSUME FillingsInv, UNCHANGED <<cart, placed, doubled>>,
         \A o \in OrderId : status'[o] # Absent => status[o] # Absent,
         \A r \in Request : pc'[r] = "checkout" => pc[r] = "checkout" /\ basket'[r] = basket[r]
  PROVE  FillingsInv'
<1>1. CartsInv' /\ OneOrderPerCart'
  BY DEF FillingsInv, CartsInv, OneOrderPerCart, Unordered
<1>2. CheckoutsInv'
  <2> SUFFICES ASSUME NEW r \in Request, pc'[r] = "checkout" PROVE CheckoutInv(r)'
    BY DEF CheckoutsInv
  <2>1. CheckoutInv(r) /\ basket'[r] = basket[r]
    BY DEF FillingsInv, CheckoutsInv
  <2>2. \A q \in Request : \A b, n : Checks(q, b, n)' => Checks(q, b, n)
    BY DEF Checks
  <2>3. \A b, n : Unordered(b, n) => Unordered(b, n)'
    BY DEF Unordered
  <2>4. QED
    BY <2>1, <2>2, <2>3 DEF CheckoutInv
<1>3. QED
  BY <1>1, <1>2 DEF FillingsInv

\* A request other than a checkout begins, or a request ends without an order.
LEMMA OtherFillings ==
  ASSUME IInv, FillingsInv, NEW r \in Request, UNCHANGED <<cart, placed, doubled>>,
         \A o \in OrderId : status'[o] # Absent => status[o] # Absent,
         \/ End(r)
         \/ \E step \in {"cancel", "transition", "setStatus"} :
              \E b, subject, aim : Begin(r, step, b, subject, aim)
  PROVE  FillingsInv'
<1>1. /\ pc'[r] # "checkout"
      /\ \A q \in Request \ {r} : pc'[q] = pc[q] /\ basket'[q] = basket[q]
  BY DEF End, Begin, IInv, TypeOK
<1>2. QED
  BY <1>1, FillingsStay

\* A checkout begins: it is the only one of its filling, which is not ordered yet.
LEMMA StartCheckoutFillings ==
  ASSUME IInv, FillingsInv, NEW r \in Request, NEW b \in Buyer, StartCheckout(r, b)
  PROVE  FillingsInv'
<1>0. PICK n : n = cart[b].fill
  OBVIOUS
<1>1. /\ Lines(cart[b]) # {} /\ Double(<<b, n>>) /\ pc[r] = "idle"
      /\ UNCHANGED <<cart, status, placed>>
  BY <1>0 DEF StartCheckout, Begin
<1>2. /\ pc'[r] = "checkout" /\ basket'[r] = cart[b]
      /\ \A q \in Request \ {r} : pc'[q] = pc[q] /\ basket'[q] = basket[q]
  BY DEF StartCheckout, Begin, IInv, TypeOK
<1>3. n \in Nat /\ cart[b].buyer = b /\ Unordered(b, n)
  BY <1>0, <1>1 DEF IInv, TypeOK, Basket, FillingsInv, CartsInv
<1>4. doubled \subseteq doubled' /\ (<<b, n>> \notin doubled' => \A q \in Request : ~Checks(q, b, n))
  BY <1>1 DEF Double, Checks
<1>5. CartsInv' /\ OneOrderPerCart'
  BY <1>1, <1>4 DEF FillingsInv, CartsInv, OneOrderPerCart, Unordered
<1>6. \A a, m : Unordered(a, m) => Unordered(a, m)'
  BY <1>1 DEF Unordered
<1>7. \A q \in Request : \A a, m : Checks(q, a, m)' => Checks(q, a, m) \/ (q = r /\ a = b /\ m = n)
  BY <1>0, <1>2, <1>3 DEF Checks
<1>8. ASSUME NEW q \in Request, pc'[q] = "checkout" PROVE CheckoutInv(q)'
  <2>1. CASE q = r
    <3>1. basket'[q].buyer = b /\ basket'[q].fill = n /\ n <= cart'[b].fill
      BY <1>0, <1>1, <1>2, <1>3, <2>1
    <3>2. ASSUME <<b, n>> \notin doubled' PROVE \A p \in Request : Checks(p, b, n)' => p = r
      BY <1>4, <1>7, <3>2
    <3>3. QED
      BY <1>3, <1>6, <2>1, <3>1, <3>2 DEF CheckoutInv
  <2>2. CASE q # r
    <3>1. CheckoutInv(q) /\ basket'[q] = basket[q] /\ pc[q] = "checkout"
      BY <1>2, <1>8, <2>2 DEF FillingsInv, CheckoutsInv
    <3>2. PICK a, m : a = basket[q].buyer /\ m = basket[q].fill
      OBVIOUS
    <3>3. a \in Buyer /\ m <= cart[a].fill /\ Checks(q, a, m)
      BY <3>1, <3>2 DEF CheckoutInv, Checks
    <3>4. ASSUME <<a, m>> \notin doubled'
          PROVE  Unordered(a, m)' /\ \A p \in Request : Checks(p, a, m)' => p = q
      <4>1. Unordered(a, m) /\ \A p \in Request : Checks(p, a, m) => p = q
        BY <1>4, <3>1, <3>2, <3>4 DEF CheckoutInv
      <4>2. ~(a = b /\ m = n)
        BY <1>4, <3>3, <3>4
      <4>3. QED
        BY <1>6, <1>7, <4>1, <4>2
    <3>5. QED
      BY <1>1, <3>1, <3>2, <3>3, <3>4 DEF CheckoutInv
  <2>3. QED
    BY <2>1, <2>2
<1>9. QED
  BY <1>5, <1>8 DEF FillingsInv, CheckoutsInv

\* A filling that is new has not been ordered.
LEMMA EditCartFillings ==
  ASSUME IInv, FillingsInv, NEW b \in Buyer, EditCart(b) PROVE FillingsInv'
<1>1. PICK c \in CartContents :
        cart' = [cart EXCEPT ![b] = [buyer |-> b, seller |-> c.seller, currency |-> c.currency,
                                     items |-> c.items, fill |-> cart[b].fill + 1]]
  BY DEF EditCart
<1>2. UNCHANGED <<status, placed, pc, basket, doubled>>
  BY DEF EditCart, request, history
<1>3. /\ cart[b].fill \in Nat /\ cart'[b].fill = cart[b].fill + 1 /\ cart'[b].buyer = b
      /\ \A a \in Buyer \ {b} : cart'[a] = cart[a]
  BY <1>1 DEF IInv, TypeOK, Basket
<1>4. ASSUME NEW a \in Buyer
      PROVE  cart[a].fill \in Nat /\ cart'[a].fill \in Nat /\ cart[a].fill <= cart'[a].fill
  <2>1. cart[a].fill \in Nat
    BY DEF IInv, TypeOK, Basket
  <2>2. a = b \/ cart'[a] = cart[a]
    BY <1>3
  <2>3. QED
    BY <1>3, <2>1, <2>2
<1>5. \A o \in OrderId : placed[o].fill \in Nat
  BY DEF IInv, TypeOK, Basket
<1>6. CartsInv'
  <2>1. ASSUME NEW o \in OrderId, status[o] # Absent
        PROVE  placed[o].buyer \in Buyer /\ placed[o].fill <= cart[placed[o].buyer].fill
    BY <2>1 DEF FillingsInv, CartsInv
  <2>2. ASSUME NEW o \in OrderId, status[o] # Absent
        PROVE  placed[o].fill <= cart'[placed[o].buyer].fill
    BY <2>1, <2>2, <1>4, <1>5
  <2>3. Unordered(b, cart'[b].fill)
    BY <2>1, <1>3, <1>5 DEF Unordered
  <2>4. \A a \in Buyer : cart'[a].buyer = a /\ (Lines(cart'[a]) # {} => Unordered(a, cart'[a].fill))
    BY <2>3, <1>3 DEF FillingsInv, CartsInv
  <2>5. QED
    BY <1>2, <2>1, <2>2, <2>4 DEF CartsInv, Unordered, Lines
<1>7. CheckoutsInv'
  <2> SUFFICES ASSUME NEW r \in Request, pc'[r] = "checkout" PROVE CheckoutInv(r)'
    BY DEF CheckoutsInv
  <2>1. CheckoutInv(r)
    BY <1>2 DEF FillingsInv, CheckoutsInv
  <2>2. basket[r].fill \in Nat
    BY DEF IInv, TypeOK, Basket
  <2>3. \A a, n : Unordered(a, n)' <=> Unordered(a, n)
    BY <1>2 DEF Unordered
  <2>4. \A q \in Request : \A a, n : Checks(q, a, n)' <=> Checks(q, a, n)
    BY <1>2 DEF Checks
  <2>5. QED
    BY <1>2, <1>4, <2>1, <2>2, <2>3, <2>4 DEF CheckoutInv
<1>8. OneOrderPerCart'
  BY <1>2 DEF FillingsInv, OneOrderPerCart
<1>9. QED
  BY <1>6, <1>7, <1>8 DEF FillingsInv

\* The new order is the first of its filling, or the filling is doubled; the cart is empty.
LEMMA CommitCheckoutFillings ==
  ASSUME IInv, FillingsInv, NEW r \in Request, NEW o \in OrderId, CommitCheckout(r, o)
  PROVE  FillingsInv'
<1> DEFINE b == basket[r]
<1>1. /\ pc[r] = "checkout" /\ status[o] = Absent
      /\ status' = [status EXCEPT ![o] = "PREPARING"]
      /\ placed' = [placed EXCEPT ![o] = b]
      /\ cart' = [cart EXCEPT ![b.buyer] = Emptied(cart[b.buyer])]
      /\ End(r) /\ UNCHANGED doubled
  BY DEF CommitCheckout
<1>2. /\ b.buyer \in Buyer /\ b.fill <= cart[b.buyer].fill
      /\ <<b.buyer, b.fill>> \notin doubled =>
           /\ Unordered(b.buyer, b.fill)
           /\ \A q \in Request : Checks(q, b.buyer, b.fill) => q = r
  BY <1>1 DEF FillingsInv, CheckoutsInv, CheckoutInv
<1>3. /\ status'[o] = "PREPARING" /\ placed'[o] = b
      /\ \A p \in OrderId \ {o} : status'[p] = status[p] /\ placed'[p] = placed[p]
  BY <1>1 DEF IInv, TypeOK
<1>4. /\ \A a \in Buyer \ {b.buyer} : cart'[a] = cart[a]
      /\ cart'[b.buyer] = Emptied(cart[b.buyer])
  BY <1>1, <1>2 DEF IInv, TypeOK
<1>5. \A a \in Buyer : cart'[a].fill = cart[a].fill /\ cart'[a].buyer = cart[a].buyer
  <2>1. cart[b.buyer] \in Basket
    BY <1>2 DEF IInv, TypeOK
  <2>2. Emptied(cart[b.buyer]).fill = cart[b.buyer].fill
        /\ Emptied(cart[b.buyer]).buyer = cart[b.buyer].buyer
    BY <2>1 DEF Emptied, Basket
  <2>3. QED
    BY <1>4, <2>2
<1>6. Lines(cart'[b.buyer]) = {}
  BY <1>2, <1>4 DEF Emptied, Lines, NoItems, IInv, TypeOK, Basket
<1>7. Checks(r, b.buyer, b.fill)
  BY <1>1 DEF Checks
<1> HIDE DEF b
<1>8. CartsInv'
  <2>1. ASSUME NEW a \in Buyer
        PROVE  (cart[a].buyer = a /\ (Lines(cart[a]) # {} => Unordered(a, cart[a].fill)))'
    <3>1. cart'[a].buyer = a
      BY <1>5 DEF FillingsInv, CartsInv
    <3>2. ASSUME Lines(cart'[a]) # {}, NEW p \in OrderId, status'[p] # Absent, placed'[p].buyer = a
          PROVE  placed'[p].fill # cart'[a].fill
      <4>1. a # b.buyer
        BY <1>6, <3>2
      <4>2. p # o
        BY <1>3, <3>2, <4>1
      <4>3. Unordered(a, cart[a].fill)
        BY <1>4, <3>2, <4>1 DEF FillingsInv, CartsInv
      <4>4. QED
        BY <1>3, <1>5, <3>2, <4>2, <4>3 DEF Unordered
    <3>3. (Lines(cart[a]) # {} => Unordered(a, cart[a].fill))'
      BY <3>2 DEF Unordered, Lines
    <3>4. QED
      BY <3>1, <3>3
  <2>2. ASSUME NEW p \in OrderId, (status[p] # Absent)'
        PROVE  (placed[p].buyer \in Buyer /\ placed[p].fill <= cart[placed[p].buyer].fill)'
    BY <1>2, <1>3, <1>5, <2>2 DEF FillingsInv, CartsInv
  <2>3. QED
    BY <2>1, <2>2 DEF CartsInv
<1>9. OneOrderPerCart'
  <2> SUFFICES ASSUME NEW p \in OrderId, NEW q \in OrderId, p # q,
                      status'[p] # Absent, status'[q] # Absent,
                      placed'[p].buyer = placed'[q].buyer, placed'[p].fill = placed'[q].fill
               PROVE  <<placed'[p].buyer, placed'[p].fill>> \in doubled
    BY <1>1 DEF OneOrderPerCart
  <2>1. CASE p # o /\ q # o
    BY <1>3, <2>1 DEF FillingsInv, OneOrderPerCart
  <2>2. CASE p = o \/ q = o
    BY <1>2, <1>3, <2>2 DEF Unordered
  <2>3. QED
    BY <2>1, <2>2
<1>10. CheckoutsInv'
  <2> SUFFICES ASSUME NEW q \in Request, pc'[q] = "checkout" PROVE CheckoutInv(q)'
    BY DEF CheckoutsInv
  <2>1. /\ pc'[r] = "idle"
        /\ \A p \in Request \ {r} : pc'[p] = pc[p] /\ basket'[p] = basket[p]
    BY <1>1 DEF End, IInv, TypeOK
  <2>2. q # r /\ pc[q] = "checkout" /\ basket'[q] = basket[q] /\ CheckoutInv(q)
    BY <2>1 DEF FillingsInv, CheckoutsInv
  <2>3. PICK a, n : a = basket[q].buyer /\ n = basket[q].fill
    OBVIOUS
  <2>4. a \in Buyer /\ n <= cart[a].fill /\ Checks(q, a, n)
    BY <2>2, <2>3 DEF CheckoutInv, Checks
  <2>5. ASSUME <<a, n>> \notin doubled
        PROVE  Unordered(a, n)' /\ \A p \in Request : Checks(p, a, n)' => p = q
    <3>1. Unordered(a, n) /\ \A p \in Request : Checks(p, a, n) => p = q
      BY <2>2, <2>3, <2>5 DEF CheckoutInv
    <3>2. ~(a = b.buyer /\ n = b.fill)
      BY <1>7, <2>2, <3>1
    <3>3. Unordered(a, n)'
      BY <1>3, <3>1, <3>2 DEF Unordered
    <3>4. \A p \in Request : Checks(p, a, n)' => Checks(p, a, n)
      BY <2>1 DEF Checks
    <3>5. QED
      BY <3>1, <3>3, <3>4
  <2>6. n <= cart'[a].fill
    BY <1>5, <2>4
  <2>7. QED
    BY <1>1, <2>2, <2>3, <2>4, <2>5, <2>6 DEF CheckoutInv
<1>11. QED
  BY <1>8, <1>9, <1>10 DEF FillingsInv

LEMMA NextFillings == ASSUME IInv, FillingsInv, [Next]_vars PROVE FillingsInv'
<1>1. CASE BuyerStep
  BY <1>1, EditCartFillings, StartCheckoutFillings DEF BuyerStep
<1>2. CASE SellerStep
  <2>1. PICK l \in ListingId :
          \/ SoftDelete(l)
          \/ \E q \in Quantity, c \in Currency : UpdateListing(l, q, c)
          \/ \E r \in Request, s \in {"PUBLISHED", "ARCHIVED"} : StartSetStatus(r, l, s)
    BY <1>2 DEF SellerStep
  <2>2. CASE SoftDelete(l) \/ \E q \in Quantity, c \in Currency : UpdateListing(l, q, c)
    BY <2>2, FillingsStay DEF SoftDelete, UpdateListing, request, history
  <2>3. ASSUME NEW r \in Request, NEW s \in {"PUBLISHED", "ARCHIVED"}, StartSetStatus(r, l, s)
        PROVE  FillingsInv'
    BY <2>3, OtherFillings DEF StartSetStatus, history
  <2>4. QED
    BY <2>1, <2>2, <2>3
<1>3. CASE OrderStep
  <2>1. PICK r \in Request, o \in OrderId :
          \/ CommitCheckout(r, o)
          \/ \E to \in OrderStatus : StartTransition(r, o, to)
          \/ \E actor \in Actor : StartCancel(r, o, actor)
    BY <1>3 DEF OrderStep
  <2>2. ASSUME NEW to \in OrderStatus, StartTransition(r, o, to) PROVE FillingsInv'
    BY <2>2, OtherFillings DEF StartTransition, Contest
  <2>3. ASSUME NEW actor \in Actor, StartCancel(r, o, actor) PROVE FillingsInv'
    BY <2>3, OtherFillings DEF StartCancel, Contest
  <2>4. QED
    BY <2>1, <2>2, <2>3, CommitCheckoutFillings
<1>4. CASE RequestStep
  <2>1. PICK r \in Request :
          \/ \E l \in ListingId : LockListing(r, l)
          \/ RejectCheckout(r)
          \/ CommitTransition(r)
          \/ CommitCancel(r)
          \/ CommitSetStatus(r)
          \/ Abort(r)
    BY <1>4 DEF RequestStep
  <2>2. CASE \E l \in ListingId : LockListing(r, l)
    BY <2>2, FillingsStay DEF LockListing, history
  <2>3. CASE RejectCheckout(r) \/ CommitSetStatus(r) \/ Abort(r)
    <3>1. End(r) /\ UNCHANGED <<cart, status, placed, doubled>>
      BY <2>3 DEF RejectCheckout, CommitSetStatus, Abort, history
    <3>2. QED
      BY <3>1, OtherFillings
  <2>4. CASE CommitTransition(r) \/ CommitCancel(r)
    <3>1. End(r) /\ UNCHANGED <<cart, placed, doubled>>
      BY <2>4 DEF CommitTransition, CommitCancel, history
    <3>2. target[r] \in OrderId /\ status[target[r]] # Absent
      BY <2>4 DEF CommitTransition, CommitCancel, IInv, RequestInv
    <3>3. \A o \in OrderId : status'[o] # Absent => status[o] # Absent
      BY <2>4, <3>2 DEF CommitTransition, CommitCancel, IInv, TypeOK
    <3>4. QED
      BY <3>1, <3>3, OtherFillings
  <2>5. QED
    BY <2>1, <2>2, <2>3, <2>4
<1>5. CASE UNCHANGED vars
  BY <1>5, FillingsStay DEF vars, request, history
<1>6. QED
  BY <1>1, <1>2, <1>3, <1>4, <1>5 DEF Next

\* However requests overlap, a filling of a cart is checked out into at most one order,
\* unless two checkouts of that very filling were under way at the same time: createFromCart
\* empties the cart in the transaction that inserts the order (orders.service.ts:225-230).
THEOREM OrderedOnce == Spec => []OneOrderPerCart
<1>1. Init => FillingsInv
  BY InitFillings
<1>2. IInv /\ FillingsInv /\ [Next]_vars => FillingsInv'
  BY NextFillings
<1>3. FillingsInv => OneOrderPerCart
  BY DEF FillingsInv
<1>4. QED
  BY <1>1, <1>2, <1>3, Invariance, PTL DEF Spec

-----------------------------------------------------------------------------
(* Sums.  SumFunctionOnSet picks the elements of a finite set one by one;  *)
(* that the recursion is well defined, and what one changed summand does   *)
(* to the sum, is shown by induction over sets of subsets.                 *)

\* The element that is summed first, and what is left for the recursion.
First(s) == CHOOSE x \in s : TRUE
Rest(s) == s \ {First(s)}

\* The value the recursion for f gives to s, when h is what it gives to smaller sets.
SumStep(f, h, s) == IF s = {} THEN 0 ELSE f[First(s)] + h[Rest(s)]

\* The function that the recursion defines on the subsets of S.
Partial(f, S) == CHOOSE h : h = [s \in SUBSET S |-> SumStep(f, h, s)]

LEMMA SumIsPartial == ASSUME NEW f, NEW S PROVE SumFunctionOnSet(f, S) = Partial(f, S)[S]
BY DEF SumFunctionOnSet, FoldFunctionOnSet, MapThenFoldSet, Partial, SumStep, First, Rest

\* Induction over the natural numbers, for a set.
LEMMA NatSetInduction ==
  ASSUME NEW T \in SUBSET Nat, 0 \in T, \A n \in T : n + 1 \in T PROVE T = Nat
<1> DEFINE R == {ss \in Nat \X Nat : ss[1] < ss[2]}
           Missing == Nat \ T
<1> SUFFICES ASSUME Missing # {} PROVE FALSE
  OBVIOUS
<1>1. IsWellFoundedOn(R, Nat)
  BY NatLessThanWellFounded DEF OpToRel
<1>2. \E n \in Missing : \A m \in Missing : <<m, n>> \notin R
  <2>1. Missing \subseteq Nat
    OBVIOUS
  <2> HIDE DEF R, Missing
  <2>2. QED
    BY <1>1, <2>1, WFMin
<1>3. PICK n \in Missing : \A m \in Missing : ~ (m < n)
  BY <1>2
<1>4. n - 1 \in T
  BY <1>3
<1>5. QED
  BY <1>4

\* Induction over the subsets of a finite set, taking out one element at a time.
LEMMA SubsetInduction ==
  ASSUME NEW S, IsFiniteSet(S), NEW T \in SUBSET SUBSET S, {} \in T,
         \A s \in SUBSET S : s # {} /\ Rest(s) \in T => s \in T
  PROVE  T = SUBSET S
<1> DEFINE Upto == {n \in Nat : \A s \in SUBSET S : Cardinality(s) <= n => s \in T}
<1>1. \A s \in SUBSET S : IsFiniteSet(s) /\ Cardinality(s) \in Nat
  BY FS_Subset, FS_CardinalityType
<1>2. 0 \in Upto
  BY <1>1, FS_EmptySet
<1>3. ASSUME NEW n \in Upto PROVE n + 1 \in Upto
  <2> SUFFICES ASSUME NEW s \in SUBSET S, Cardinality(s) <= n + 1, s # {} PROVE s \in T
    OBVIOUS
  <2>1. First(s) \in s
    BY DEF First
  <2>2. Cardinality(Rest(s)) = Cardinality(s) - 1
    BY <1>1, <2>1, FS_RemoveElement DEF Rest
  <2>3. Rest(s) \in SUBSET S /\ Cardinality(Rest(s)) <= n
    BY <1>1, <2>2 DEF Rest
  <2>4. QED
    BY <2>3
<1>4. Upto = Nat
  <2>1. Upto \in SUBSET Nat
    OBVIOUS
  <2> HIDE DEF Upto
  <2>2. QED
    BY <1>2, <1>3, <2>1, NatSetInduction
<1>5. QED
  BY <1>1, <1>4

\* The recursion has a solution.
LEMMA PartialExists ==
  ASSUME NEW S, IsFiniteSet(S), NEW f \in [S -> Int]
  PROVE  \E h : h = [s \in SUBSET S |-> SumStep(f, h, s)]
<1> DEFINE Small(n) == {s \in SUBSET S : Cardinality(s) <= n}
           Solved == {n \in Nat : \E h \in [Small(n) -> Int] : \A s \in Small(n) : h[s] = SumStep(f, h, s)}
<1>1. \A s \in SUBSET S : IsFiniteSet(s) /\ Cardinality(s) \in Nat /\ Cardinality(s) <= Cardinality(S)
  BY FS_Subset, FS_CardinalityType
<1>2. \A s \in SUBSET S : s # {} =>
        /\ First(s) \in S /\ f[First(s)] \in Int
        /\ Rest(s) \in SUBSET S /\ Cardinality(Rest(s)) = Cardinality(s) - 1
  <2> SUFFICES ASSUME NEW s \in SUBSET S, s # {}
               PROVE  /\ First(s) \in S /\ f[First(s)] \in Int
                      /\ Rest(s) \in SUBSET S /\ Cardinality(Rest(s)) = Cardinality(s) - 1
    OBVIOUS
  <2>1. First(s) \in s
    BY DEF First
  <2>2. QED
    BY <1>1, <2>1, FS_RemoveElement DEF Rest
<1>3. 0 \in Solved
  <2> DEFINE h == [s \in Small(0) |-> 0]
  <2>1. \A s \in Small(0) : s = {}
    BY <1>1, FS_EmptySet
  <2>2. h \in [Small(0) -> Int] /\ \A s \in Small(0) : h[s] = SumStep(f, h, s)
    BY <2>1 DEF SumStep
  <2>3. QED
    BY <2>2
<1>4. ASSUME NEW n \in Solved PROVE n + 1 \in Solved
  <2>1. PICK h \in [Small(n) -> Int] : \A s \in Small(n) : h[s] = SumStep(f, h, s)
    OBVIOUS
  <2> DEFINE g == [s \in Small(n + 1) |-> SumStep(f, h, s)]
  <2>2. \A s \in Small(n + 1) : s # {} => Rest(s) \in Small(n) /\ Rest(s) \in Small(n + 1)
    BY <1>1, <1>2
  <2>3. g \in [Small(n + 1) -> Int]
    BY <1>2, <2>1, <2>2 DEF SumStep
  <2>4. \A s \in Small(n) : s \in Small(n + 1) /\ g[s] = h[s]
    BY <1>1, <2>1
  <2>5. \A s \in Small(n + 1) : g[s] = SumStep(f, g, s)
    BY <2>2, <2>4 DEF SumStep
  <2> HIDE DEF g, Small
  <2>6. QED
    BY <2>3, <2>5
<1>5. Solved = Nat
  <2>1. Solved \in SUBSET Nat
    OBVIOUS
  <2> HIDE DEF Solved
  <2>2. QED
    BY <1>3, <1>4, <2>1, NatSetInduction
<1>6. Cardinality(S) \in Solved
  BY <1>5, FS_CardinalityType
<1>7. Small(Cardinality(S)) = SUBSET S
  BY <1>1
<1>8. PICK h \in [SUBSET S -> Int] : \A s \in SUBSET S : h[s] = SumStep(f, h, s)
  BY <1>6, <1>7
<1>9. h = [s \in SUBSET S |-> SumStep(f, h, s)]
  BY <1>8
<1>10. QED
  BY <1>9

LEMMA PartialSteps ==
  ASSUME NEW S, IsFiniteSet(S), NEW f \in [S -> Int], NEW s \in SUBSET S
  PROVE  Partial(f, S)[s] = SumStep(f, Partial(f, S), s)
<1> DEFINE P == Partial(f, S)
<1>1. P = [t \in SUBSET S |-> SumStep(f, P, t)]
  BY PartialExists DEF Partial
<1> HIDE DEF P
<1>2. QED
  BY <1>1 DEF P

LEMMA SumType ==
  ASSUME NEW S, IsFiniteSet(S), NEW f \in [S -> Int] PROVE SumFunction(f) \in Int
<1> DEFINE T == {s \in SUBSET S : Partial(f, S)[s] \in Int}
<1>1. {} \in T
  BY PartialSteps DEF SumStep
<1>2. ASSUME NEW s \in SUBSET S, s # {}, Rest(s) \in T PROVE s \in T
  <2>1. First(s) \in S
    BY <1>2 DEF First
  <2>2. QED
    BY <1>2, <2>1, PartialSteps DEF SumStep
<1>3. T = SUBSET S
  <2>1. T \in SUBSET SUBSET S
    OBVIOUS
  <2> HIDE DEF T
  <2>2. QED
    BY <1>1, <1>2, <2>1, SubsetInduction
<1>4. QED
  BY <1>3, SumIsPartial DEF SumFunction

\* A sum of zeros.
LEMMA SumOfZeros ==
  ASSUME NEW S, IsFiniteSet(S), NEW f \in [S -> Int], \A x \in S : f[x] = 0
  PROVE  SumFunction(f) = 0
<1> DEFINE T == {s \in SUBSET S : Partial(f, S)[s] = 0}
<1>1. {} \in T
  BY PartialSteps DEF SumStep
<1>2. ASSUME NEW s \in SUBSET S, s # {}, Rest(s) \in T PROVE s \in T
  <2>1. First(s) \in S
    BY <1>2 DEF First
  <2>2. QED
    BY <1>2, <2>1, PartialSteps DEF SumStep
<1>3. T = SUBSET S
  <2>1. T \in SUBSET SUBSET S
    OBVIOUS
  <2> HIDE DEF T
  <2>2. QED
    BY <1>1, <1>2, <2>1, SubsetInduction
<1>4. QED
  BY <1>3, SumIsPartial DEF SumFunction

\* One summand changes: the sum changes by as much.
LEMMA SumOfChange ==
  ASSUME NEW S, IsFiniteSet(S), NEW f \in [S -> Int], NEW g \in [S -> Int],
         NEW x \in S, \A y \in S \ {x} : g[y] = f[y]
  PROVE  SumFunction(g) = SumFunction(f) + (g[x] - f[x])
<1> DEFINE PF == Partial(f, S)
           PG == Partial(g, S)
           Gain(s) == IF x \in s THEN g[x] - f[x] ELSE 0
           T == {s \in SUBSET S : PF[s] \in Int /\ PG[s] = PF[s] + Gain(s)}
<1>1. {} \in T
  BY PartialSteps DEF SumStep
<1>2. ASSUME NEW s \in SUBSET S, s # {}, Rest(s) \in T PROVE s \in T
  <2>1. First(s) \in s /\ First(s) \in S
    BY <1>2 DEF First
  <2>2. PF[s] = f[First(s)] + PF[Rest(s)] /\ PG[s] = g[First(s)] + PG[Rest(s)]
    BY <1>2, PartialSteps DEF SumStep
  <2>3. CASE First(s) = x
    <3>1. Gain(Rest(s)) = 0 /\ Gain(s) = g[x] - f[x]
      BY <2>1, <2>3 DEF Rest
    <3>2. QED
      BY <1>2, <2>2, <2>3, <3>1
  <2>4. CASE First(s) # x
    <3>1. Gain(Rest(s)) = Gain(s)
      BY <2>4 DEF Rest
    <3>2. QED
      BY <1>2, <2>1, <2>2, <2>4, <3>1
  <2>5. QED
    BY <2>3, <2>4
<1>3. T = SUBSET S
  <2>1. T \in SUBSET SUBSET S
    OBVIOUS
  <2> HIDE DEF T
  <2>2. QED
    BY <1>1, <1>2, <2>1, SubsetInduction
<1>4. PG[S] = PF[S] + (g[x] - f[x])
  BY <1>3
<1>5. QED
  BY <1>4, SumIsPartial DEF SumFunction

-----------------------------------------------------------------------------
(* Stock and orders.                                                       *)

\* The units of a listing in orders, and those that cancellations of them stand for.
OrderedUnits(l) == [o \in OrderId |-> IF status[o] # Absent THEN placed[o].items[l] ELSE 0]
CancelledUnits(l) == [o \in OrderId |-> restocks[o] * placed[o].items[l]]

\* What has been taken from the stock of a listing is what the orders are for, each
\* counted once: no checkout takes units without an order, or for another listing.
SoldIsOrdered == \A l \in ListingId : sold[l] = SumFunction(OrderedUnits(l))

LEMMA UnitTypes ==
  ASSUME TypeOK, NEW l \in ListingId
  PROVE  OrderedUnits(l) \in [OrderId -> Int] /\ CancelledUnits(l) \in [OrderId -> Int]
<1>1. \A o \in OrderId : placed[o].items[l] \in Nat /\ restocks[o] \in Nat
  BY DEF TypeOK, Basket
<1>2. QED
  BY <1>1 DEF OrderedUnits, CancelledUnits

LEMMA NextSoldIsOrdered ==
  ASSUME IsFiniteSet(OrderId), IInv, IInv', SoldIsOrdered, [Next]_vars PROVE SoldIsOrdered'
<1> SUFFICES ASSUME NEW l \in ListingId PROVE sold'[l] = SumFunction(OrderedUnits(l)')
  BY DEF SoldIsOrdered
<1>1. sold[l] = SumFunction(OrderedUnits(l))
  BY DEF SoldIsOrdered
<1>2. OrderedUnits(l) \in [OrderId -> Int] /\ OrderedUnits(l)' \in [OrderId -> Int]
  <2>1. OrderedUnits(l) \in [OrderId -> Int]
    BY UnitTypes DEF IInv
  <2>2. \A o \in OrderId : placed'[o].items[l] \in Int
    BY DEF IInv, TypeOK, Basket
  <2>3. QED
    BY <2>1, <2>2 DEF OrderedUnits
<1>3. CASE UNCHANGED <<sold, status, placed>>
  BY <1>1, <1>3 DEF OrderedUnits
<1>4. ASSUME NEW r \in Request, NEW o \in OrderId, CommitCheckout(r, o)
      PROVE  sold'[l] = SumFunction(OrderedUnits(l)')
  <2>1. /\ status[o] = Absent /\ sold' = [m \in ListingId |-> sold[m] + basket[r].items[m]]
        /\ status' = [status EXCEPT ![o] = "PREPARING"]
        /\ placed' = [placed EXCEPT ![o] = basket[r]]
    BY <1>4 DEF CommitCheckout
  <2>2. /\ status'[o] = "PREPARING" /\ placed'[o] = basket[r]
        /\ \A p \in OrderId \ {o} : status'[p] = status[p] /\ placed'[p] = placed[p]
    BY <2>1 DEF IInv, TypeOK
  <2>3. OrderedUnits(l)[o] = 0 /\ OrderedUnits(l)'[o] = basket[r].items[l]
    BY <2>1, <2>2 DEF OrderedUnits, Absent
  <2>4. \A p \in OrderId \ {o} : OrderedUnits(l)'[p] = OrderedUnits(l)[p]
    BY <2>2 DEF OrderedUnits
  <2>5. SumFunction(OrderedUnits(l)') = SumFunction(OrderedUnits(l)) + (basket[r].items[l] - 0)
    BY <1>2, <2>3, <2>4, SumOfChange
  <2>6. basket[r].items[l] \in Int
    BY DEF IInv, TypeOK, Basket
  <2>7. QED
    BY <1>1, <2>1, <2>5, <2>6
<1>5. ASSUME NEW r \in Request, CommitTransition(r) \/ CommitCancel(r)
      PROVE  sold'[l] = SumFunction(OrderedUnits(l)')
  <2>1. UNCHANGED <<sold, placed>>
    BY <1>5 DEF CommitTransition, CommitCancel, history
  <2>2. \A o \in OrderId : status'[o] = Absent <=> status[o] = Absent
    <3>1. target[r] \in OrderId /\ status[target[r]] # Absent
      BY <1>5 DEF CommitTransition, CommitCancel, IInv, RequestInv
    <3>2. PICK new \in {"ON_THE_WAY", "DELIVERED", "CANCELLED"} : status' = [status EXCEPT ![target[r]] = new]
      BY <1>5 DEF CommitTransition, CommitCancel, IInv, RequestInv
    <3>3. QED
      BY <3>1, <3>2 DEF IInv, TypeOK, Absent
  <2>3. OrderedUnits(l)' = OrderedUnits(l)
    BY <2>1, <2>2 DEF OrderedUnits
  <2>4. QED
    BY <1>1, <2>1, <2>3
<1>6. \/ UNCHANGED <<sold, status, placed>>
      \/ \E r \in Request, o \in OrderId : CommitCheckout(r, o)
      \/ \E r \in Request : CommitTransition(r) \/ CommitCancel(r)
  <2>1. CASE BuyerStep
    BY <2>1 DEF BuyerStep, EditCart, StartCheckout, Double, history
  <2>2. CASE SellerStep
    BY <2>2 DEF SellerStep, SoftDelete, UpdateListing, StartSetStatus, history
  <2>3. CASE OrderStep
    BY <2>3 DEF OrderStep, StartTransition, StartCancel, Contest, history
  <2>4. CASE RequestStep
    BY <2>4 DEF RequestStep, LockListing, RejectCheckout, CommitSetStatus, Abort, history
  <2>5. CASE UNCHANGED vars
    BY <2>5 DEF vars, history
  <2>6. QED
    BY <2>1, <2>2, <2>3, <2>4, <2>5 DEF Next
<1>7. QED
  BY <1>3, <1>4, <1>5, <1>6

\* Whatever overlaps, the units sold are those of the orders that exist; with StockAccounted,
\* stock is what was supplied, less the units of all orders, plus what was returned.
THEOREM SoldUnitsAreOrdered == ASSUME IsFiniteSet(OrderId) PROVE Spec => []SoldIsOrdered
<1>1. Init => SoldIsOrdered
  <2> SUFFICES ASSUME Init, NEW l \in ListingId PROVE sold[l] = SumFunction(OrderedUnits(l))
    BY DEF SoldIsOrdered
  <2>1. OrderedUnits(l) \in [OrderId -> Int] /\ \A o \in OrderId : OrderedUnits(l)[o] = 0
    BY DEF Init, OrderedUnits
  <2>2. SumFunction(OrderedUnits(l)) = 0
    BY <2>1, SumOfZeros
  <2>3. QED
    BY <2>2 DEF Init, NoItems
<1>2. IInv /\ IInv' /\ SoldIsOrdered /\ [Next]_vars => SoldIsOrdered'
  BY NextSoldIsOrdered
<1>3. QED
  BY <1>1, <1>2, Invariance, PTL DEF Spec

\* The units a listing got back are those of its cancelled orders; a deleted one may miss some.
GotBack(l) ==
  /\ returned[l] <= SumFunction(CancelledUnits(l))
  /\ ~listing[l].deleted => returned[l] = SumFunction(CancelledUnits(l))

\* How often an order has given back its units: never before it exists, and as its status
\* says unless it is contested.
RestocksKnown ==
  /\ \A o \in OrderId : status[o] = Absent => restocks[o] = 0
  /\ \A o \in OrderId \ contested : restocks[o] = IF status[o] = "CANCELLED" THEN 1 ELSE 0

LEMMA RestockedOnceIsGotBack ==
  RestockedOnce <=> /\ \A o \in OrderId \ contested :
                          restocks[o] = IF status[o] = "CANCELLED" THEN 1 ELSE 0
                    /\ \A l \in ListingId : GotBack(l)
BY DEF RestockedOnce, GotBack, CancelledUnits

\* A step that neither inserts, moves nor cancels an order.
LEMMA RestocksStay ==
  ASSUME RestocksKnown, UNCHANGED <<status, restocks>>, [Next]_vars PROVE RestocksKnown'
BY ContestedGrows DEF RestocksKnown

LEMMA NextRestocks ==
  ASSUME IInv, AloneInv, RestocksKnown, [Next]_vars PROVE RestocksKnown'
<1>1. contested \subseteq contested'
  BY ContestedGrows
<1>2. ASSUME NEW r \in Request, NEW o \in OrderId, CommitCheckout(r, o) PROVE RestocksKnown'
  <2>1. status[o] = Absent /\ status' = [status EXCEPT ![o] = "PREPARING"] /\ restocks' = restocks
    BY <1>2 DEF CommitCheckout
  <2>2. restocks[o] = 0 /\ status'[o] = "PREPARING" /\ \A p \in OrderId \ {o} : status'[p] = status[p]
    BY <2>1 DEF RestocksKnown, IInv, TypeOK
  <2>3. QED
    BY <1>1, <2>1, <2>2 DEF RestocksKnown, Absent
<1>3. ASSUME NEW r \in Request, CommitTransition(r) PROVE RestocksKnown'
  <2>1. PICK o \in OrderId : o = target[r]
    BY <1>3 DEF CommitTransition, IInv, RequestInv
  <2>2. /\ Moves(r, o) /\ pc[r] = "transition" /\ restocks' = restocks
        /\ status' = [status EXCEPT ![o] = goal[r]]
    BY <1>3, <2>1 DEF CommitTransition, Moves, history
  <2>3. status[o] # Absent /\ goal[r] \in {"ON_THE_WAY", "DELIVERED"}
    BY <2>1, <2>2 DEF IInv, RequestInv
  <2>4. status'[o] = goal[r] /\ \A p \in OrderId \ {o} : status'[p] = status[p]
    BY <2>2 DEF IInv, TypeOK
  <2>5. o \notin contested => status[o] \in {"PREPARING", "ON_THE_WAY"}
    BY <2>1, <2>2 DEF AloneInv, Alone, StatusKnown
  <2>6. QED
    BY <1>1, <2>2, <2>3, <2>4, <2>5 DEF RestocksKnown, Absent
<1>4. ASSUME NEW r \in Request, CommitCancel(r) PROVE RestocksKnown'
  <2>1. PICK o \in OrderId : o = target[r]
    BY <1>4 DEF CommitCancel, IInv, RequestInv
  <2>2. /\ Moves(r, o) /\ pc[r] = "cancel"
        /\ restocks' = [restocks EXCEPT ![o] = @ + 1]
        /\ status' = [status EXCEPT ![o] = "CANCELLED"]
    BY <1>4, <2>1 DEF CommitCancel, Moves
  <2>3. status[o] # Absent
    BY <2>1, <2>2 DEF IInv, RequestInv
  <2>4. /\ status'[o] = "CANCELLED" /\ restocks'[o] = restocks[o] + 1
        /\ \A p \in OrderId \ {o} : status'[p] = status[p] /\ restocks'[p] = restocks[p]
    BY <2>2 DEF IInv, TypeOK
  <2>5. o \notin contested => status[o] \in {"PREPARING", "ON_THE_WAY"}
    BY <2>1, <2>2 DEF AloneInv, Alone, StatusKnown
  <2>6. o \notin contested => restocks'[o] = 1
    BY <2>4, <2>5 DEF RestocksKnown
  <2>7. QED
    BY <1>1, <2>3, <2>4, <2>6 DEF RestocksKnown, Absent
<1>5. \/ UNCHANGED <<status, restocks>>
      \/ \E r \in Request, o \in OrderId : CommitCheckout(r, o)
      \/ \E r \in Request : CommitTransition(r) \/ CommitCancel(r)
  <2>1. CASE BuyerStep
    BY <2>1 DEF BuyerStep, EditCart, StartCheckout, Double, history
  <2>2. CASE SellerStep
    BY <2>2 DEF SellerStep, SoftDelete, UpdateListing, StartSetStatus, history
  <2>3. CASE OrderStep
    BY <2>3 DEF OrderStep, StartTransition, StartCancel, Contest, history
  <2>4. CASE RequestStep
    BY <2>4 DEF RequestStep, LockListing, RejectCheckout, CommitSetStatus, Abort, history
  <2>5. CASE UNCHANGED vars
    BY <2>5 DEF vars, history
  <2>6. QED
    BY <2>1, <2>2, <2>3, <2>4, <2>5 DEF Next
<1>6. QED
  BY <1>2, <1>3, <1>4, <1>5, RestocksStay

LEMMA OnceMore == ASSUME NEW n \in Nat, NEW k \in Nat PROVE (n + 1) * k = n * k + k
OBVIOUS

\* The step of a cancellation: one order has been cancelled once more, and its units come
\* back to every listing that has not been deleted.
LEMMA CommitCancelGotBack ==
  ASSUME IsFiniteSet(OrderId), IInv, RequestsKnow, NEW l \in ListingId, GotBack(l),
         NEW r \in Request, CommitCancel(r)
  PROVE  GotBack(l)'
<1> DEFINE n == basket[r].items
<1>1. PICK o \in OrderId : o = target[r]
  BY DEF CommitCancel, IInv, RequestInv
<1>2. /\ pc[r] = "cancel" /\ Granted(r)
      /\ listing' = [m \in ListingId |->
            IF m \in {k \in Lines(basket[r]) : seen[r][k] # Null}
            THEN AfterRestock(listing[m], n[m]) ELSE listing[m]]
      /\ returned' = [m \in ListingId |->
            IF m \in {k \in Lines(basket[r]) : seen[r][k] # Null} THEN returned[m] + n[m] ELSE returned[m]]
      /\ restocks' = [restocks EXCEPT ![o] = @ + 1]
      /\ UNCHANGED placed
  BY <1>1 DEF CommitCancel
<1>3. /\ basket[r] = placed[o]
      /\ \A k \in ListingId : seen[r][k] # Null => ~seen[r][k].deleted
  BY <1>1, <1>2 DEF RequestsKnow
<1>4. /\ n[l] \in Nat /\ restocks[o] \in Nat
      /\ restocks'[o] = restocks[o] + 1
      /\ \A p \in OrderId \ {o} : restocks'[p] = restocks[p]
  BY <1>2 DEF IInv, TypeOK, Basket
<1>5. /\ CancelledUnits(l) \in [OrderId -> Int]
      /\ CancelledUnits(l)' \in [OrderId -> Int]
  <2>1. CancelledUnits(l) \in [OrderId -> Int]
    BY UnitTypes DEF IInv
  <2>2. \A p \in OrderId : placed'[p].items[l] \in Nat /\ restocks'[p] \in Nat
    BY <1>2, <1>4 DEF IInv, TypeOK, Basket
  <2>3. QED
    BY <2>1, <2>2 DEF CancelledUnits
<1>6. SumFunction(CancelledUnits(l)') = SumFunction(CancelledUnits(l)) + n[l]
  <2>1. /\ CancelledUnits(l)[o] = restocks[o] * n[l]
        /\ CancelledUnits(l)'[o] = (restocks[o] + 1) * n[l]
    BY <1>2, <1>3, <1>4 DEF CancelledUnits
  <2>2. CancelledUnits(l)'[o] = CancelledUnits(l)[o] + n[l]
    BY <1>4, <2>1, OnceMore
  <2>3. \A p \in OrderId \ {o} : CancelledUnits(l)'[p] = CancelledUnits(l)[p]
    BY <1>2, <1>4 DEF CancelledUnits
  <2>4. SumFunction(CancelledUnits(l)')
          = SumFunction(CancelledUnits(l)) + (CancelledUnits(l)'[o] - CancelledUnits(l)[o])
    BY <1>5, <2>3, SumOfChange
  <2>5. CancelledUnits(l)[o] \in Int
    BY <1>5
  <2> HIDE DEF n
  <2>6. QED
    BY <1>4, <2>2, <2>4, <2>5
<1>7. SumFunction(CancelledUnits(l)) \in Int /\ returned[l] \in Int
  BY <1>5, SumType DEF IInv, TypeOK
<1>8. CASE l \in Lines(basket[r]) /\ seen[r][l] # Null
  <2>1. ~listing[l].deleted
    BY <1>3, <1>8 DEF IInv, LockedRowsAreCurrent
  <2>2. returned'[l] = returned[l] + n[l]
    BY <1>2, <1>8
  <2>3. QED
    BY <1>4, <1>6, <1>7, <2>1, <2>2 DEF GotBack
<1>9. CASE ~(l \in Lines(basket[r]) /\ seen[r][l] # Null)
  <2>1. listing'[l] = listing[l] /\ returned'[l] = returned[l]
    BY <1>2, <1>9
  <2>2. l \in Lines(basket[r]) => listing[l].deleted
    BY <1>2, <1>9 DEF Granted
  <2>3. l \notin Lines(basket[r]) => n[l] = 0
    BY <1>4 DEF Lines
  <2>4. QED
    BY <1>4, <1>6, <1>7, <2>1, <2>2, <2>3 DEF GotBack
<1>10. QED
  BY <1>8, <1>9

\* Every other step cancels no order, returns nothing and restores no deleted listing.
LEMMA OtherStepsGotBack ==
  ASSUME IInv, NEW l \in ListingId, GotBack(l), returned'[l] = returned[l], restocks' = restocks,
         listing[l].deleted => listing'[l].deleted,
         \A o \in OrderId : placed'[o] = placed[o] \/ CancelledUnits(l)'[o] = CancelledUnits(l)[o]
  PROVE  GotBack(l)'
<1>1. CancelledUnits(l)' = CancelledUnits(l)
  BY DEF CancelledUnits
<1>2. QED
  BY <1>1 DEF GotBack

LEMMA NextGotBack ==
  ASSUME IsFiniteSet(OrderId), IInv, RequestsKnow, RestocksKnown, [Next]_vars,
         NEW l \in ListingId, GotBack(l)
  PROVE  GotBack(l)'
<1>1. listing[l] \in Row
  BY DEF IInv, TypeOK
<1>2. ASSUME NEW r \in Request, NEW o \in OrderId, CommitCheckout(r, o) PROVE GotBack(l)'
  <2>1. /\ status[o] = Absent /\ UNCHANGED <<returned, restocks>>
        /\ listing' = [m \in ListingId |->
              IF m \in Lines(basket[r]) THEN AfterSale(listing[m], seen[r][m], basket[r].items[m])
              ELSE listing[m]]
        /\ placed' = [placed EXCEPT ![o] = basket[r]]
    BY <1>2 DEF CommitCheckout
  <2>2. listing'[l].deleted = listing[l].deleted
    BY <1>1, <2>1 DEF AfterSale, Row
  <2>3. CancelledUnits(l)'[o] = CancelledUnits(l)[o]
    <3>1. restocks[o] = 0 /\ placed[o].items[l] \in Nat /\ placed'[o].items[l] \in Nat
      BY <2>1 DEF RestocksKnown, IInv, TypeOK, Basket
    <3>2. 0 * placed[o].items[l] = 0 /\ 0 * placed'[o].items[l] = 0
      BY <3>1
    <3>3. QED
      BY <2>1, <3>1, <3>2 DEF CancelledUnits
  <2>4. \A p \in OrderId \ {o} : placed'[p] = placed[p]
    BY <2>1 DEF IInv, TypeOK
  <2>5. QED
    BY <2>1, <2>2, <2>3, <2>4, OtherStepsGotBack
<1>3. ASSUME UNCHANGED <<placed, returned, restocks>>, listing[l].deleted => listing'[l].deleted
      PROVE  GotBack(l)'
  BY <1>3, OtherStepsGotBack
<1>4. ASSUME NEW r \in Request, CommitSetStatus(r) PROVE GotBack(l)'
  <2>1. /\ listing' = [listing EXCEPT ![target[r]].status = goal[r]]
        /\ UNCHANGED <<placed, returned, restocks>>
    BY <1>4 DEF CommitSetStatus, history
  <2>2. listing'[l].deleted = listing[l].deleted
    BY <1>1, <2>1 DEF IInv, TypeOK, Row
  <2>3. QED
    BY <2>1, <2>2, <1>3
<1>5. ASSUME NEW m \in ListingId,
             SoftDelete(m) \/ \E q \in Quantity, c \in Currency : UpdateListing(m, q, c)
      PROVE  GotBack(l)'
  <2>1. CASE SoftDelete(m)
    <3>1. /\ listing' = [listing EXCEPT ![m].deleted = TRUE, ![m].status = "ARCHIVED"]
          /\ UNCHANGED <<placed, returned, restocks>>
      BY <2>1 DEF SoftDelete, history
    <3>2. listing[l].deleted => listing'[l].deleted
      BY <1>1, <3>1 DEF IInv, TypeOK, Row
    <3>3. QED
      BY <3>1, <3>2, <1>3
  <2>2. ASSUME NEW q \in Quantity, NEW c \in Currency, UpdateListing(m, q, c) PROVE GotBack(l)'
    <3>1. /\ listing' = [listing EXCEPT ![m].qty = q, ![m].currency = c]
          /\ UNCHANGED <<placed, returned, restocks>>
      BY <2>2 DEF UpdateListing
    <3>2. listing[l].deleted => listing'[l].deleted
      BY <1>1, <3>1 DEF IInv, TypeOK, Row
    <3>3. QED
      BY <3>1, <3>2, <1>3
  <2>3. QED
    BY <1>5, <2>1, <2>2
<1>6. \/ UNCHANGED <<listing, placed, returned, restocks>>
      \/ \E r \in Request, o \in OrderId : CommitCheckout(r, o)
      \/ \E r \in Request : CommitCancel(r) \/ CommitSetStatus(r)
      \/ \E m \in ListingId : SoftDelete(m) \/ \E q \in Quantity, c \in Currency : UpdateListing(m, q, c)
  <2>1. CASE BuyerStep
    BY <2>1 DEF BuyerStep, EditCart, StartCheckout, Double, history
  <2>2. CASE SellerStep
    BY <2>2 DEF SellerStep, StartSetStatus, history
  <2>3. CASE OrderStep
    BY <2>3 DEF OrderStep, StartTransition, StartCancel, Contest, history
  <2>4. CASE RequestStep
    BY <2>4 DEF RequestStep, LockListing, RejectCheckout, CommitTransition, Abort, history
  <2>5. CASE UNCHANGED vars
    BY <2>5 DEF vars, history
  <2>6. QED
    BY <2>1, <2>2, <2>3, <2>4, <2>5 DEF Next
<1>7. CASE UNCHANGED <<listing, placed, returned, restocks>>
  BY <1>3, <1>7
<1>8. QED
  BY <1>2, <1>4, <1>5, <1>6, <1>7, CommitCancelGotBack

\* However requests overlap: an order that no two of them were about to move or cancel at the
\* same time gave back its units once if it is cancelled and never otherwise, and whatever
\* came back to a listing came with the cancellations of its orders, whatever sellers edit or
\* delete meanwhile.
THEOREM CancelledOrdersGaveBackOnce ==
  ASSUME IsFiniteSet(OrderId) PROVE Spec => []RestockedOnce
<1>1. Init => RestockedOnce /\ RestocksKnown
  <2> SUFFICES ASSUME Init PROVE RestockedOnce /\ RestocksKnown
    OBVIOUS
  <2>1. RestocksKnown
    BY DEF Init, RestocksKnown, Absent
  <2>2. ASSUME NEW l \in ListingId PROVE GotBack(l)
    <3>1. CancelledUnits(l) \in [OrderId -> Int] /\ \A o \in OrderId : CancelledUnits(l)[o] = 0
      BY DEF Init, CancelledUnits, NoBasket, NoItems
    <3>2. SumFunction(CancelledUnits(l)) = 0
      BY <3>1, SumOfZeros
    <3>3. QED
      BY <3>2 DEF Init, NoItems, GotBack
  <2>3. QED
    BY <2>1, <2>2, RestockedOnceIsGotBack DEF RestocksKnown
<1>2. IInv /\ RequestsKnow /\ AloneInv /\ RestockedOnce /\ RestocksKnown /\ [Next]_vars
      => (RestockedOnce /\ RestocksKnown)'
  <2> SUFFICES ASSUME IInv, RequestsKnow, AloneInv, RestockedOnce, RestocksKnown, [Next]_vars
               PROVE  RestockedOnce' /\ RestocksKnown'
    OBVIOUS
  <2>1. RestocksKnown'
    BY NextRestocks
  <2>2. \A l \in ListingId : GotBack(l)
    BY RestockedOnceIsGotBack
  <2>3. \A l \in ListingId : GotBack(l)'
    BY <2>2, NextGotBack
  <2>4. QED
    BY <2>1, <2>3 DEF RestockedOnce, GotBack, CancelledUnits, RestocksKnown
<1>3. Init => RequestsKnow /\ AloneInv
  BY InitKnow, InitAlone
<1>4. IInv /\ RequestsKnow /\ [Next]_vars => RequestsKnow'
  BY NextKnow
<1>5. IInv /\ AloneInv /\ [Next]_vars => AloneInv'
  BY NextAlone
<1>6. QED
  BY <1>1, <1>2, <1>3, <1>4, <1>5, Invariance, PTL DEF Spec

=============================================================================
