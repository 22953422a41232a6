------------------------------- MODULE Orders -------------------------------
(***************************************************************************)
(* Order placement, fulfilment and cancellation over shared inventory:     *)
(* src/src/modules/orders/orders.service.ts, with the listing rows it      *)
(* locks (src/src/modules/listings) and the cart it consumes.              *)
(*                                                                         *)
(* Every HTTP request is one element of Request.  A request is split where *)
(* the code lets another request in: after a read that a later write       *)
(* relies on, and at every row lock it may have to wait for.  A            *)
(* transaction's writes become visible in the one action that commits it.  *)
(* All transactions run at READ COMMITTED; plain reads take no lock.       *)
(***************************************************************************)
EXTENDS Integers, Functions

CONSTANTS
  ListingId, OrderId, Buyer, Seller, Currency,
  Request,        \* requests that may be in flight at the same time
  SellerOf,       \* the seller of each listing; never updated by the code
  InitialListing, \* the row of each listing in the initial state
  Quantity,       \* what a seller may write to quantityAvailable
  CartContents,   \* what the cart endpoints may leave in a cart
  MaxFills,       \* bound on the number of times one cart is edited
  Null            \* the SQL NULL, and "no request holds the lock"

ListingStatus == {"DRAFT", "PUBLISHED", "SOLD_OUT", "ARCHIVED"}
OrderStatus == {"PREPARING", "ON_THE_WAY", "DELIVERED", "CANCELLED", "REFUNDED"}
Absent == "ABSENT"          \* the order row has not been inserted
Actor == {"buyer", "seller", "system"}

Row == [qty : Int, status : ListingStatus, currency : Currency, deleted : BOOLEAN]
Basket == [buyer : Buyer \cup {Null}, seller : Seller \cup {Null},
           currency : Currency \cup {Null}, items : [ListingId -> Nat], fill : Nat]

ASSUME OrdersAssumption ==
  /\ SellerOf \in [ListingId -> Seller]
  /\ InitialListing \in [ListingId -> Row]
  /\ \A l \in ListingId : InitialListing[l].qty \in Nat
  /\ Quantity \subseteq Nat
  /\ CartContents \subseteq [seller : Seller \cup {Null},
                             currency : Currency \cup {Null},
                             items : [ListingId -> Nat]]
  /\ MaxFills \in Nat
  /\ Null \notin Request \cup Buyer \cup Seller \cup Currency \cup Row

VARIABLES
  listing,   \* the listings table
  cart,      \* each buyer's cart row with its items; fill counts its edits
  status,    \* the status column of each order
  placed,    \* what each order was created from; never updated
  lock,      \* which request holds the row lock of a listing
  pc,        \* what each request is in the middle of
  basket,    \* the cart (or the order's items) the request has read
  target,    \* the order or the listing the request is about
  goal,      \* the status a request is about to write, or who cancels
  seen,      \* the listing rows as SELECT ... FOR UPDATE returned them
  supplied,  \* history: units each listing's seller has put on sale
  sold,      \* history: units of each listing in committed orders
  returned,  \* history: units of each listing put back by cancellations
  restocks,  \* history: how many cancellations of each order have committed
  contested, \* history: orders two requests were about to move or cancel at the same time
  doubled    \* history: fillings of a cart, <<buyer, fill>>, two checkouts read at the same time

history == <<supplied, sold, returned, restocks, contested, doubled>>
request == <<pc, basket, target, goal, seen>>
vars == <<listing, cart, status, placed, lock, request, history>>

-----------------------------------------------------------------------------

NoItems == [l \in ListingId |-> 0]
NothingSeen == [l \in ListingId |-> Null]
NoBasket == [buyer |-> Null, seller |-> Null, currency |-> Null,
             items |-> NoItems, fill |-> 0]

\* Mutant: the checked-out cart keeps its lines.
NotEmptied(c) == c

\* Clearing a cart: its lines are deleted, seller and currency set to NULL.
Emptied(c) == [c EXCEPT !.seller = Null, !.currency = Null, !.items = NoItems]

\* The listings a basket has a line for.
Lines(b) == {l \in ListingId : b.items[l] > 0}

\* ALLOWED_TRANSITIONS of orders.service.ts and of listings.service.ts.
OrderTransitions ==
  [PREPARING |-> {"ON_THE_WAY", "CANCELLED"}, ON_THE_WAY |-> {"DELIVERED", "CANCELLED"},
   DELIVERED |-> {"REFUNDED"}, CANCELLED |-> {}, REFUNDED |-> {}]
ListingTransitions ==
  [DRAFT |-> {"PUBLISHED", "ARCHIVED"}, PUBLISHED |-> {"SOLD_OUT", "ARCHIVED", "DRAFT"},
   SOLD_OUT |-> {"PUBLISHED", "ARCHIVED"}, ARCHIVED |-> {"DRAFT"}]

TypeOK ==
  /\ listing \in [ListingId -> Row]
  /\ cart \in [Buyer -> Basket]
  /\ status \in [OrderId -> OrderStatus \cup {Absent}]
  /\ placed \in [OrderId -> Basket]
  /\ lock \in [ListingId -> Request \cup {Null}]
  /\ pc \in [Request -> {"idle", "checkout", "cancel", "transition", "setStatus"}]
  /\ basket \in [Request -> Basket]
  /\ target \in [Request -> OrderId \cup ListingId \cup {Null}]
  /\ goal \in [Request -> OrderStatus \cup ListingStatus \cup Actor \cup {Null}]
  /\ seen \in [Request -> [ListingId -> Row \cup {Null}]]
  /\ supplied \in [ListingId -> Int]
  /\ sold \in [ListingId -> Int]
  /\ returned \in [ListingId -> Int]
  /\ restocks \in [OrderId -> Nat]
  /\ contested \subseteq OrderId
  /\ doubled \subseteq Buyer \X Nat

Init ==
  /\ listing = InitialListing
  /\ cart = [b \in Buyer |-> [NoBasket EXCEPT !.buyer = b]]
  /\ status = [o \in OrderId |-> Absent]
  /\ placed = [o \in OrderId |-> NoBasket]
  /\ lock = [l \in ListingId |-> Null]
  /\ pc = [r \in Request |-> "idle"]
  /\ basket = [r \in Request |-> NoBasket]
  /\ target = [r \in Request |-> Null]
  /\ goal = [r \in Request |-> Null]
  /\ seen = [r \in Request |-> NothingSeen]
  /\ supplied = [l \in ListingId |-> InitialListing[l].qty]
  /\ sold = NoItems
  /\ returned = NoItems
  /\ restocks = [o \in OrderId |-> 0]
  /\ contested = {} /\ doubled = {}

-----------------------------------------------------------------------------
(* Requests and the row locks of their transactions.                       *)

\* Request r starts: it has read what it needs and now remembers it.
Begin(r, step, b, subject, aim) ==
  /\ pc[r] = "idle"
  /\ pc' = [pc EXCEPT ![r] = step]
  /\ basket' = [basket EXCEPT ![r] = b]
  /\ target' = [target EXCEPT ![r] = subject]
  /\ goal' = [goal EXCEPT ![r] = aim]
  /\ UNCHANGED seen

\* Request r ends; commit and rollback both release every lock it holds.
End(r) ==
  /\ pc' = [pc EXCEPT ![r] = "idle"]
  /\ basket' = [basket EXCEPT ![r] = NoBasket]
  /\ target' = [target EXCEPT ![r] = Null]
  /\ goal' = [goal EXCEPT ![r] = Null]
  /\ seen' = [seen EXCEPT ![r] = NothingSeen]
  /\ lock' = [l \in ListingId |-> IF lock[l] = r THEN Null ELSE lock[l]]

\* Request r is between its check of the status of order o and its write.
Moves(r, o) == pc[r] \in {"transition", "cancel"} /\ target[r] = o

\* A request about order o begins: o is contested if another one is under way.
Contest(o) ==
  /\ contested' = IF \E r \in Request : Moves(r, o) THEN contested \cup {o} ELSE contested
  /\ UNCHANGED <<supplied, sold, returned, restocks, doubled>>

\* A checkout of a filling begins: it is doubled if another checkout of it is under way.
Double(filling) ==
  /\ doubled' = IF \E r \in Request :
                      pc[r] = "checkout" /\ <<basket[r].buyer, basket[r].fill>> = filling
                THEN doubled \cup {filling} ELSE doubled
  /\ UNCHANGED <<supplied, sold, returned, restocks, contested>>

\* Mutant: the rows are read without FOR UPDATE, so nobody waits for anybody.
ReadListingUnlocked(r, l) ==
  /\ pc[r] \in {"checkout", "cancel"}
  /\ l \in Lines(basket[r])
  /\ seen[r][l] = Null
  /\ pc[r] = "cancel" => ~listing[l].deleted
  /\ seen' = [seen EXCEPT ![r][l] = listing[l]]
  /\ UNCHANGED <<listing, cart, status, placed, lock, pc, basket, target, goal, history>>

\* One row lock of a transaction: SELECT ... FOR UPDATE in createFromCart, in
\* whatever order Postgres visits the rows; UPDATE listings ... WHERE
\* "deletedAt" IS NULL in cancelInternal, which skips deleted rows.  The row
\* returned is the one current when the lock is granted.
LockListing(r, l) ==
  /\ pc[r] \in {"checkout", "cancel"}
  /\ l \in Lines(basket[r])
  /\ pc[r] = "cancel" => ~listing[l].deleted
  /\ lock[l] = Null
  /\ lock' = [lock EXCEPT ![l] = r]
  /\ seen' = [seen EXCEPT ![r][l] = listing[l]]
  /\ UNCHANGED <<listing, cart, status, placed, pc, basket, target, goal, history>>

\* The transaction of r has visited every row it is going to write.
Granted(r) ==
  \A l \in Lines(basket[r]) :
     seen[r][l] # Null \/ (pc[r] = "cancel" /\ listing[l].deleted)

\* The request ends without writing anything: Prisma's transaction timeout,
\* a deadlock victim chosen by Postgres, or the process dying.
Abort(r) ==
  /\ pc[r] # "idle"
  /\ End(r)
  /\ UNCHANGED <<listing, cart, status, placed, history>>

-----------------------------------------------------------------------------
(* The buyer: cart edits and checkout.                                     *)

\* The cart endpoints, as far as an order can tell: some content, possibly
\* one that their races produce (lines of two sellers, lines without seller).
EditCart(b) ==
  /\ cart[b].fill < MaxFills
  /\ \E c \in CartContents :
       cart' = [cart EXCEPT ![b] = [buyer |-> b, seller |-> c.seller, currency |-> c.currency,
                                    items |-> c.items, fill |-> cart[b].fill + 1]]
  /\ UNCHANGED <<listing, status, placed, lock, request, history>>

\* createFromCart up to the lock: the cart is read without one.
StartCheckout(r, b) ==
  /\ Lines(cart[b]) # {}
  /\ cart[b].seller # Null /\ cart[b].currency # Null
  /\ Begin(r, "checkout", cart[b], Null, Null)
  /\ Double(<<b, cart[b].fill>>)
  /\ UNCHANGED <<listing, cart, status, placed, lock>>

\* Mutant: the seller of a locked row is not compared with the cart's.
AcceptableAnySeller(r) ==
  \A l \in Lines(basket[r]) :
     LET row == seen[r][l] IN
     /\ ~row.deleted
     /\ row.status = "PUBLISHED"
     /\ row.qty >= basket[r].items[l]
     /\ row.currency = basket[r].currency

\* Mutant: an off-by-one lets a line take one unit more than there is.
AcceptableOneShort(r) ==
  \A l \in Lines(basket[r]) :
     LET row == seen[r][l] IN
     /\ ~row.deleted
     /\ row.status = "PUBLISHED"
     /\ SellerOf[l] = basket[r].seller
     /\ row.qty + 1 >= basket[r].items[l]
     /\ row.currency = basket[r].currency

\* The loop over cart.items: every line passes every check on its locked row.
Acceptable(r) ==
  \A l \in Lines(basket[r]) :
     LET row == seen[r][l] IN
     /\ ~row.deleted
     /\ row.status = "PUBLISHED"
     /\ SellerOf[l] = basket[r].seller
     /\ row.qty >= basket[r].items[l]
     /\ row.currency = basket[r].currency

\* A line fails: the transaction throws and is rolled back.
RejectCheckout(r) ==
  /\ pc[r] = "checkout" /\ Granted(r) /\ ~Acceptable(r)
  /\ End(r)
  /\ UNCHANGED <<listing, cart, status, placed, history>>

\* Mutant: an order status is written to a listing.
AfterSaleWrongStatus(row, readRow, quantity) ==
  LET newQty == readRow.qty - quantity IN
  [row EXCEPT !.qty = newQty, !.status = IF newQty = 0 THEN "DELIVERED" ELSE readRow.status]

\* UPDATE listings SET "quantityAvailable" = newQty: an absolute write,
\* computed from the row that was returned with the lock.
AfterSale(row, readRow, quantity) ==
  LET newQty == readRow.qty - quantity IN
  [row EXCEPT !.qty = newQty, !.status = IF newQty = 0 THEN "SOLD_OUT" ELSE readRow.status]

\* Every line passes: stock is taken, the order inserted, the cart emptied.
CommitCheckout(r, o) ==
  /\ pc[r] = "checkout" /\ Granted(r) /\ Acceptable(r)
  /\ status[o] = Absent
  /\ LET b == basket[r] IN
     /\ listing' = [l \in ListingId |->
           IF l \in Lines(b) THEN AfterSale(listing[l], seen[r][l], b.items[l]) ELSE listing[l]]
     /\ sold' = [l \in ListingId |-> sold[l] + b.items[l]]
     /\ status' = [status EXCEPT ![o] = "PREPARING"]
     /\ placed' = [placed EXCEPT ![o] = b]
     /\ cart' = [cart EXCEPT ![b.buyer] = Emptied(cart[b.buyer])]
  /\ End(r)
  /\ UNCHANGED <<supplied, returned, restocks, contested, doubled>>

-----------------------------------------------------------------------------
(* The order after its creation: forward transitions and cancellation.     *)

\* Mutant: the transition table is not consulted.
StartAnyTransition(r, o, to) ==
  /\ status[o] # Absent
  /\ Begin(r, "transition", NoBasket, o, to)
  /\ Contest(o)
  /\ UNCHANGED <<listing, cart, status, placed, lock>>

\* transition: the status is read and checked against the table; CANCELLED
\* and REFUNDED are refused as targets.
StartTransition(r, o, to) ==
  /\ status[o] # Absent
  /\ to \in OrderTransitions[status[o]]
  /\ to \notin {"CANCELLED", "REFUNDED"}
  /\ Begin(r, "transition", NoBasket, o, to)
  /\ Contest(o)
  /\ UNCHANGED <<listing, cart, status, placed, lock>>

\* order.update writes the new status whatever the status is by now.
CommitTransition(r) ==
  /\ pc[r] = "transition"
  /\ status' = [status EXCEPT ![target[r]] = goal[r]]
  /\ End(r)
  /\ UNCHANGED <<listing, cart, placed, history>>

\* Mutant: an order that is already cancelled is cancelled again.
StartCancelAgain(r, o, actor) ==
  /\ status[o] \notin {Absent, "REFUNDED", "DELIVERED"}
  /\ actor = "buyer" => status[o] = "PREPARING"
  /\ Begin(r, "cancel", placed[o], o, actor)
  /\ Contest(o)
  /\ UNCHANGED <<listing, cart, status, placed, lock>>

\* cancel (buyer or seller) and cancelBySystem, up to the transaction.
StartCancel(r, o, actor) ==
  /\ status[o] \notin {Absent, "CANCELLED", "REFUNDED", "DELIVERED"}
  /\ actor = "buyer" => status[o] = "PREPARING"
  /\ Begin(r, "cancel", placed[o], o, actor)
  /\ Contest(o)
  /\ UNCHANGED <<listing, cart, status, placed, lock>>

\* Mutant: only the rows that were sold out get their units back.
AfterRestockSoldOutOnly(row, quantity) ==
  IF row.status = "SOLD_OUT"
  THEN [row EXCEPT !.qty = @ + quantity, !.status = "PUBLISHED"]
  ELSE row

\* UPDATE listings SET "quantityAvailable" = "quantityAvailable" + quantity.
AfterRestock(row, quantity) ==
  [row EXCEPT !.qty = @ + quantity,
              !.status = IF @ = "SOLD_OUT" THEN "PUBLISHED" ELSE @]

\* cancelInternal commits; the order's status is not looked at again.
CommitCancel(r) ==
  /\ pc[r] = "cancel" /\ Granted(r)
  /\ LET Restocked == {l \in Lines(basket[r]) : seen[r][l] # Null}
         n == basket[r].items
     IN /\ listing' = [l \in ListingId |->
              IF l \in Restocked THEN AfterRestock(listing[l], n[l]) ELSE listing[l]]
        /\ returned' = [l \in ListingId |->
              IF l \in Restocked THEN returned[l] + n[l] ELSE returned[l]]
  /\ status' = [status EXCEPT ![target[r]] = "CANCELLED"]
  /\ restocks' = [restocks EXCEPT ![target[r]] = @ + 1]
  /\ End(r)
  /\ UNCHANGED <<cart, placed, supplied, sold, contested, doubled>>

-----------------------------------------------------------------------------
(* The seller: edits of a listing.  Each UPDATE waits for the row lock.    *)

\* PATCH /listings/:id, an absolute write of stock and currency.
UpdateListing(l, qty, currency) ==
  /\ lock[l] = Null
  /\ <<qty, currency>> # <<listing[l].qty, listing[l].currency>>
  /\ listing' = [listing EXCEPT ![l].qty = qty, ![l].currency = currency]
  /\ supplied' = [supplied EXCEPT ![l] = @ + qty - listing[l].qty]
  /\ UNCHANGED <<cart, status, placed, lock, request>>
  /\ UNCHANGED <<sold, returned, restocks, contested, doubled>>

SoftDelete(l) ==
  /\ lock[l] = Null
  /\ <<listing[l].deleted, listing[l].status>> # <<TRUE, "ARCHIVED">>
  /\ listing' = [listing EXCEPT ![l].deleted = TRUE, ![l].status = "ARCHIVED"]
  /\ UNCHANGED <<cart, status, placed, lock, request, history>>

\* publish and archive: the status is read and checked against the table ...
StartSetStatus(r, l, next) ==
  /\ next \in ListingTransitions[listing[l].status]
  /\ Begin(r, "setStatus", NoBasket, l, next)
  /\ UNCHANGED <<listing, cart, status, placed, lock, history>>

\* ... and written later, whatever it is by now.
CommitSetStatus(r) ==
  /\ pc[r] = "setStatus"
  /\ lock[target[r]] = Null
  /\ listing' = [listing EXCEPT ![target[r]].status = goal[r]]
  /\ End(r)
  /\ UNCHANGED <<cart, status, placed, history>>

-----------------------------------------------------------------------------

BuyerStep == \E b \in Buyer : EditCart(b) \/ (\E r \in Request : StartCheckout(r, b))

SellerStep ==
  \E l \in ListingId :
     \/ SoftDelete(l)
     \/ \E q \in Quantity, c \in Currency : UpdateListing(l, q, c)
     \/ \E r \in Request, s \in {"PUBLISHED", "ARCHIVED"} : StartSetStatus(r, l, s)

OrderStep ==
  \E r \in Request, o \in OrderId :
     \/ CommitCheckout(r, o)
     \/ \E to \in OrderStatus : StartTransition(r, o, to)
     \/ \E actor \in Actor : StartCancel(r, o, actor)

RequestStep ==
  \E r \in Request :
     \/ \E l \in ListingId : LockListing(r, l)
     \/ RejectCheckout(r)
     \/ CommitTransition(r)
     \/ CommitCancel(r)
     \/ CommitSetStatus(r)
     \/ Abort(r)

Next == BuyerStep \/ SellerStep \/ OrderStep \/ RequestStep

Spec == Init /\ [][Next]_vars

-----------------------------------------------------------------------------
(* Properties.                                                             *)

\* What a request in flight knows: the order it is about exists and has moved
\* past the point the request read, as far as statuses cannot move back.
RequestInv ==
  \A r \in Request :
     /\ pc[r] = "transition" =>
          /\ target[r] \in OrderId /\ status[target[r]] # Absent
          /\ goal[r] \in {"ON_THE_WAY", "DELIVERED"}
          /\ goal[r] = "DELIVERED" => status[target[r]] # "PREPARING"
     /\ pc[r] = "cancel" => target[r] \in OrderId /\ status[target[r]] # Absent
     /\ pc[r] = "setStatus" => target[r] \in ListingId /\ goal[r] \in ListingStatus

\* createFromCart never sells more than there is, whatever runs beside it:
\* the check of line 163 is made on a row that stays locked until the write.
NoOversell == \A l \in ListingId : listing[l].qty >= 0

\* No write of quantityAvailable loses another one: stock is what sellers put
\* in, minus what committed checkouts took, plus what cancellations returned.
\* The newQty of line 178 is an absolute write and depends on the row lock.
StockLedger ==
  \A l \in ListingId : listing[l].qty = supplied[l] - sold[l] + returned[l]

\* A row a transaction has read FOR UPDATE is still the current row, and the
\* transaction holds its lock.
LockedRowsAreCurrent ==
  \A r \in Request, l \in ListingId :
     seen[r][l] # Null => lock[l] = r /\ seen[r][l] = listing[l]

\* Every line of a new order is, in the state the order is committed in, on
\* sale by the order's seller, in the order's currency and in that quantity,
\* although the cart may hold lines of two sellers and sellers edit, archive
\* and delete listings meanwhile.
SoldAsListed ==
  [][\A o \in OrderId : status[o] = Absent /\ status'[o] # Absent =>
       \A l \in Lines(placed'[o]) :
         /\ ~listing[l].deleted /\ listing[l].status = "PUBLISHED"
         /\ SellerOf[l] = placed'[o].seller
         /\ listing[l].currency = placed'[o].currency
         /\ listing[l].qty >= placed'[o].items[l]]_vars

\* Even with stale status checks an order that is PREPARING is dispatched or
\* cancelled next, never delivered directly, and never becomes PREPARING again.
NoSkippedDispatch ==
  [][\A o \in OrderId :
       /\ status[o] = "PREPARING" => status'[o] \in {"PREPARING", "ON_THE_WAY", "CANCELLED"}
       /\ status[o] \notin {Absent, "PREPARING"} => status'[o] \notin {Absent, "PREPARING"}]_vars

\* However requests overlap, an order that no two of them were about to move or cancel at
\* the same time has given back its units exactly once if it is cancelled and never if it is
\* not; and whatever stock came back came with the cancellation of an order, all the units
\* of that order (deleted listings may have missed some).
RestockedOnce ==
  LET CancelledUnits(l) == [o \in OrderId |-> restocks[o] * placed[o].items[l]] IN
  /\ \A o \in OrderId \ contested : restocks[o] = IF status[o] = "CANCELLED" THEN 1 ELSE 0
  /\ \A l \in ListingId :
       /\ returned[l] <= SumFunction(CancelledUnits(l))
       /\ ~listing[l].deleted => returned[l] = SumFunction(CancelledUnits(l))

\* Cancellations never put back more units than checkouts took: cancelling is
\* "Idempotent on already-cancelled orders" (line 376).
ReturnedAtMostSold == \A l \in ListingId : returned[l] <= sold[l]

\* What one filling of the cart was checked out for is in at most one order, whatever edits
\* and other checkouts come between the read of the cart and the transaction that clears it
\* (line 216), unless two checkouts of that very filling were under way at the same time.
OneOrderPerCart ==
  \A o1, o2 \in OrderId :
     /\ o1 # o2 /\ status[o1] # Absent /\ status[o2] # Absent
     /\ placed[o1].buyer = placed[o2].buyer /\ placed[o1].fill = placed[o2].fill
     => <<placed[o1].buyer, placed[o1].fill>> \in doubled

=============================================================================
