--------------------------------- MODULE Cart ---------------------------------
(***************************************************************************)
(* The cart of one user: src/src/modules/cart/cart.service.ts, and the     *)
(* clearing of the cart by createFromCart of orders.service.ts.            *)
(*                                                                         *)
(* addItem, removeItem and replace run in transactions at READ COMMITTED.  *)
(* A request is split at its reads and where a write waits for a row; what *)
(* it writes becomes visible when it commits.  The listing is read before  *)
(* the transaction begins.                                                 *)
(***************************************************************************)
EXTENDS Integers

CONSTANTS
  Listing, Seller, Currency,
  Request,          \* requests of the user that may be in flight at once
  SellerOf,         \* the seller of each listing; never updated by the code
  InitialCurrency,  \* the currency of each listing in the initial state
  Quantity,         \* what a request may ask for
  MaxLines,         \* bound on the number of lines ever created
  MaxQuantity,      \* bound on the quantity of a line
  Null

ASSUME CartAssumption ==
  /\ SellerOf \in [Listing -> Seller]
  /\ InitialCurrency \in [Listing -> Currency]
  /\ Quantity \subseteq Nat \ {0}
  /\ MaxLines \in Nat /\ MaxQuantity \in Nat
  /\ Null \notin Listing \cup Seller \cup Currency \cup Request
  /\ Null \notin [seller : Seller \cup {Null}, currency : Currency \cup {Null}]

VARIABLES
  currency,  \* the currency of each listing, as its seller edits it
  row,       \* the cart row: its sellerId and currency, or Null
  line,      \* the cart_items row of each listing; id 0 where there is none
  rowLock,   \* which request has written the cart row and not committed
  lineLock,  \* which request has deleted a line and not committed
  pc, op,    \* what each request is in the middle of
  lastId,    \* the ids of lines so far
  crossed    \* history: a request changed the cart while another had read it and not committed

request == <<pc, op>>
vars == <<currency, row, line, rowLock, lineLock, request, lastId, crossed>>

\* A line, with (as history) the currency its first quantity was added in.
Line == [id : Nat, quantity : Nat, currency : Currency \cup {Null}]
NoLine == [id |-> 0, quantity |-> 0, currency |-> Null]
EmptyRow == [seller |-> Null, currency |-> Null]
NoOp == [listing |-> Null, quantity |-> 0, currency |-> Null, id |-> 0, existing |-> FALSE]

Present == {l \in Listing : line[l].id # 0}

TypeOK ==
  /\ currency \in [Listing -> Currency]
  /\ row \in [seller : Seller \cup {Null}, currency : Currency \cup {Null}] \cup {Null}
  /\ line \in [Listing -> Line]
  /\ rowLock \in Request \cup {Null}
  /\ lineLock \in [Listing -> Request \cup {Null}]
  /\ pc \in [Request -> {"idle", "add", "upsert", "commitAdd", "replace", "delete", "insert",
                         "clear", "remove", "count", "release", "update"}]
  /\ op \in [Request -> [listing : Listing \cup {Null}, quantity : Nat, id : Nat,
                         currency : Currency \cup {Null}, existing : BOOLEAN]]
  /\ lastId \in Nat
  /\ crossed \in BOOLEAN

Init ==
  /\ currency = InitialCurrency
  /\ row = Null
  /\ line = [l \in Listing |-> NoLine]
  /\ rowLock = Null
  /\ lineLock = [l \in Listing |-> Null]
  /\ pc = [r \in Request |-> "idle"]
  /\ op = [r \in Request |-> NoOp]
  /\ lastId = 0
  /\ crossed = FALSE

-----------------------------------------------------------------------------

Begin(r, step, o) ==
  /\ pc[r] = "idle"
  /\ pc' = [pc EXCEPT ![r] = step]
  /\ op' = [op EXCEPT ![r] = o]
  /\ UNCHANGED crossed

Goto(r, step) == pc' = [pc EXCEPT ![r] = step] /\ UNCHANGED <<op, crossed>>

\* Request r ends, by commit or rollback: its row locks are released.
End(r) ==
  /\ pc' = [pc EXCEPT ![r] = "idle"]
  /\ op' = [op EXCEPT ![r] = NoOp]
  /\ rowLock' = IF rowLock = r THEN Null ELSE rowLock
  /\ lineLock' = [l \in Listing |-> IF lineLock[l] = r THEN Null ELSE lineLock[l]]

\* Request r ends and leaves the cart as it is.
GiveUp(r) == End(r) /\ UNCHANGED crossed

\* The steps of a request that has read the cart row or its lines and not yet committed.
HasRead == {"upsert", "commitAdd", "insert", "clear", "count", "release"}

\* Request r commits a change of the cart.
CommitChange(r) ==
  /\ End(r)
  /\ crossed' = (crossed \/ \E other \in Request \ {r} : pc[other] \in HasRead)

\* The transaction throws, is chosen as a deadlock victim or dies with the process.
Abort(r) ==
  /\ pc[r] # "idle"
  /\ GiveUp(r)
  /\ UNCHANGED <<currency, row, line, lastId>>

\* The lines that stay when request r commits its deletions.
Remaining(r) == [l \in Listing |-> IF lineLock[l] = r THEN NoLine ELSE line[l]]

NewLine(o) == [id |-> lastId + 1, quantity |-> o.quantity, currency |-> o.currency]

\* loadCartWithItems: the first read creates an empty cart.
OpenCart ==
  /\ row = Null /\ rowLock = Null
  /\ row' = EmptyRow
  /\ UNCHANGED <<currency, line, rowLock, lineLock, request, lastId, crossed>>

\* requirePurchasableListing, for addItem and replace.
ReadListing(r, l, n, kind) ==
  /\ kind \in {"add", "replace"}
  /\ Begin(r, kind, [NoOp EXCEPT !.listing = l, !.quantity = n, !.currency = currency[l]])
  /\ UNCHANGED <<currency, row, line, rowLock, lineLock, lastId>>

-----------------------------------------------------------------------------
(* addItem.                                                                *)

\* Mutant: a cart of another seller is no reason to refuse.
AcceptsAnySeller(o) == row = Null \/ row.currency \in {Null, o.currency}

\* The single-seller check and the currency check.
Accepts(o) ==
  row = Null \/ ( /\ row.seller \in {Null, SellerOf[o.listing]}
                  /\ row.currency \in {Null, o.currency} )

\* tx.cart.findUnique, without a lock: the add is refused or goes on.
ReadCartToAdd(r) ==
  /\ pc[r] = "add"
  /\ IF Accepts(op[r])
     THEN /\ pc' = [pc EXCEPT ![r] = "upsert"]
          /\ op' = [op EXCEPT ![r].existing = row # Null]
          /\ UNCHANGED <<rowLock, lineLock, crossed>>
     ELSE GiveUp(r)
  /\ UNCHANGED <<currency, row, line, lastId>>

\* cart.update, or cart.create, which fails when there is a cart by now.
WriteCart(r) ==
  /\ pc[r] = "upsert" /\ rowLock = Null
  /\ IF op[r].existing \/ row = Null
     THEN rowLock' = r /\ Goto(r, "commitAdd") /\ UNCHANGED lineLock
     ELSE GiveUp(r)
  /\ UNCHANGED <<currency, row, line, lastId>>

\* cartItem.upsert, which waits for a deletion of the line, and the commit.
CommitAdd(r) ==
  LET o == op[r]
      old == line[o.listing]
  IN /\ pc[r] = "commitAdd" /\ lineLock[o.listing] = Null
     /\ row' = [seller |-> SellerOf[o.listing], currency |-> o.currency]
     /\ IF old.id = 0
        THEN /\ lastId < MaxLines
             /\ line' = [line EXCEPT ![o.listing] = NewLine(o)]
             /\ lastId' = lastId + 1
        ELSE /\ old.quantity + o.quantity <= MaxQuantity
             /\ line' = [line EXCEPT ![o.listing].quantity = @ + o.quantity]
             /\ UNCHANGED lastId
     /\ CommitChange(r)
     /\ UNCHANGED currency

-----------------------------------------------------------------------------
(* replace, and the clearing of the cart by a checkout.                    *)

ReadCartToReplace(r) ==
  /\ pc[r] = "replace"
  /\ op' = [op EXCEPT ![r].existing = row # Null]
  /\ pc' = [pc EXCEPT ![r] = IF row # Null THEN "delete" ELSE "insert"]
  /\ UNCHANGED <<currency, row, line, rowLock, lineLock, lastId, crossed>>

\* A checkout that has read the cart arrives at its deleteMany.
StartClear(r) ==
  /\ Present # {}
  /\ Begin(r, "delete", NoOp)
  /\ UNCHANGED <<currency, row, line, rowLock, lineLock, lastId>>

\* cartItem.deleteMany deletes the lines that are committed by now.
DeleteLines(r) ==
  /\ pc[r] = "delete"
  /\ \A l \in Present : lineLock[l] = Null
  /\ lineLock' = [l \in Listing |-> IF l \in Present THEN r ELSE lineLock[l]]
  /\ Goto(r, IF op[r].listing = Null THEN "clear" ELSE "insert")
  /\ UNCHANGED <<currency, row, line, rowLock, lastId>>

\* cart.update (or cart.create) and cartItem.create, which fail when the cart,
\* or a line of the listing, has been created by another request meanwhile.
CommitReplace(r) ==
  LET o == op[r] IN
  /\ pc[r] = "insert" /\ rowLock = Null
  /\ IF (o.existing \/ row = Null) /\ Remaining(r)[o.listing] = NoLine
     THEN /\ lastId < MaxLines
          /\ row' = [seller |-> SellerOf[o.listing], currency |-> o.currency]
          /\ line' = [Remaining(r) EXCEPT ![o.listing] = NewLine(o)]
          /\ lastId' = lastId + 1
          /\ CommitChange(r)
     ELSE GiveUp(r) /\ UNCHANGED <<row, line, lastId>>
  /\ UNCHANGED currency

CommitClear(r) ==
  /\ pc[r] = "clear" /\ rowLock = Null
  /\ row' = EmptyRow
  /\ line' = Remaining(r)
  /\ CommitChange(r)
  /\ UNCHANGED <<currency, lastId>>

-----------------------------------------------------------------------------
(* removeItem and updateItem, which name a line by its id.                 *)

FindLine(r, l, n, kind) ==
  /\ kind \in {"remove", "update"} /\ l \in Present
  /\ Begin(r, kind, [NoOp EXCEPT !.listing = l, !.quantity = n, !.id = line[l].id])
  /\ UNCHANGED <<currency, row, line, rowLock, lineLock, lastId>>

\* Mutant: the quantity asked for is taken off the line's instead of replacing it.
UpdateLineByDifference(r) ==
  LET l == op[r].listing IN
  /\ pc[r] = "update" /\ lineLock[l] = Null
  /\ line' = [line EXCEPT ![l].quantity = @ - op[r].quantity]
  /\ GiveUp(r)
  /\ UNCHANGED <<currency, row, lastId>>

\* cartItem.update, which fails when the line is gone.
UpdateLine(r) ==
  LET l == op[r].listing IN
  /\ pc[r] = "update" /\ lineLock[l] = Null
  /\ line' = IF line[l].id = op[r].id
             THEN [line EXCEPT ![l].quantity = op[r].quantity]
             ELSE line
  /\ GiveUp(r)
  /\ UNCHANGED <<currency, row, lastId>>

\* cartItem.delete, which fails when the line is gone.
DeleteLine(r) ==
  LET l == op[r].listing IN
  /\ pc[r] = "remove" /\ lineLock[l] = Null
  /\ IF line[l].id = op[r].id
     THEN /\ lineLock' = [lineLock EXCEPT ![l] = r]
          /\ Goto(r, "count")
          /\ UNCHANGED rowLock
     ELSE GiveUp(r)
  /\ UNCHANGED <<currency, row, line, lastId>>

\* cartItem.count: with lines left (those another request is deleting are
\* still counted) the transaction commits.
CountLines(r) ==
  /\ pc[r] = "count"
  /\ IF Present # {op[r].listing}
     THEN line' = Remaining(r) /\ CommitChange(r)
     ELSE Goto(r, "release") /\ UNCHANGED <<line, rowLock, lineLock>>
  /\ UNCHANGED <<currency, row, lastId>>

\* cart.update sets seller and currency to NULL, and the transaction commits.
ReleaseCart(r) ==
  /\ pc[r] = "release" /\ rowLock = Null
  /\ row' = EmptyRow
  /\ line' = Remaining(r)
  /\ CommitChange(r)
  /\ UNCHANGED <<currency, lastId>>

-----------------------------------------------------------------------------

\* A seller's edit of a listing.
ChangeCurrency(l, c) ==
  /\ currency[l] # c
  /\ currency' = [currency EXCEPT ![l] = c]
  /\ UNCHANGED <<row, line, rowLock, lineLock, request, lastId, crossed>>

Next ==
  \/ OpenCart
  \/ \E r \in Request, l \in Listing, n \in Quantity :
       \/ \E kind \in {"add", "replace"} : ReadListing(r, l, n, kind)
       \/ \E kind \in {"remove", "update"} : FindLine(r, l, n, kind)
  \/ \E r \in Request :
       \/ ReadCartToAdd(r) \/ WriteCart(r) \/ CommitAdd(r)
       \/ ReadCartToReplace(r) \/ StartClear(r) \/ DeleteLines(r)
       \/ CommitReplace(r) \/ CommitClear(r)
       \/ UpdateLine(r) \/ DeleteLine(r) \/ CountLines(r) \/ ReleaseCart(r)
       \/ Abort(r)
  \/ \E l \in Listing, c \in Currency : ChangeCurrency(l, c)

Spec == Init /\ [][Next]_vars

-----------------------------------------------------------------------------
(* Properties.                                                             *)

\* Every line belongs to the seller the cart is locked to and was added in its currency,
\* although sellers edit currencies meanwhile, and a cart without lines is locked to no
\* seller, so that any listing can be added next.  Requests may overlap, wait for each
\* other's rows and fail: only a change committed between the moment another request has
\* read the cart (cart.service.ts:43, :105, :128) and its own commit can break that.
LinesMatchCart ==
  ~crossed =>
    IF Present = {}
    THEN row \in {Null, EmptyRow}
    ELSE \A l \in Present : row = [seller |-> SellerOf[l], currency |-> line[l].currency]

\* "A cart contains items from exactly one seller at a time" (docs/api-reference.md:1148-1149).
OneSellerPerCart == \A l, k \in Present : SellerOf[l] = SellerOf[k]

=============================================================================
