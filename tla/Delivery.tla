-------------------------------- MODULE Delivery --------------------------------
(***************************************************************************)
(* One order and the people who may carry it:                              *)
(* src/src/modules/deliverers/deliverers.service.ts, with transition and   *)
(* cancel of src/src/modules/orders/orders.service.ts as far as they read  *)
(* or write the order's status.                                            *)
(*                                                                         *)
(* Every operation reads the order or the deliverer, checks, and writes in *)
(* a later statement that repeats no check.  A person stands for the user, *)
(* who has at most one deliverers row (userId is unique).  The position    *)
(* and the ETA guard nothing and are left out.                             *)
(***************************************************************************)
EXTENDS Naturals

CONSTANTS
  Person,   \* users who may become deliverers
  Seller,   \* the order's seller
  Buyer,    \* the order's buyer
  Call,     \* requests that may be in flight at once
  Nobody

ASSUME DeliveryAssumption == Nobody \notin Person \cup {Seller, Buyer} \cup Call

VARIABLES
  profiles,     \* persons with a deliverers row
  available,    \* those whose row has available = TRUE
  fulfillment,  \* the order's fulfillmentType
  order,        \* its status and delivererId
  stage, call,  \* what each request is in the middle of
  mover,        \* history: who moved the order forward last
  stale         \* history: the order was written after what had been read of it changed

calls == <<stage, call>>
history == <<mover, stale>>
deliveryVars == <<profiles, available, fulfillment, order, calls, history>>

OrderStatus == {"PREPARING", "ON_THE_WAY", "DELIVERED", "CANCELLED"}
Order == [status : OrderStatus, deliverer : Person \cup {Nobody}]

\* The forward transitions; REFUNDED is set nowhere and CANCELLED by cancel only.
Forward(status) ==
  CASE status = "PREPARING" -> {"ON_THE_WAY"}
    [] status = "ON_THE_WAY" -> {"DELIVERED"}
    [] OTHER -> {}

NoCall == [actor |-> Nobody, deliverer |-> Nobody, to |-> "CANCELLED", fresh |-> TRUE]

\* The order and the profiles have their types, and an order only names a deliverer who
\* has a profile, whoever asked for the assignment.
DeliveryTypeOK ==
  /\ profiles \subseteq Person /\ available \subseteq profiles
  /\ fulfillment \in {"PICKUP", "DELIVERY"}
  /\ order \in Order /\ order.deliverer \in profiles \cup {Nobody}
  /\ stage \in [Call -> {"idle", "create", "find", "assign", "transition", "cancel"}]
  /\ call \in [Call -> [actor : Person \cup {Seller, Buyer, Nobody}, deliverer : Person \cup {Nobody},
                         to : OrderStatus, fresh : BOOLEAN]]
  /\ mover \in Person \cup {Seller, Nobody}
  /\ stale \in BOOLEAN

DeliveryInit ==
  /\ profiles = {} /\ available = {}
  /\ fulfillment \in {"PICKUP", "DELIVERY"}
  /\ order = [status |-> "PREPARING", deliverer |-> Nobody]
  /\ stage = [r \in Call |-> "idle"] /\ call = [r \in Call |-> NoCall]
  /\ mover = Nobody /\ stale = FALSE

-----------------------------------------------------------------------------

Begin(r, step, o) ==
  /\ stage[r] = "idle"
  /\ stage' = [stage EXCEPT ![r] = step]
  /\ call' = [call EXCEPT ![r] = o]

EndCall(r) ==
  /\ stage' = [stage EXCEPT ![r] = "idle"]
  /\ call' = [call EXCEPT ![r] = NoCall]

\* prisma.order.update where id: the others' reads are out of date, and r ends.
Write(r, o) ==
  /\ order' = o
  /\ stale' = (stale \/ ~call[r].fresh)
  /\ stage' = [stage EXCEPT ![r] = "idle"]
  /\ call' = [other \in Call |->
       IF other = r THEN NoCall
       ELSE [call[other] EXCEPT !.fresh = stage[other] \in {"idle", "create"}]]

\* A request throws or dies with its process.
Fail(r) ==
  /\ stage[r] # "idle"
  /\ EndCall(r)
  /\ UNCHANGED <<profiles, available, fulfillment, order, history>>

-----------------------------------------------------------------------------
(* The deliverers themselves.                                              *)

\* createByAdmin: the user has no profile yet, at this read.
CreateByAdmin(r, d) ==
  /\ d \notin profiles
  /\ Begin(r, "create", [NoCall EXCEPT !.deliverer = d])
  /\ UNCHANGED <<profiles, available, fulfillment, order, history>>

\* The INSERT, not yet available; it fails if another admin was faster.
CreateProfile(r) ==
  /\ stage[r] = "create"
  /\ profiles' = profiles \cup {call[r].deliverer}
  /\ EndCall(r)
  /\ UNCHANGED <<available, fulfillment, order, history>>

\* setMyAvailable: profiles are never removed, so the read before makes no difference.
SetMyAvailable(d, value) ==
  /\ d \in profiles
  /\ available' = IF value THEN available \cup {d} ELSE available \ {d}
  /\ UNCHANGED <<profiles, fulfillment, order, calls, history>>

-----------------------------------------------------------------------------
(* assignToOrder.                                                          *)

\* The statuses in which a deliverer may be assigned.
Assignable(status) == status = "PREPARING"

AssignToOrder(r, d) ==
  /\ fulfillment = "DELIVERY" /\ Assignable(order.status)
  /\ Begin(r, "find", [NoCall EXCEPT !.deliverer = d])
  /\ UNCHANGED <<profiles, available, fulfillment, order, history>>

\* Mutant: the deliverer is not looked up.
FindAnybody(r) ==
  /\ stage[r] = "find"
  /\ stage' = [stage EXCEPT ![r] = "assign"] /\ UNCHANGED call
  /\ UNCHANGED <<profiles, available, fulfillment, order, history>>

\* repo.findById, and the pickup point: not found ends the request.
FindDeliverer(r) ==
  /\ stage[r] = "find"
  /\ IF call[r].deliverer \in profiles
     THEN stage' = [stage EXCEPT ![r] = "assign"] /\ UNCHANGED call
     ELSE EndCall(r)
  /\ UNCHANGED <<profiles, available, fulfillment, order, history>>

Assign(r) ==
  /\ stage[r] = "assign"
  /\ Write(r, [order EXCEPT !.deliverer = call[r].deliverer])
  /\ UNCHANGED <<profiles, available, fulfillment, mover>>

-----------------------------------------------------------------------------
(* The order moves.                                                        *)

\* Mutant: any deliverer may move an order.
AnyDeliverer(p) == p = Seller \/ p \in profiles

\* requireSellerOrAssignedDelivererOf
MayMove(p) == p = Seller \/ (p = order.deliverer /\ p \in profiles)

\* transition: the order is read and the move checked.
Transition(r, p, to) ==
  /\ MayMove(p) /\ to \in Forward(order.status)
  /\ Begin(r, "transition", [NoCall EXCEPT !.actor = p, !.to = to])
  /\ UNCHANGED <<profiles, available, fulfillment, order, history>>

Move(r) ==
  /\ stage[r] = "transition"
  /\ Write(r, [order EXCEPT !.status = call[r].to])
  /\ mover' = call[r].actor
  /\ UNCHANGED <<profiles, available, fulfillment>>

\* cancel: the seller until the order is delivered, the buyer while PREPARING.
Cancel(r, p) ==
  /\ \/ p = Seller /\ order.status \in {"PREPARING", "ON_THE_WAY"}
     \/ p = Buyer /\ order.status = "PREPARING"
  /\ Begin(r, "cancel", [NoCall EXCEPT !.actor = p])
  /\ UNCHANGED <<profiles, available, fulfillment, order, history>>

CancelOrder(r) ==
  /\ stage[r] = "cancel"
  /\ Write(r, [order EXCEPT !.status = "CANCELLED"])
  /\ UNCHANGED <<profiles, available, fulfillment, mover>>

DelivererStep == \E d \in Person, value \in BOOLEAN : SetMyAvailable(d, value)

AdminStep == \E r \in Call, d \in Person : CreateByAdmin(r, d) \/ AssignToOrder(r, d)

OrderStep ==
  \E r \in Call :
     \/ \E p \in Person \cup {Seller}, to \in OrderStatus : Transition(r, p, to)
     \/ \E p \in {Seller, Buyer} : Cancel(r, p)

\* What a request that has started does next.
Continue(r) ==
  CreateProfile(r) \/ FindDeliverer(r) \/ Assign(r) \/ Move(r) \/ CancelOrder(r) \/ Fail(r)

DeliveryNext == DelivererStep \/ AdminStep \/ OrderStep \/ \E r \in Call : Continue(r)

DeliverySpec == DeliveryInit /\ [][DeliveryNext]_deliveryVars

-----------------------------------------------------------------------------
(* Properties.                                                             *)

\* The deliverer an order names is the one who carries it: once somebody other than
\* the seller has moved it, it is still his, unless a request wrote after the order had
\* changed under it (deliverers.service.ts:126 and orders.service.ts:317 write by id).
CarrierIsAssigned == stale \/ mover \in {Nobody, Seller, order.deliverer}

=============================================================================
