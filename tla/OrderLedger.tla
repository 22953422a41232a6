----------------------------- MODULE OrderLedger -----------------------------
(***************************************************************************)
(* What the orders module promises its users: orders are placed, moved     *)
(* forward and cancelled in one indivisible step each, placing takes the   *)
(* ordered units out of stock, and cancelling puts them back, once.        *)
(* (docs/api-reference.md, "Status machine" and "Cancellation restocks the *)
(* listings"; docs/v1-roadmap.md, "enforced server-side, allowed           *)
(* transitions only".)  Orders implements LedgerSpec: the promise, but for *)
(* the orders on which two requests have overlapped.                       *)
(***************************************************************************)
EXTENDS Integers

CONSTANTS ListingId, OrderId, InitialStock

VARIABLES
  stock,    \* units on sale of each listing
  onSale,   \* FALSE once a listing has been deleted
  state,    \* where each order is in its life
  units,    \* the units of each listing an order is for
  contested \* orders that two requests were about to move or cancel at the same time

ledger == <<stock, onSale, state, units>>

Lives == {"ABSENT", "PREPARING", "ON_THE_WAY", "DELIVERED", "CANCELLED"}

TablesInit ==
  /\ stock = InitialStock
  /\ onSale \in [ListingId -> BOOLEAN]
  /\ state = [o \in OrderId |-> "ABSENT"]
  /\ units = [o \in OrderId |-> [l \in ListingId |-> 0]]

\* An order is placed for units that are all there, and takes them.
Place(o) ==
  /\ state[o] = "ABSENT"
  /\ \E l \in ListingId : units'[o][l] > 0
  /\ units' = [units EXCEPT ![o] = units'[o]]
  /\ \A l \in ListingId : units'[o][l] \in 0 .. stock[l] /\ (units'[o][l] > 0 => onSale[l])
  /\ stock' = [l \in ListingId |-> stock[l] - units'[o][l]]
  /\ state' = [state EXCEPT ![o] = "PREPARING"]
  /\ UNCHANGED onSale

Advance(o) ==
  /\ \/ state[o] = "PREPARING" /\ state' = [state EXCEPT ![o] = "ON_THE_WAY"]
     \/ state[o] = "ON_THE_WAY" /\ state' = [state EXCEPT ![o] = "DELIVERED"]
  /\ UNCHANGED <<stock, onSale, units>>

\* Returning an order puts back every unit of a listing that still exists.
Return(o) ==
  /\ state[o] # "ABSENT"
  /\ state' = [state EXCEPT ![o] = "CANCELLED"]
  /\ stock' = [l \in ListingId |-> IF onSale[l] THEN stock[l] + units[o][l] ELSE stock[l]]
  /\ UNCHANGED <<onSale, units>>

CancelAndRestock(o) == state[o] \in {"PREPARING", "ON_THE_WAY"} /\ Return(o)

\* The seller restates a listing's stock, or withdraws the listing for good.
Restate(l) ==
  /\ stock'[l] \in Nat
  /\ stock' = [stock EXCEPT ![l] = stock'[l]]
  /\ UNCHANGED <<onSale, state, units>>
Withdraw(l) ==
  /\ onSale[l]
  /\ onSale' = [onSale EXCEPT ![l] = FALSE]
  /\ UNCHANGED <<stock, state, units>>

PromisedNext ==
  \/ \E o \in OrderId : Place(o) \/ Advance(o) \/ CancelAndRestock(o)
  \/ \E l \in ListingId : Restate(l) \/ Withdraw(l)

-----------------------------------------------------------------------------
(* What is left of the promise when requests overlap: all of it, but for   *)
(* the orders that two requests were about to move or cancel at the same   *)
(* time.  Such an order is still placed and returned in one step, for      *)
(* units that are all there; but the status it is moved from is the one an *)
(* earlier read saw.                                                       *)

\* A forward move may come late, after a cancellation too, but an order that
\* has not been dispatched is never delivered.
Overwrite(o) ==
  /\ state[o] # "ABSENT"
  /\ \/ state' = [state EXCEPT ![o] = "ON_THE_WAY"]
     \/ state[o] # "PREPARING" /\ state' = [state EXCEPT ![o] = "DELIVERED"]
  /\ UNCHANGED <<stock, onSale, units>>

LedgerInit == TablesInit /\ contested = {}

LedgerNext ==
  /\ contested \subseteq contested'
  /\ \/ PromisedNext
     \/ \E o \in contested : Overwrite(o) \/ Return(o)
     \/ UNCHANGED ledger

LedgerSpec == LedgerInit /\ [][LedgerNext]_<<ledger, contested>>

=============================================================================
