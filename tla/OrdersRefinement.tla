--------------------------- MODULE OrdersRefinement ---------------------------
(***************************************************************************)
(* The tables that Orders works on, read as an OrderLedger.                *)
(***************************************************************************)
EXTENDS Orders

Ledger == INSTANCE OrderLedger WITH
  InitialStock <- [l \in ListingId |-> InitialListing[l].qty],
  stock <- [l \in ListingId |-> listing[l].qty],
  onSale <- [l \in ListingId |-> ~listing[l].deleted],
  state <- status,
  units <- [o \in OrderId |-> placed[o].items]

\* However many requests overlap, an order on which no two of them overlapped is placed,
\* moved and cancelled as the ledger does, each unit taken and put back once; and of the
\* others only the status may be overwritten and the return repeated: no stock is lost or
\* doubled by the interleaving of checkouts, cancellations and sellers' writes.
ImplementsLedger == Ledger!LedgerSpec

=============================================================================
