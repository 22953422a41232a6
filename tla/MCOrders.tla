------------------------------ MODULE MCOrders ------------------------------
(***************************************************************************)
(* Instances of Orders for TLC.  Two listings of two sellers, so that a    *)
(* cart with lines of both is possible; every quantity is at most 2.       *)
(***************************************************************************)
EXTENDS OrdersRefinement, TLC

CONSTANTS l1, l2, s1, s2, usd, cdf

MCSellerOf == l1 :> s1 @@ l2 :> s2

MCInitialListing ==
  [l \in ListingId |-> [qty |-> IF l = l1 THEN 2 ELSE 1, status |-> "PUBLISHED",
                        currency |-> usd, deleted |-> FALSE]]

\* One line, of one unit or of two; two lines of two sellers (the race of two addItem calls on an
\* empty cart), and a line left without a seller (addItem beside removeItem).
MCCartContents ==
  {[seller |-> s1, currency |-> usd, items |-> l1 :> 1 @@ l2 :> 0],
   [seller |-> s1, currency |-> usd, items |-> l1 :> 2 @@ l2 :> 0],
   [seller |-> s1, currency |-> usd, items |-> l1 :> 1 @@ l2 :> 1],
   [seller |-> Null, currency |-> Null, items |-> l1 :> 0 @@ l2 :> 1]}

\* Requests and order ids are interchangeable, and every property checked is one of safety.
MCSymmetry == Permutations(Request) \cup Permutations(OrderId)

=============================================================================
