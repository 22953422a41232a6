------------------------------ MODULE MCDiscovery -------------------------------
(* Four listings of two sellers: one a draft, one a service that is out of the  *)
(* reach of its category but within the global radius.                         *)
EXTENDS Discovery

CONSTANTS l1, l2, l3, l4, s1, s2, services, others

MCCategoryOf == l1 :> others @@ l2 :> services @@ l3 :> services @@ l4 :> others
MCSellerOf == l1 :> s1 @@ l2 :> s1 @@ l3 :> s2 @@ l4 :> s2
MCDistanceOf == l1 :> 1 @@ l2 :> 1 @@ l3 :> 2 @@ l4 :> 2
MCRadiusOf == services :> 1 @@ others :> 3
MCFirstDate == l1 :> 1 @@ l2 :> 2 @@ l3 :> 3 @@ l4 :> 0
MCFirstPrice == l1 :> 1 @@ l2 :> 2 @@ l3 :> 2 @@ l4 :> 1

=============================================================================
