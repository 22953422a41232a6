-------------------------------- MODULE MCCart --------------------------------
(***************************************************************************)
(* Cart for TLC: two listings of one seller and one of another, and two    *)
(* requests of one user at a time.                                         *)
(***************************************************************************)
EXTENDS Cart, TLC

CONSTANTS l1, l2, l3, s1, s2, cdf, usd

MCSellerOf == [l \in Listing |-> IF l = l3 THEN s2 ELSE s1]
MCInitialCurrency == [l \in Listing |-> cdf]

\* Nothing tells two requests, or two listings of one seller, apart.
RequestsAndListings == Permutations(Request) \cup Permutations({l1, l2})

=============================================================================
