------------------------------- MODULE MCDelivery -------------------------------
(***************************************************************************)
(* Delivery for TLC: two persons who may become deliverers, three calls at  *)
(* a time, and as many calls in all as there may be.                        *)
(***************************************************************************)
EXTENDS Delivery, TLC

PersonsAndCalls == Permutations(Person) \cup Permutations(Call)

=============================================================================
