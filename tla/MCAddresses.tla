------------------------------ MODULE MCAddresses ------------------------------
(***************************************************************************)
(* Addresses for TLC: four addresses ever, three requests at a time.       *)
(***************************************************************************)
EXTENDS Addresses, TLC

RequestsAndAddresses == Permutations(Request) \cup Permutations(Address)

=============================================================================
