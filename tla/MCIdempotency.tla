---------------------------- MODULE MCIdempotency ----------------------------
(***************************************************************************)
(* Idempotency for TLC: two users who happen to choose the same key for    *)
(* the same route, and three requests in flight.                           *)
(***************************************************************************)
EXTENDS Idempotency

=============================================================================
