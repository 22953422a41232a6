----------------------------- MODULE MCPayments -----------------------------
(***************************************************************************)
(* Payments for TLC.  Payments of different orders share nothing, so one   *)
(* order is enough; the interesting cases are requests that overlap.       *)
(***************************************************************************)
EXTENDS Payments

=============================================================================
