------------------------------- MODULE MCAccounts -------------------------------
(* An account with an email and one without, two requests in flight.          *)
EXTENDS Accounts, TLC

CONSTANTS e1, p1, n1, r1, r2

=============================================================================
