CONSTANTS
  Null = Null
  Order = {o1}
  Request = {r1, r2}
  Listener = {n1}
  Provider = {"STRIPE", "PAYPAL", "PAWAPAY", "MANUAL"}
  Moves = {"ON_THE_WAY"}
  MaxFaults = 1
SPECIFICATION FairSpec
INVARIANTS
  TypeOK
  BooksMatchProvider
  ChargedOnce
  AutoCancelJustified
  FailedIsBeingCancelled
  SucceededIsBeingLinked
PROPERTIES
  CapturedIsNoticed
  DeclinedOrdersAreCancelled
CHECK_DEADLOCK FALSE
