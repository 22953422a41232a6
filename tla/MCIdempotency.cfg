CONSTANTS
  Null = Null
  InFlight = InFlight
  Actor = {a1, a2}
  Route = {orders}
  Key = {k1}
  Request = {r1, r2, r3}
  MaxExpiries = 1
SPECIFICATION Spec
INVARIANTS
  TypeOK
  OncePerKey
  OwnAnswers
CHECK_DEADLOCK FALSE
