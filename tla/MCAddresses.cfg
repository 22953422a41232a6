CONSTANTS
  Null = Null
  Address = {a1, a2, a3, a4}
  Request = {r1, r2, r3}
SYMMETRY RequestsAndAddresses
SPECIFICATION Spec
INVARIANTS
  TypeOK
  AtMostOneDefault
PROPERTIES
  DefaultIsNotLost
CHECK_DEADLOCK FALSE
