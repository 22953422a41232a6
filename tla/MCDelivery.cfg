CONSTANTS
  Nobody = Nobody
  Seller = Seller
  Buyer = Buyer
  Person = {p1, p2}
  Call = {r1, r2, r3}
SYMMETRY PersonsAndCalls
SPECIFICATION DeliverySpec
INVARIANTS
  DeliveryTypeOK
  CarrierIsAssigned
CHECK_DEADLOCK FALSE
