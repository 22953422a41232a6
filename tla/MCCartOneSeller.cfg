CONSTANTS
  l1 = l1
  l2 = l2
  l3 = l3
  s1 = s1
  s2 = s2
  cdf = cdf
  usd = usd
  Null = Null
  Listing = {l1, l2, l3}
  Seller = {s1, s2}
  Currency = {cdf, usd}
  Request = {r1, r2}
  SellerOf <- MCSellerOf
  InitialCurrency <- MCInitialCurrency
  Quantity = {1}
  MaxLines = 2
  MaxQuantity = 2
SYMMETRY RequestsAndListings
SPECIFICATION Spec
INVARIANT OneSellerPerCart
CHECK_DEADLOCK FALSE
