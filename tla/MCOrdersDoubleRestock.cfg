CONSTANTS
  l1 = l1
  l2 = l2
  s1 = s1
  s2 = s2
  usd = usd
  cdf = cdf
  Null = Null
  ListingId = {l1, l2}
  OrderId = {o1, o2}
  Buyer = {b1}
  Seller = {s1, s2}
  Currency = {usd}
  Request = {r1, r2}
  SellerOf <- MCSellerOf
  InitialListing <- MCInitialListing
  Quantity = {1}
  CartContents <- MCCartContents
  MaxFills = 1
SPECIFICATION Spec
INVARIANT ReturnedAtMostSold
CHECK_DEADLOCK FALSE
