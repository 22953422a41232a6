CONSTANTS
  l1 = l1
  l2 = l2
  l3 = l3
  l4 = l4
  s1 = s1
  s2 = s2
  services = services
  others = others
  Null = Null
  Listing = {l1, l2, l3, l4}
  CategoryOf <- MCCategoryOf
  SellerOf <- MCSellerOf
  DistanceOf <- MCDistanceOf
  RadiusOf <- MCRadiusOf
  FirstDate <- MCFirstDate
  FirstPrice <- MCFirstPrice
  Services = services
  Ending = {l1}
  Price = {1, 2}
  Km = {1, 3}
  Limit = 1
  MaxOffset = 2
  MaxChanges = 2
SPECIFICATION FairSpec
INVARIANTS
  TypeOK
  PagedOnce
  RailsAgreeWithSearch
PROPERTIES
  PagingEnds
CHECK_DEADLOCK FALSE
