CONSTANTS
  e1 = e1
  p1 = p1
  n1 = n1
  r1 = r1
  r2 = r2
  Null = Null
  Empty = Empty
  Absent = Absent
  Account = {e1, p1}
  PhoneOnly = {p1}
  Number = {n1}
  Request = {r1, r2}
  MaxVersion = 3
SPECIFICATION FairSpec
INVARIANTS
  TypeOK
  MirrorSettles
PROPERTIES
  VerificationKept
  EmailUsersAreProvisioned
CHECK_DEADLOCK FALSE
