CONSTANTS
  Null = Null
  Photo = {p1, p2, p3}
  Existing = {p1}
  Request = {r1, r2}
  MaxRequests = 3
  Job = {j1, j2}
  Variant = {sm, lg}
  MaxPhotos = 2
  MaxAttempts = 2
  MaxStalls = 1
SPECIFICATION FairSpec
INVARIANTS
  TypeOK
  PhotosAsIntended
  AtMostMaxPhotos
  ReadyHasFiles
PROPERTIES
  CommittedIsProcessed
CHECK_DEADLOCK FALSE
