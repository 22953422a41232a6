CONSTANTS
  Null = Null
  Order = {o1}
  Request = {r1, r2}
  Listener = {n1}
  Provider = {"PAWAPAY"}
  Moves = {}
  MaxFaults = 0
SPECIFICATION FairSpec
PROPERTIES
  ReportedFailureCancels
CHECK_DEADLOCK FALSE
