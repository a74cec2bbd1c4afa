CONSTANTS
  MaxRevisions = 2
  MaxRequests = 1
  MaxReopenings = 1
  Pollers = {w1}
  None = None
SPECIFICATION FairSpec
PROPERTIES
  OverIsNoticed
CHECK_DEADLOCK FALSE
