CONSTANTS
  MaxRevisions = 2
  MaxRequests = 2
  MaxReopenings = 1
  Pollers = {w1}
  None = None
SPECIFICATION Spec
INVARIANTS
  AcceptedIsInCatalog
PROPERTIES
  GraceIsHonoured
  NoUnaskedRevival
CHECK_DEADLOCK FALSE
