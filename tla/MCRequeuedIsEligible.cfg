CONSTANTS
  MaxUploads = 3
  MaxFaults = 2
SPECIFICATION StorageSpec
INVARIANT RequeuedIsEligible
CHECK_DEADLOCK FALSE
