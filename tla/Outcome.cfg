SPECIFICATION FairSpec
CONSTANTS
  Records = {1, 2}
  MaxUses = 3
  MaxVisits = 1
  MaxErrors = 1
  MaxCrashes = 1
INVARIANTS TypeOK AcknowledgedIsThere
PROPERTIES ProjectedInTheEnd ErasedInTheEnd
CHECK_DEADLOCK FALSE
