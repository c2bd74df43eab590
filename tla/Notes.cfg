CONSTANTS
  Blank = Blank
  NoDraft = NoDraft
  NoFlight = NoFlight
  Texts = {Blank, "a"}
  MaxInputs = 2
  MaxOutside = 3
  MaxQueue = 1
SPECIFICATION FairSpec
CHECK_DEADLOCK FALSE
INVARIANTS
  TypeOK
PROPERTIES
  NoUnseenOverwrite
  NothingTypedIsLost
  DraftsSettle
