CONSTANTS
  r1 = r1
  r2 = r2
  NoRoom = NoRoom
  NoName = NoName
  Rooms = {r1, r2}
  Names = {"plan"}
  Requests <- NewRequest
  Window = 2
  Future = 0
  Grace = 1
  Skew = 1
  Backoff = 2
  MaxTime = 5
  MaxAsks = 1
  MaxAborts = 1
SPECIFICATION FairSpec
CHECK_DEADLOCK FALSE
PROPERTIES
  DecidedInTheEnd
  NameIsForgotten
