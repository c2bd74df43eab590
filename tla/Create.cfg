CONSTANTS
  r1 = r1
  r2 = r2
  NoRoom = NoRoom
  NoName = NoName
  Rooms = {r1, r2}
  Names = {"plan", "party"}
  Requests <- AnyRequest
  Window = 2
  Future = 0
  Grace = 1
  Skew = 1
  Backoff = 1
  MaxTime = 5
  MaxAsks = 2
  MaxAborts = 1
SPECIFICATION Spec
SYMMETRY Fresh
CHECK_DEADLOCK FALSE
INVARIANTS
  TypeOK
  FoundRoomsExist
PROPERTIES
  FoundRoomsAreKept
  PromiseSpec
