CONSTANTS
  attic = attic
  barn = barn
  cellar = cellar
  ann = ann
  bob = bob
  cy = cy
  p1 = p1
  o1 = o1
  o2 = o2
  NoOp = NoOp
  Rooms = {attic, barn, cellar}
  People = {ann, bob, cy}
  Users = {ann}
  Ops = {o1, p1}
  Owner <- MCOwner
  Titles = {"plan"}
  Gens = {0, 1, 2}
  Capacity = 2
  LeaseTime = 1
  MaxTime = 1
  MaxAborts = 1
  MaxEvents = 1
  Placements <- ThreeRooms
SPECIFICATION FairSpec
CHECK_DEADLOCK FALSE
INVARIANTS
  GrantIsExclusive
  SeatsWithinCapacity
PROPERTIES
  JoinIsExclusive
  LedgerSpec
  EveryMoveEnds
