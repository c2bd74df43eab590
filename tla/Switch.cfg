CONSTANTS
  attic = attic
  barn = barn
  cellar = cellar
  ann = ann
  bob = bob
  cy = cy
  p1 = p1
  o1 = o1
  o2 = o2
  NoOp = NoOp
  Rooms = {attic, barn}
  People <- MCPeople
  Users = {ann}
  Ops <- MCOps
  Owner <- MCOwner
  Titles = {"plan"}
  Gens = {0, 1, 2, 3, 4}
  Capacity = 2
  LeaseTime = 1
  MaxTime = 1
  MaxAborts = 2
  MaxEvents = 1
  Placements <- TwoRooms
SPECIFICATION Spec
SYMMETRY AnyOp
CHECK_DEADLOCK FALSE
INVARIANTS
  TypeOK
  ResultIsTrue
  IndexCoversRooms
PROPERTIES
  LeaveHoldsSeat
