CONSTANTS
  attic = attic
  barn = barn
  cellar = cellar
  ann = ann
  bob = bob
  cy = cy
  p1 = p1
  o1 = o1
  o2 = o2
  NoOp = NoOp
  Rooms = {attic, barn}
  People = {ann, bob, cy}
  Users = {ann}
  Ops = {o1, o2, p1}
  Owner <- MCOwner
  Titles = {"plan"}
  Gens = {0, 1, 2, 3, 4}
  Capacity = 2
  LeaseTime = 1
  MaxTime = 2
  MaxAborts = 2
  MaxEvents = 1
  Placements <- TwoRooms
SPECIFICATION Spec
SYMMETRY AnyOp
CHECK_DEADLOCK FALSE
PROPERTY
  JoinIsExclusive
