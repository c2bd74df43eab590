\* Two people, each with one connection, move two notes on the map, while older
\* clients drag, notes are shared and hidden, the map is resized, leases lapse
\* and connections are lost.
CONSTANTS
    u1 = u1  u2 = u2  c1 = c1  c1b = c1b  c2 = c2  o1 = o1  o2 = o2  o3 = o3
    None = None
    Users = {u1, u2}
    Conns = {c1, c2}
    User <- TwoConns
    Notes <- TwoNotes
    Author <- ByTurns
    Ops = {o1, o2}
    Selections <- OneOrBoth
    MaxPlace = 1
    MaxGroup = 1
    Agenda <- MapPhase
    OnMap = TRUE
    InitPlace <- Apart
    InitShared <- AllShared
    InitGroups <- NoGroups
    Outside <- OnTheMap
    MaxOutside = 2
SPECIFICATION Spec
SYMMETRY SameOps
CHECK_DEADLOCK FALSE
INVARIANTS LocksMatchOperations
PROPERTIES CommitsFromWhereSeen MapStandsStill HoldingSpec
