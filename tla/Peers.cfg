\* A peer names the frame between two moves of the same person.
CONSTANTS
    u1 = u1  u2 = u2  c1 = c1  c1b = c1b  c2 = c2  o1 = o1  o2 = o2  o3 = o3
    None = None
    Users = {u1, u2}
    Conns = {c1, c2}
    User <- TwoConns
    Notes <- ThreeNotes
    Author <- ByTurns
    Ops = {o1, o2, o3}
    Selections <- OneByOne
    MaxPlace = 1
    MaxGroup = 2
    Agenda <- Grouping3
    OnMap = FALSE
    InitPlace <- Apart
    InitShared <- AllShared
    InitGroups <- NoGroups
    Outside <- Naming
    MaxOutside = 1
SPECIFICATION Spec
SYMMETRY SameOps
CHECK_DEADLOCK FALSE
PROPERTIES UndoSparesPeers
