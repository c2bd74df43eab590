\* Two people move three notes in the grouping step and take moves back,
\* while a peer moves, names and renames, and the phase goes on and back.
CONSTANTS
    u1 = u1  u2 = u2  c1 = c1  c1b = c1b  c2 = c2  o1 = o1  o2 = o2  o3 = o3
    None = None
    Users = {u1, u2}
    Conns = {c1, c2}
    User <- TwoConns
    Notes <- ThreeNotes
    Author <- ByTurns
    Ops = {o1, o2, o3}
    Selections <- FirstOrLast
    MaxPlace = 2
    MaxGroup = 2
    Agenda <- Regrouping
    OnMap = FALSE
    InitPlace <- Together
    InitShared <- AllShared
    InitGroups <- OneGroup
    Outside <- Changing
    MaxOutside = 2
SPECIFICATION Spec
SYMMETRY SameOps
CHECK_DEADLOCK FALSE
INVARIANTS TypeOK
PROPERTIES UndoIsExact UndoTakesNothing
