\* Connections break, with a message still on its way, people leave, leases and
\* receipts run out; whatever lapses is taken back by the alarm alone.
CONSTANTS
    u1 = u1  u2 = u2  c1 = c1  c1b = c1b  c2 = c2  o1 = o1  o2 = o2  o3 = o3
    None = None
    Users = {u1, u2}
    Conns = {c1, c1b, c2}
    User <- ThreeConns
    Notes <- TwoNotes
    Author <- ByTurns
    Ops = {o1}
    Selections <- OneByOne
    MaxPlace = 1
    MaxGroup = 1
    Agenda <- Sharing
    OnMap = FALSE
    InitPlace <- Apart
    InitShared <- AllShared
    InitGroups <- NoGroups
    Outside <- Late
    MaxOutside = 2
SPECIFICATION FairSpec
CHECK_DEADLOCK FALSE
PROPERTIES LapsedHoldsEnd IdentifiersAreUsedOnce
