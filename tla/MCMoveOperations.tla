--------------------------- MODULE MCMoveOperations ---------------------------
EXTENDS MoveOperations, TLC

CONSTANTS u1, u2, c1, c1b, c2, o1, o2, o3

OwnerOf(cs) == [c \in cs |-> IF c = c2 THEN u2 ELSE u1]

TwoConns == OwnerOf({c1, c2})
ThreeConns == OwnerOf({c1, c1b, c2})

TwoNotes == <<1, 2>>
ThreeNotes == <<1, 2, 3>>
ByTurns == [n \in 1..3 |-> IF n = 2 THEN u2 ELSE u1]

OneOrBoth == {{1}, {1, 2}}
OneByOne == {{1}, {2}}
FirstOrLast == {{1}, {3}}

AllShared == [n \in 1..3 |-> TRUE]
Apart == [n \in 1..3 |-> IF n = 1 THEN 0 ELSE 1]
Together == [n \in 1..3 |-> IF n = 3 THEN 2 ELSE 0]

NoGroups == << >>
OneGroup == <<[id |-> 1, name |-> "named", notes |-> <<1, 2>>]>>

Sharing == <<"share", "decide">>
MapPhase == <<"share", "place">>
Grouping3 == <<"grouping", "vote">>
Regrouping == <<"grouping", "decide">>

OnTheMap == {"lease", "drag", "share", "map", "socket"}
Naming == {"lease", "group", "undo"}
Changing == {"group", "undo", "phase"}
Late == {"lease", "drag", "socket", "phase", "timer", "retention", "leave"}

SameOps == Permutations(Ops)
=============================================================================
