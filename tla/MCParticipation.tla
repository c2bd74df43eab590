--------------------------- MODULE MCParticipation ---------------------------
(* The rooms the runs start from: two rooms that somebody else keeps open,  *)
(* and an account in two rooms that goes to the last seat of a third, which *)
(* a stranger may want as well.                                             *)
EXTENDS Participation, TLC

CONSTANTS attic, barn, cellar, ann, bob, cy, o1, o2, p1

MCPeople == {ann, bob}
MCOps == {o1, o2}
AnyOp == Permutations(MCOps)   \* both are ann's
MCOwner == [o \in Ops |-> IF o = p1 THEN cy ELSE ann]

Both == {ann, bob}
TwoRooms == {[r \in {attic, barn} |-> IF r = attic THEN Both ELSE {bob}]}
ThreeRooms ==
  {[r \in {attic, barn, cellar} |-> IF r = cellar THEN {bob} ELSE Both]}
=============================================================================
