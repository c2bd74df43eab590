---------------------------- MODULE MCRoomCreation ----------------------------
EXTENDS RoomCreation, TLC

CONSTANTS r1, r2

NewRequest == {[legacy |-> NoRoom, expiry |-> 0, issuedAt |-> 1]}
\* Of the time before deadlines, with an identifier that says otherwise.
OldRequest == {[legacy |-> r, expiry |-> 1, issuedAt |-> 1] : r \in Rooms}
AnyRequest == NewRequest \cup OldRequest

Fresh == Permutations({r1, r2})   \* random identifiers
=============================================================================
