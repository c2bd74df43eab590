---------------------------- MODULE CreationPromise ----------------------------
(***************************************************************************)
(* What a request to create a room promises the person who sends it: it is *)
(* decided once, for one room or for none; "ready" names the room it was   *)
(* decided for, and after a refusal no room turns up until the person asks *)
(* again.  RoomCreation implements it.                                     *)
(***************************************************************************)
CONSTANTS Rooms

VARIABLES
  verdict,   \* "open", "closed", or the room that came of it
  answer     \* what the person was told last: "none", "refused", or a room

TypeOK == /\ verdict \in {"open", "closed"} \cup Rooms
          /\ answer \in {"none", "refused"} \cup Rooms

Init == verdict \in {"open"} \cup Rooms /\ answer = "none"

Open ==
  /\ verdict = "open" /\ answer # "refused"
  /\ verdict' \in Rooms
  /\ UNCHANGED answer

Close ==
  /\ verdict = "open"
  /\ verdict' = "closed"
  /\ UNCHANGED answer

Accept ==
  /\ verdict \in Rooms /\ answer = "none"
  /\ answer' = verdict
  /\ UNCHANGED verdict

Refuse ==
  /\ answer = "none"
  /\ answer' = "refused"
  /\ UNCHANGED verdict

AskAgain ==
  /\ answer # "none"
  /\ answer' = "none"
  /\ UNCHANGED verdict

Next == Open \/ Close \/ Accept \/ Refuse \/ AskAgain

Spec == Init /\ [][Next]_<<verdict, answer>>
=============================================================================
