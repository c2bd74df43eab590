----------------------------- MODULE RoomLedger -----------------------------
(***************************************************************************)
(* The participation ledger of RoomDO (workers/room/room-do.ts): who is a  *)
(* member, which seats are taken or held, and which participation          *)
(* operation spoke last for a person.  Each action is one RPC or one       *)
(* socket message; RoomDO runs it without an await between its first read  *)
(* and its last write, so it is one step here.                             *)
(*                                                                         *)
(* The RPCs take their arguments from whoever calls them.  LedgerNext lets *)
(* every call arrive at any time with any arguments, late, repeated or     *)
(* never: what holds here is what a room promises on its own.  Module      *)
(* Participation makes the calls AccountDO really makes.                   *)
(***************************************************************************)
EXTENDS Naturals, FiniteSets

CONSTANTS
  Rooms,        \* rooms, one RoomDO each
  People,       \* user ids
  Ops,          \* participation operation ids
  Owner,        \* Owner[o]: the user whose browser issued operation o
  NoOp,         \* no operation: an absent row, or the "cancel:..." marker
  Titles,       \* what room_name may say; only "is it still the same" matters
  Gens,         \* generations a call may carry
  Capacity,     \* 20 in the source: one display colour each
  LeaseTime,    \* PARTICIPATION_RESERVATION_MS
  MaxTime,      \* bound on the clock
  Placements    \* who may be where when the model starts

ASSUME OwnerAssumption == Owner \in [Ops -> People] /\ NoOp \notin Ops
ASSUME GensAssumption == Gens \subseteq Nat
ASSUME NumbersAssumption ==
  Capacity \in Nat /\ LeaseTime \in Nat \ {0} /\ MaxTime \in Nat
ASSUME PlacementsAssumption ==
  /\ Placements \subseteq [Rooms -> SUBSET People]
  /\ \A p \in Placements, r \in Rooms :
       IsFiniteSet(p[r]) /\ Cardinality(p[r]) <= Capacity

VARIABLES
  members,      \* table members
  colors,       \* table member_color_assignments; a leaver keeps its colour
  retained,     \* table retained_outcome_participants
  stage,        \* "open", "completed" (members stay) or "disbanded" (cleared)
  title,        \* shared_outcome_identity.room_name
  fence,        \* table room_participation_fences; gen 0 is no row
  seat,         \* table room_participation_reservations; op NoOp is no row
  receipts,     \* table room_participation_receipts
  now           \* the clock all Durable Objects read (Date.now)

ledgerVars == <<members, colors, retained, stage, title, fence, seat,
                receipts, now>>

-----------------------------------------------------------------------------
\* Rows.

Fence == [gen : Nat, op : Ops \cup {NoOp}, joined : BOOLEAN]
Seat == [op : Ops \cup {NoOp}, gen : Nat, expires : Nat]

NoFence == [gen |-> 0, op |-> NoOp, joined |-> FALSE]
NoSeat == [op |-> NoOp, gen |-> 0, expires |-> 0]

LedgerTypeOK ==
  /\ members \in [Rooms -> SUBSET People]
  /\ colors \in [Rooms -> SUBSET People]
  /\ retained \in [Rooms -> SUBSET People]
  /\ stage \in [Rooms -> {"open", "completed", "disbanded"}]
  /\ title \in [Rooms -> Titles]
  /\ fence \in [Rooms -> [People -> Fence]]
  /\ seat \in [Rooms -> [People -> Seat]]
  /\ receipts \in [Rooms -> SUBSET Ops]
  /\ now \in Nat

LedgerInit ==
  /\ members \in Placements
  /\ colors = members
  /\ retained = [r \in Rooms |-> {}]
  /\ stage = [r \in Rooms |-> "open"]
  /\ \E t \in Titles : title = [r \in Rooms |-> t]
  /\ fence = [r \in Rooms |-> [u \in People |-> NoFence]]
  /\ seat = [r \in Rooms |-> [u \in People |-> NoSeat]]
  /\ receipts = [r \in Rooms |-> {}]
  /\ now = 0

-----------------------------------------------------------------------------
\* Reads.

Joinable(r) == stage[r] = "open"

\* participationPreview: the room counts as a place the user takes part in.
TakesPart(u, r) == u \in members[r] /\ Joinable(r)

Live(row) == row.op # NoOp /\ row.expires > now

\* participationReservationExpiresAt is not null.
HoldsSeat(r, o, g) ==
  LET row == seat[r][Owner[o]] IN row.op = o /\ row.gen = g /\ Live(row)

\* participationAdmission answers "joined".
HasJoined(r, o, g) ==
  fence[r][Owner[o]] = [gen |-> g, op |-> o, joined |-> TRUE]

CanAccept(r, u) ==
  IF ~Joinable(r) THEN "room-closed"
  ELSE IF u \in members[r] \cup colors[r] \/ Cardinality(colors[r]) < Capacity
       THEN "ok" ELSE "room-full"

-----------------------------------------------------------------------------
\* reserveParticipation: hold a seat for LeaseTime and raise the fence.

\* Unexpired reservations of the others that have no colour yet.
Waiting(r, u) ==
  {w \in People \ {u} : Live(seat[r][w]) /\ w \notin colors[r]}

\* Mutant of ReserveReply: seats held by others are not counted.
ReserveReplyIgnoringWaiting(r, o, g) ==
  LET u == Owner[o]
      f == fence[r][u]
  IN IF f.gen > g \/ (f.gen = g /\ f.op # o) THEN "stale"
     ELSE CanAccept(r, u)

ReserveReply(r, o, g) ==
  LET u == Owner[o]
      f == fence[r][u]
  IN IF f.gen > g \/ (f.gen = g /\ f.op # o) THEN "stale"
     ELSE IF CanAccept(r, u) # "ok" THEN CanAccept(r, u)
     ELSE IF u \notin colors[r]
             /\ Cardinality(colors[r]) + Cardinality(Waiting(r, u)) >= Capacity
          THEN "room-full" ELSE "ok"

Reserve(r, o, g) ==
  LET granted == ReserveReply(r, o, g) = "ok"
      u == Owner[o]
  IN /\ seat' = [seat EXCEPT ![r] = [w \in People |->
                   IF granted /\ w = u
                   THEN [op |-> o, gen |-> g, expires |-> now + LeaseTime]
                   ELSE IF Live(seat[r][w]) THEN seat[r][w] ELSE NoSeat]]
     /\ fence' = IF granted /\ fence[r][u].gen < g
                 THEN [fence EXCEPT ![r][u] =
                         [gen |-> g, op |-> o, joined |-> FALSE]]
                 ELSE fence
     /\ UNCHANGED <<members, colors, retained, stage, title, receipts, now>>

-----------------------------------------------------------------------------
\* commitParticipation: turn the held seat into a membership, once.

CommitReply(r, o, g) ==
  LET u == Owner[o]
      f == fence[r][u]
  IN IF f.gen # g \/ f.op # o THEN "stale"
     ELSE IF f.joined THEN "ok"
     ELSE IF seat[r][u].op # o \/ seat[r][u].expires <= now \/ ~Joinable(r)
          THEN "unavailable"
     ELSE IF u \notin colors[r] /\ Cardinality(colors[r]) >= Capacity
          THEN "unavailable" ELSE "ok"

Joins(r, o, g) ==
  CommitReply(r, o, g) = "ok" /\ ~fence[r][Owner[o]].joined

\* upsertMember, the joined mark and the release of the reservation.
Enter(r, u) ==
  /\ members' = [members EXCEPT ![r] = @ \cup {u}]
  /\ colors' = [colors EXCEPT ![r] = @ \cup {u}]
  /\ retained' = [retained EXCEPT ![r] = @ \ {u}]
  /\ fence' = [fence EXCEPT ![r][u].joined = TRUE]
  /\ seat' = [seat EXCEPT ![r][u] = NoSeat]
  /\ UNCHANGED <<stage, title, receipts, now>>

Commit(r, o, g) ==
  \/ Joins(r, o, g) /\ Enter(r, Owner[o])
  \/ ~Joins(r, o, g) /\ UNCHANGED ledgerVars

-----------------------------------------------------------------------------
\* Leaving.  The last member to go closes the room in the same step.

\* leaveMember followed by closeRoom when nobody is left; keep says whether
\* the leaver stays a viewer of the outcome.
TakeOut(r, u, keep) ==
  LET rest == members[r] \ {u}
      emptied == Joinable(r) /\ rest = {}
      viewers == IF keep /\ Joinable(r) THEN retained[r] \cup {u}
                 ELSE retained[r] \ {u}
  IN /\ members' = [members EXCEPT ![r] = rest]
     /\ retained' = [retained EXCEPT ![r] = IF emptied THEN {} ELSE viewers]
     /\ colors' = IF emptied THEN [colors EXCEPT ![r] = {}] ELSE colors
     /\ stage' = IF emptied THEN [stage EXCEPT ![r] = "disbanded"] ELSE stage

\* leaveForParticipation: leave as a step of operation o, whose destination
\* seat was held until lease when the caller looked.
LeaveReply(r, o, g, lease, expected) ==
  LET u == Owner[o]
  IN IF o \in receipts[r] THEN "left"
     ELSE IF fence[r][u].gen > g THEN "changed"
     ELSE IF now >= lease THEN "reservation-expired"
     ELSE IF ~TakesPart(u, r) \/ title[r] # expected THEN "changed"
     ELSE "left"

Exits(r, o, g, lease, expected) ==
  LeaveReply(r, o, g, lease, expected) = "left" /\ o \notin receipts[r]

\* leaveMember with the receipt, in one transaction.
Exit(r, o) ==
  /\ TakeOut(r, Owner[o], TRUE)
  /\ receipts' = [receipts EXCEPT ![r] = @ \cup {o}]
  /\ UNCHANGED <<title, fence, seat, now>>

Leave(r, o, g, lease, expected) ==
  \/ Exits(r, o, g, lease, expected) /\ Exit(r, o)
  \/ ~Exits(r, o, g, lease, expected) /\ UNCHANGED ledgerVars

\* Mutant of Cancel: the fence is written one generation low.
CancelBackwards(r, o, g) ==
  LET u == Owner[o]
  IN /\ seat' = IF seat[r][u].op = o
                THEN [seat EXCEPT ![r][u] = NoSeat] ELSE seat
     /\ fence' = IF fence[r][u].gen <= g
                 THEN [fence EXCEPT ![r][u] =
                         [gen |-> g - 1, op |-> NoOp, joined |-> FALSE]]
                 ELSE fence
     /\ UNCHANGED <<members, colors, retained, stage, title, receipts, now>>

\* cancelParticipation: give the seat back and fence off what o still has
\* under way.
Cancel(r, o, g) ==
  LET u == Owner[o]
  IN /\ seat' = IF seat[r][u].op = o
                THEN [seat EXCEPT ![r][u] = NoSeat] ELSE seat
     /\ fence' = IF fence[r][u].gen <= g
                 THEN [fence EXCEPT ![r][u] =
                         [gen |-> g + 1, op |-> NoOp, joined |-> FALSE]]
                 ELSE fence
     /\ UNCHANGED <<members, colors, retained, stage, title, receipts, now>>

-----------------------------------------------------------------------------
\* What happens to a room outside participation operations.

\* POST /api/rooms/:id/leave goes to the room without AccountDO.
LeaveDirect(r, u) ==
  /\ u \in members[r]
  /\ TakeOut(r, u, TRUE)
  /\ UNCHANGED <<title, fence, seat, receipts, now>>

\* member:remove from another member.
RemoveMember(r, u) ==
  /\ TakesPart(u, r)
  /\ members[r] # {u}
  /\ TakeOut(r, u, FALSE)
  /\ UNCHANGED <<title, fence, seat, receipts, now>>

\* closeRoom after a day without a connection, or by disband.
Disband(r) ==
  /\ Joinable(r)
  /\ stage' = [stage EXCEPT ![r] = "disbanded"]
  /\ members' = [members EXCEPT ![r] = {}]
  /\ colors' = [colors EXCEPT ![r] = {}]
  /\ retained' = [retained EXCEPT ![r] = {}]
  /\ UNCHANGED <<title, fence, seat, receipts, now>>

\* The outcome is published: closed to participation, members keep their rows.
Complete(r) ==
  /\ Joinable(r)
  /\ members[r] # {}
  /\ stage' = [stage EXCEPT ![r] = "completed"]
  /\ UNCHANGED <<members, colors, retained, title, fence, seat, receipts, now>>

Rename(r) ==
  /\ Joinable(r)
  /\ \E t \in Titles \ {title[r]} : title' = [title EXCEPT ![r] = t]
  /\ UNCHANGED <<members, colors, retained, stage, fence, seat, receipts, now>>

Tick ==
  /\ now < MaxTime
  /\ now' = now + 1
  /\ UNCHANGED <<members, colors, retained, stage, title, fence, seat, receipts>>

Surroundings ==
  \/ \E r \in Rooms, u \in People : LeaveDirect(r, u) \/ RemoveMember(r, u)
  \/ \E r \in Rooms : Disband(r) \/ Complete(r) \/ Rename(r)
  \/ Tick

-----------------------------------------------------------------------------
Leases == 0 .. (MaxTime + LeaseTime)

Calls ==
  \E r \in Rooms, o \in Ops, g \in Gens :
     \/ Reserve(r, o, g)
     \/ Commit(r, o, g)
     \/ \E lease \in Leases, t \in Titles : Leave(r, o, g, lease, t)
     \/ Cancel(r, o, g)

LedgerNext == Calls \/ Surroundings

LedgerSpec == LedgerInit /\ [][LedgerNext]_ledgerVars

-----------------------------------------------------------------------------
\* What a room promises whatever is called.

\* Colours given out and seats held together never exceed the capacity, so
\* an unexpired reservation is a seat: two people racing for the last one
\* cannot both be promised it (room-do.ts, reserveParticipation).
SeatsWithinCapacity ==
  \A r \in Rooms :
    Cardinality(colors[r] \cup {u \in People : Live(seat[r][u])}) <= Capacity

\* A fence never goes back, and while its generation stays it neither
\* changes hands nor forgets that its operation joined, so no late call of an
\* older operation is taken up again (room-do.ts, the three fence writes).
FenceNeverGoesBack ==
  [][\A r \in Rooms, u \in People :
       LET old == fence[r][u]
           new == fence'[r][u]
       IN \/ new.gen > old.gen
          \/ new.gen = old.gen /\ new.op = old.op /\ (old.joined => new.joined)
    ]_ledgerVars

=============================================================================
