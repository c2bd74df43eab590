------------------------ MODULE ParticipationResults ------------------------
(***************************************************************************)
(* What the invariant of ParticipationProofs is for: the promises of       *)
(* Participation to the people who move, for any number of rooms, people,  *)
(* seats, operations and dead requests.                                    *)
(*                                                                         *)
(* The first theorems hold whatever the orphaned calls do.  The last ones  *)
(* need LateCallsApart: of no operation are a join and a renewal of its    *)
(* seat orphaned at the same time.  Without it a renewal can revive the    *)
(* seat of an operation that was given up because the room was full, and   *)
(* the join can take it before the cancellation gets to the destination;   *)
(* the user is then in a room no account knows of.  With at most one dead  *)
(* request the condition holds by itself (OneDeadRequest).                 *)
(***************************************************************************)
EXTENDS ParticipationProofs

-----------------------------------------------------------------------------
\* What needs no more than the invariant.

\* The rooms sell no seat twice however the accounts behave (room-do.ts,
\* reserveParticipation and commitParticipation).
THEOREM MovesNeverOversell == Spec => []SeatsWithinCapacity
<1>1. Init => Inv /\ SeatInvariant
  BY SwitchTypeInit, SwitchInit, SeatInit DEF Init, Inv
<1>2. Inv /\ SeatInvariant /\ [Next]_vars => Inv' /\ SeatInvariant'
  <2> SUFFICES ASSUME Inv, SeatInvariant, [Next]_vars
               PROVE  Inv' /\ SeatInvariant'
    OBVIOUS
  <2>1. Inv' /\ LedgerStep
    BY SwitchNext, NextIsLedgerStep DEF Inv, Kept
  <2>2. [AnyStep]_ledgerVars
    BY <2>1, LedgerStepIsAnyStep
  <2>3. QED BY <2>1, <2>2, SeatNext
<1>3. SeatInvariant => SeatsWithinCapacity
  BY SeatInvariantImplies
<1>4. QED BY <1>1, <1>2, <1>3, PTL DEF Spec

\* Everything the accounts do to the rooms is a behaviour of the ledger that
\* RoomLedger specifies; only the generations TLC enumerates are bounded.
THEOREM AccountsUseTheLedger ==
  ASSUME Gens = Nat PROVE Spec => LedgerSpec
<1>1. Init => Inv /\ LedgerInit
  BY SwitchTypeInit, SwitchInit DEF Init, Inv
<1>2. Inv /\ [Next]_vars => Inv' /\ [LedgerNext]_ledgerVars
  <2> SUFFICES ASSUME Inv, [Next]_vars PROVE Inv' /\ [LedgerNext]_ledgerVars
    OBVIOUS
  <2>1. Inv' /\ LedgerStep
    BY SwitchNext, NextIsLedgerStep DEF Inv, Kept
  <2>2. BoundedCalls => Calls
    BY Zenon DEF BoundedCalls, Calls
  <2>3. QED BY <2>1, <2>2 DEF LedgerStep, LedgerNext
<1>3. QED BY <1>1, <1>2, PTL DEF Spec, LedgerSpec

\* A leave that is carried out found the seat at the destination held.
LEMMA LeaveFindsSeat ==
  ASSUME TypeOK, NEW o \in Ops, NEW s, NEW lease \in Nat,
         SeatWaits(o, s, lease), Exits(s[1], o, ops[o].gen, lease, s[2])
  PROVE  HoldsSeat(Target(o), o, ops[o].gen)
<1>1. /\ o \notin receipts[s[1]] /\ ~(fence[s[1]][Owner[o]].gen > ops[o].gen)
      /\ ~(now >= lease) /\ TakesPart(Owner[o], s[1])
  BY DEF Exits, LeaveReply
<1>2. Keeps(seat[Target(o)][Owner[o]], o, lease)
  BY <1>1 DEF SeatWaits, Away, Fenced
<1>3. /\ now \in Nat /\ seat[Target(o)][Owner[o]].expires \in Nat
  BY Rows DEF Seat
<1>4. seat[Target(o)][Owner[o]].expires > now
  BY <1>1, <1>2, <1>3 DEF Keeps
<1>5. o # NoOp
  BY OwnerAssumption
<1>6. QED BY <1>2, <1>4, <1>5 DEF HoldsSeat, Live, Keeps

\* Which operation a call comes from: the request being served, or an orphan.
Serving(o, steps) == run[Owner[o]].op = o /\ run[Owner[o]].step \in steps
Late(o, rpcs) == \E m \in orphans : m.op = o /\ m.rpc \in rpcs
MadeBy(o, rpcs) == Serving(o, rpcs) \/ Late(o, rpcs)

Renewal == {"reserve", "renew"}

MadeReserve(r, o, g) ==
  /\ Reserve(r, o, g)
  /\ UNCHANGED <<gen, active, index>>
  /\ Owner[o] \in Users =>
       g = ops[o].gen /\ g # 0 /\ r = Target(o) /\ MadeBy(o, Renewal)

MadeCommit(r, o, g) ==
  /\ Commit(r, o, g)
  /\ UNCHANGED acctVars
  /\ Owner[o] \in Users =>
       /\ g = ops[o].gen /\ r = Target(o)
       /\ ops[o].phase \in {"joining", "ready"} /\ MadeBy(o, {"join"})

MadeLeave(o, s, lease) ==
  /\ Leave(s[1], o, ops[o].gen, lease, s[2])
  /\ Owner[o] \in Users /\ SeatWaits(o, s, lease)

MadeCancel(r, o) ==
  /\ Cancel(r, o, ops[o].gen)
  /\ UNCHANGED acctVars
  /\ Owner[o] \in Users /\ ops[o].failing

CallMade ==
  \/ \E r \in Rooms, o \in Ops, g \in Nat : MadeReserve(r, o, g)
  \/ \E r \in Rooms, o \in Ops, g \in Nat : MadeCommit(r, o, g)
  \/ \E o \in Ops, s \in Source, lease \in Nat : MadeLeave(o, s, lease)
  \/ \E r \in Rooms, o \in Ops : MadeCancel(r, o)

\* The calls of a request.
LEMMA RequestMakes ==
  ASSUME TypeOK, SwitchInv, NEW u \in Users, NEW o \in Ops, run[u].op = o,
         \/ AskSeat(u) \/ RenewSeat(u) \/ LeaveSource(u)
         \/ JoinDestination(u) \/ CancelNext(u)
  PROVE  CallMade
<1>1. run[u].step \in Writing /\ run[u].step \notin Preparing \cup {"idle"}
  BY DEF AskSeat, RenewSeat, LeaveSource, JoinDestination, CancelNext, Writing,
         Preparing
<1>2. /\ Owner[o] = u /\ RequestOK(u) /\ Unfinished(o) /\ Underway(o)
      /\ run[u] \in Request
      /\ ops[o].failing <=> run[u].step \in {"cancel", "failureScan"}
  BY <1>1, Served
<1>3. /\ Target(o) \in Rooms /\ ops[o].gen \in Nat
      /\ ops[o].history \subseteq Rooms
  BY Rows
<1>4. CASE AskSeat(u) \/ RenewSeat(u)
  <2>1. Reserve(Target(o), o, ops[o].gen) /\ UNCHANGED <<gen, active, index>>
    BY <1>4 DEF AskSeat, RenewSeat, Target, Fail, acctVars
  <2>2. run[u].step \in Renewal
    BY <1>4 DEF AskSeat, RenewSeat, Renewal
  <2>3. ops[o].gen # 0
    BY <1>2, <2>2 DEF RequestOK, Underway, Renewal
  <2>4. MadeReserve(Target(o), o, ops[o].gen)
    BY <1>2, <2>1, <2>2, <2>3 DEF MadeReserve, MadeBy, Serving
  <2>5. QED BY <1>3, <2>4 DEF CallMade
<1>5. CASE JoinDestination(u)
  <2>1. /\ Commit(Target(o), o, ops[o].gen) /\ UNCHANGED acctVars
        /\ run[u].step = "join"
    BY <1>5 DEF JoinDestination, Target
  <2>2. ops[o].phase = "joining"
    BY <1>2, <2>1 DEF RequestOK
  <2>3. MadeCommit(Target(o), o, ops[o].gen)
    BY <1>2, <2>1, <2>2 DEF MadeCommit, MadeBy, Serving
  <2>4. QED BY <1>3, <2>3 DEF CallMade
<1>6. CASE LeaveSource(u)
  <2>1. /\ Leave(run[u].source[1], o, ops[o].gen, run[u].lease, run[u].source[2])
        /\ run[u].step = "leave"
    BY <1>6 DEF LeaveSource
  <2>2. SeatWaits(o, run[u].source, run[u].lease)
    BY <1>2, <2>1 DEF RequestOK
  <2>3. run[u].source \in Source /\ run[u].lease \in Nat
    BY <1>2, <2>2 DEF SeatWaits, Request
  <2>4. MadeLeave(o, run[u].source, run[u].lease)
    BY <1>2, <2>1, <2>2 DEF MadeLeave
  <2>5. QED BY <2>3, <2>4 DEF CallMade
<1>7. CASE CancelNext(u)
  <2>1. PICK r \in CallTargets(u) : Cancel(r, o, ops[o].gen)
    BY <1>7 DEF CancelNext
  <2>2. run[u].step = "cancel" /\ UNCHANGED acctVars
    BY <1>7 DEF CancelNext
  <2>3. run[u].todo \subseteq ops[o].history
    BY <1>2, <2>2 DEF RequestOK
  <2>4. r \in Rooms
    BY <1>3, <2>1, <2>2, <2>3 DEF CallTargets, Target
  <2>5. MadeCancel(r, o)
    BY <1>2, <2>1, <2>2 DEF MadeCancel
  <2>6. QED BY <2>4, <2>5 DEF CallMade
<1>8. QED BY <1>4, <1>5, <1>6, <1>7

\* The calls that arrive late.
LEMMA ArrivalMakes ==
  ASSUME TypeOK, SwitchInv, NEW m \in orphans, ArriveLate(m)
  PROVE  CallMade
<1>1. /\ m \in Message /\ MessageOK(m) /\ Arrive(m) /\ UNCHANGED acctVars
  BY DEF ArriveLate, TypeOK, SwitchInv
<1>2. /\ m.op \in Ops /\ m.room \in Rooms /\ m.gen \in Nat /\ m.lease \in Nat
      /\ m.rpc \in Writing
  BY <1>1 DEF Message
<1>3. \A rpcs : m.rpc \in rpcs => MadeBy(m.op, rpcs)
  BY DEF MadeBy, Late
<1>4. /\ Owner[m.op] \in Users /\ m.gen = ops[m.op].gen
      /\ m.rpc \in {"reserve", "renew", "join"} =>
           m.room = Target(m.op) /\ m.gen # 0
  BY <1>1 DEF MessageOK
<1>5. CASE m.rpc \in Renewal
  <2>1. Reserve(m.room, m.op, m.gen)
    BY <1>1, <1>5 DEF Arrive, Renewal
  <2>2. MadeReserve(m.room, m.op, m.gen)
    BY <1>1, <1>3, <1>4, <1>5, <2>1 DEF MadeReserve, Renewal, acctVars
  <2>3. QED BY <1>2, <2>2 DEF CallMade
<1>6. CASE m.rpc = "join"
  <2>1. Commit(m.room, m.op, m.gen)
    BY <1>1, <1>6 DEF Arrive
  <2>2. MadeCommit(m.room, m.op, m.gen)
    BY <1>1, <1>3, <1>4, <1>6, <2>1 DEF MadeCommit, MessageOK
  <2>3. QED BY <1>2, <2>2 DEF CallMade
<1>7. CASE m.rpc = "leave"
  <2>1. /\ Leave(m.room, m.op, m.gen, m.lease, m.source[2])
        /\ SeatWaits(m.op, m.source, m.lease) /\ m.room = m.source[1]
    BY <1>1, <1>7 DEF Arrive, MessageOK
  <2>2. m.source \in Source
    BY <2>1 DEF SeatWaits
  <2>3. MadeLeave(m.op, m.source, m.lease)
    BY <1>4, <2>1 DEF MadeLeave
  <2>4. QED BY <1>2, <2>2, <2>3 DEF CallMade
<1>8. CASE m.rpc = "cancel"
  <2>1. Cancel(m.room, m.op, m.gen) /\ ops[m.op].failing
    BY <1>1, <1>8 DEF Arrive, MessageOK
  <2>2. MadeCancel(m.room, m.op)
    BY <1>1, <1>4, <2>1 DEF MadeCancel
  <2>3. QED BY <1>2, <2>2 DEF CallMade
<1>9. QED BY <1>2, <1>5, <1>6, <1>7, <1>8 DEF Writing, Renewal

LEMMA LedgerCalls ==
  ASSUME TypeOK, SwitchInv, [Next]_vars
  PROVE  UNCHANGED ledgerVars \/ Surroundings \/ CallMade
<1>1. ASSUME NEW r \in Rooms, NEW o \in Ops, OthersReserve(r, o) \/ OthersJoin(r, o)
      PROVE  CallMade
  <2>1. MadeReserve(r, o, 1) \/ MadeCommit(r, o, 1)
    BY <1>1 DEF OthersReserve, OthersJoin, MadeReserve, MadeCommit, acctVars
  <2>2. QED BY <2>1 DEF CallMade
<1>2. ASSUME NEW u \in Users, Requests(u) PROVE UNCHANGED ledgerVars
  <2>1. PICK o \in Ops :
          \/ \E kind \in {"join", "revisit"}, d \in Rooms : Prepare(u, o, kind, d)
          \/ PrepareBehind(u, o)
          \/ \E r \in Rooms : Inspect(u, o, r)
          \/ Resume(u, o)
    BY <1>2, Zenon DEF Requests
  <2>2. QED BY <2>1 DEF Prepare, PrepareBehind, Inspect, Resume
<1>3. ASSUME NEW u \in Users, Work(u) PROVE UNCHANGED ledgerVars \/ CallMade
  <2>1. CASE \/ AskSeat(u) \/ RenewSeat(u) \/ LeaveSource(u)
             \/ JoinDestination(u) \/ CancelNext(u)
    <3>1. run[u].step # "idle"
      BY <2>1 DEF AskSeat, RenewSeat, LeaveSource, JoinDestination, CancelNext
    <3>2. PICK o \in Ops : run[u].op = o
      BY <3>1, ServedOperation
    <3>3. QED BY <2>1, <3>2, RequestMakes
  <2>2. CASE ~(\/ AskSeat(u) \/ RenewSeat(u) \/ LeaveSource(u)
               \/ JoinDestination(u) \/ CancelNext(u))
    BY <1>3, <2>2
       DEF Work, PrepareDestination, ConfirmDestination, ScanRoom,
           InspectDone, PrepareDone, ConfirmDone, ChangedDone, FailureDone,
           ReconcileExits, NextSource, AllLeft, Admission, FinishReady
  <2>3. QED BY <2>1, <2>2
<1>4. ASSUME NEW u \in Users, Abort(u) PROVE UNCHANGED ledgerVars
  BY <1>4 DEF Abort
<1>5. ASSUME NEW u \in Users, NEW r \in Rooms, MayOperate(u, r) \/ Operate(u, r)
      PROVE  UNCHANGED ledgerVars
  BY <1>5 DEF MayOperate, Operate
<1>6. UNCHANGED vars => UNCHANGED ledgerVars
  BY DEF vars
<1>7. (\E r \in Rooms, o \in Ops : OthersReserve(r, o) \/ OthersJoin(r, o))
      => CallMade
  BY <1>1
<1>8. (\E u \in Users : Requests(u) \/ Work(u) \/ Abort(u))
      => UNCHANGED ledgerVars \/ CallMade
  BY <1>2, <1>3, <1>4
<1>9. (\E m \in orphans : ArriveLate(m)) => CallMade
  BY ArrivalMakes
<1>10. (\E u \in Users, r \in Rooms : MayOperate(u, r) \/ Operate(u, r))
       => UNCHANGED ledgerVars
  BY <1>5
<1>11. QED BY <1>6, <1>7, <1>8, <1>9, <1>10, Zenon DEF Next

\* Nobody leaves a room for one that no longer waits for them
\* (account-do.ts, admission before each leaveForParticipation).
THEOREM LeaversHoldTheirSeat == Spec => LeaveHoldsSeat
<1> DEFINE Held == \A o \in Ops, r \in Rooms :
                     o \in receipts'[r] \ receipts[r]
                     => HoldsSeat(ops[o].target, o, ops[o].gen)
<1>1. ASSUME Inv, [Next]_vars PROVE Held
  <2> SUFFICES ASSUME NEW o \in Ops, NEW r \in Rooms,
                      o \in receipts'[r], o \notin receipts[r]
               PROVE  HoldsSeat(Target(o), o, ops[o].gen)
    BY DEF Target
  <2>1. TypeOK /\ SwitchInv
    BY <1>1 DEF Inv
  <2>2. ~(UNCHANGED ledgerVars) /\ ~Surroundings
    BY DEF ledgerVars, Surroundings, LeaveDirect, RemoveMember, Disband,
           Complete, Rename, Tick
  <2>3. PICK c \in Ops, s \in Source, lease \in Nat : MadeLeave(c, s, lease)
    <3>1. CallMade
      BY <1>1, <2>1, <2>2, LedgerCalls
    <3>2. \A q, c, g : ~MadeReserve(q, c, g)
      BY DEF MadeReserve, Reserve
    <3>3. \A q, c, g : ~MadeCommit(q, c, g)
      BY DEF MadeCommit, Commit, Enter, ledgerVars
    <3>4. \A q, c : ~MadeCancel(q, c)
      BY DEF MadeCancel, Cancel
    <3>5. QED BY <3>1, <3>2, <3>3, <3>4, Zenon DEF CallMade
  <2>4. Exits(s[1], c, ops[c].gen, lease, s[2]) /\ Exit(s[1], c)
    BY <2>3 DEF MadeLeave, Leave, ledgerVars
  <2>5. receipts \in [Rooms -> SUBSET Ops]
    BY <2>1, Rows DEF LedgerTypeOK
  <2>6. o = c
    BY <2>4, <2>5 DEF Exit
  <2>7. QED BY <2>1, <2>3, <2>4, <2>6, LeaveFindsSeat DEF MadeLeave
<1>2. Inv /\ [Next]_vars => Held
  BY <1>1
<1>3. QED BY <1>2, SwitchInvariant, PTL DEF Spec, LeaveHoldsSeat

-----------------------------------------------------------------------------
\* Facts about the ledger the rest needs.

LEMMA ClosedStays ==
  ASSUME LedgerTypeOK, [AnyStep]_ledgerVars, NEW r \in Rooms, ~Joinable(r)
  PROVE  ~Joinable(r)'
<1> USE DEF Joinable, LedgerTypeOK
<1>1. ASSUME NEW q \in Rooms, NEW w \in People, NEW keep \in BOOLEAN,
             TakeOut(q, w, keep)
      PROVE  ~Joinable(r)'
  BY <1>1 DEF TakeOut
<1>2. ASSUME NEW q \in Rooms, NEW o \in Ops, NEW g \in Nat,
             \/ Reserve(q, o, g) \/ Commit(q, o, g)
             \/ \E lease \in Nat, t \in Titles : Leave(q, o, g, lease, t)
             \/ Cancel(q, o, g)
      PROVE  ~Joinable(r)'
  <2>1. CASE stage' = stage
    BY <2>1
  <2>2. CASE Exit(q, o)
    <3>1. TakeOut(q, Owner[o], TRUE)
      BY <2>2 DEF Exit
    <3>2. QED BY <1>1, <3>1, OwnerAssumption
  <2>3. QED BY <1>2, <2>1, <2>2
            DEF Reserve, Commit, Enter, Leave, Cancel, ledgerVars
<1>3. ASSUME Surroundings PROVE ~Joinable(r)'
  <2>1. CASE \E q \in Rooms, w \in People : LeaveDirect(q, w) \/ RemoveMember(q, w)
    BY <1>1, <2>1 DEF LeaveDirect, RemoveMember
  <2>2. CASE (\E q \in Rooms : Disband(q) \/ Complete(q) \/ Rename(q)) \/ Tick
    BY <2>2 DEF Disband, Complete, Rename, Tick
  <2>3. QED BY <1>3, <2>1, <2>2 DEF Surroundings
<1>4. QED BY <1>2, <1>3 DEF AnyStep, AnyCalls, ledgerVars

\* Who joined an open room has one of its colours.
JoinedHaveColors ==
  \A r \in Rooms, w \in People :
    fence[r][w].joined /\ Joinable(r) => w \in colors[r]

LEMMA ColorsFollow ==
  ASSUME LedgerTypeOK, JoinedHaveColors, [AnyStep]_ledgerVars
  PROVE  JoinedHaveColors'
<1> SUFFICES ASSUME NEW r \in Rooms, NEW w \in People,
                    fence'[r][w].joined, Joinable(r)'
             PROVE  w \in colors'[r]
  BY DEF JoinedHaveColors
<1>1. Joinable(r)
  BY ClosedStays
<1>2. fence[r][w].joined => w \in colors[r]
  BY <1>1 DEF JoinedHaveColors
<1> USE DEF LedgerTypeOK
<1>3. ASSUME NEW q \in Rooms, NEW p \in People, NEW keep \in BOOLEAN,
             TakeOut(q, p, keep), fence' = fence
      PROVE  w \in colors'[r]
  <2>1. CASE colors' = colors
    BY <1>2, <1>3, <2>1
  <2>2. CASE colors' # colors
    <3>1. colors' = [colors EXCEPT ![q] = {}]
          /\ stage' = [stage EXCEPT ![q] = "disbanded"]
      BY <1>3, <2>2 DEF TakeOut
    <3>2. r # q
      BY <3>1 DEF Joinable
    <3>3. QED BY <1>2, <1>3, <3>1, <3>2
  <2>3. QED BY <2>1, <2>2
<1>4. ASSUME NEW q \in Rooms, NEW o \in Ops, NEW g \in Nat,
             \/ Reserve(q, o, g) \/ Commit(q, o, g)
             \/ \E lease \in Nat, t \in Titles : Leave(q, o, g, lease, t)
             \/ Cancel(q, o, g)
      PROVE  w \in colors'[r]
  <2>0. Owner[o] \in People
    BY OwnerAssumption
  <2>1. CASE Reserve(q, o, g)
    <3>1. colors' = colors
      BY <2>1 DEF Reserve
    <3>2. fence[r][w].joined
      BY <2>0, <2>1 DEF Reserve
    <3>3. QED BY <1>2, <3>1, <3>2
  <2>2. CASE Commit(q, o, g)
    <3>1. CASE Enter(q, Owner[o])
      BY <1>2, <2>0, <3>1 DEF Enter
    <3>2. CASE UNCHANGED ledgerVars
      BY <1>2, <3>2 DEF ledgerVars
    <3>3. QED BY <2>2, <3>1, <3>2 DEF Commit
  <2>3. CASE \E lease \in Nat, t \in Titles : Leave(q, o, g, lease, t)
    <3>1. CASE Exit(q, o)
      BY <1>3, <2>0, <3>1 DEF Exit
    <3>2. CASE UNCHANGED ledgerVars
      BY <1>2, <3>2 DEF ledgerVars
    <3>3. QED BY <2>3, <3>1, <3>2 DEF Leave
  <2>4. CASE Cancel(q, o, g)
    <3>1. colors' = colors
      BY <2>4 DEF Cancel
    <3>2. fence[r][w].joined
      BY <2>0, <2>4 DEF Cancel
    <3>3. QED BY <1>2, <3>1, <3>2
  <2>5. QED BY <1>4, <2>1, <2>2, <2>3, <2>4
<1>5. ASSUME Surroundings PROVE w \in colors'[r]
  <2>1. CASE \E q \in Rooms, p \in People : LeaveDirect(q, p) \/ RemoveMember(q, p)
    BY <1>3, <2>1 DEF LeaveDirect, RemoveMember
  <2>2. ASSUME NEW q \in Rooms, Disband(q) PROVE w \in colors'[r]
    <3>1. r # q
      BY <2>2 DEF Disband, Joinable
    <3>2. QED BY <1>2, <2>2, <3>1 DEF Disband
  <2>3. CASE (\E q \in Rooms : Complete(q) \/ Rename(q)) \/ Tick
    BY <1>2, <2>3 DEF Complete, Rename, Tick
  <2>4. QED BY <1>5, <2>1, <2>2, <2>3 DEF Surroundings
<1>6. CASE UNCHANGED ledgerVars
  BY <1>2, <1>6 DEF ledgerVars
<1>7. QED BY <1>4, <1>5, <1>6 DEF AnyStep, AnyCalls

-----------------------------------------------------------------------------
\* The fence of an operation is its own doing.

LEMMA FenceIsMade ==
  ASSUME TypeOK, SwitchInv, [Next]_vars, NEW r \in Rooms, NEW o \in Ops,
         fence'[r][Owner[o]].op = o,
         fence'[r][Owner[o]] # fence[r][Owner[o]]
  PROVE  \/ \E g \in Nat :
              /\ MadeReserve(r, o, g)
              /\ fence'[r][Owner[o]] = [gen |-> g, op |-> o, joined |-> FALSE]
         \/ \E g \in Nat :
              /\ MadeCommit(r, o, g) /\ Joins(r, o, g)
              /\ fence[r][Owner[o]].op = o /\ fence[r][Owner[o]].gen = g
              /\ ~fence[r][Owner[o]].joined
<1>1. CallMade
  <2>1. fence' # fence
    OBVIOUS
  <2>2. ~(UNCHANGED ledgerVars)
    BY <2>1 DEF ledgerVars
  <2>3. Surroundings => fence' = fence
    BY DEF Surroundings, LeaveDirect, RemoveMember, Disband, Complete, Rename,
           Tick
  <2>4. QED BY <2>1, <2>2, <2>3, LedgerCalls
<1>2. /\ fence \in [Rooms -> [People -> Fence]]
      /\ \A c \in Ops : Owner[c] \in People
      /\ o # NoOp
  BY Rows, OwnerAssumption DEF LedgerTypeOK
<1>3. ASSUME NEW q \in Rooms, NEW c \in Ops, NEW g \in Nat, MadeReserve(q, c, g)
      PROVE  /\ MadeReserve(r, o, g)
             /\ fence'[r][Owner[o]] = [gen |-> g, op |-> o, joined |-> FALSE]
  <2>1. fence' = [fence EXCEPT ![q][Owner[c]] =
                    [gen |-> g, op |-> c, joined |-> FALSE]]
    BY <1>3 DEF MadeReserve, Reserve
  <2>2. q = r /\ Owner[c] = Owner[o]
    BY <1>2, <2>1
  <2>3. fence'[r][Owner[o]] = [gen |-> g, op |-> c, joined |-> FALSE]
    BY <1>2, <2>1, <2>2
  <2>4. c = o
    BY <2>3
  <2>5. QED BY <1>3, <2>2, <2>3, <2>4
<1>4. ASSUME NEW q \in Rooms, NEW c \in Ops, NEW g \in Nat, MadeCommit(q, c, g)
      PROVE  /\ MadeCommit(r, o, g) /\ Joins(r, o, g)
             /\ fence[r][Owner[o]].op = o /\ fence[r][Owner[o]].gen = g
             /\ ~fence[r][Owner[o]].joined
  <2>1. Joins(q, c, g) /\ fence' = [fence EXCEPT ![q][Owner[c]].joined = TRUE]
    BY <1>4 DEF MadeCommit, Commit, Enter, ledgerVars
  <2>2. q = r /\ Owner[c] = Owner[o]
    BY <1>2, <2>1
  <2>3. fence[q][Owner[c]].op = c /\ fence[q][Owner[c]].gen = g
        /\ ~fence[q][Owner[c]].joined
    BY <2>1 DEF Joins, CommitReply
  <2>4. fence'[r][Owner[o]] = [fence[r][Owner[o]] EXCEPT !.joined = TRUE]
    BY <1>2, <2>1, <2>2
  <2>5. fence'[r][Owner[o]].op = fence[r][Owner[o]].op
    BY <1>2, <2>4 DEF Fence
  <2>6. c = o
    BY <2>2, <2>3, <2>5
  <2>7. QED BY <1>4, <2>1, <2>2, <2>3, <2>6
<1>5. ASSUME NEW s \in Source, NEW c \in Ops, NEW lease \in Nat,
             MadeLeave(c, s, lease)
      PROVE  FALSE
  BY <1>5 DEF MadeLeave, Leave, Exit, ledgerVars
<1>6. ASSUME NEW q \in Rooms, NEW c \in Ops, MadeCancel(q, c)
      PROVE  FALSE
  <2>1. fence' = [fence EXCEPT ![q][Owner[c]] =
                    [gen |-> ops[c].gen + 1, op |-> NoOp, joined |-> FALSE]]
    BY <1>6 DEF MadeCancel, Cancel
  <2>2. q = r /\ Owner[c] = Owner[o]
    BY <1>2, <2>1
  <2>3. QED BY <1>2, <2>1, <2>2
<1>7. QED BY <1>1, <1>3, <1>4, <1>5, <1>6 DEF CallMade

\* A fence of an operation stands at its destination, with its generation.
FencesAreOwn ==
  \A o \in Ops, r \in Rooms :
    Owner[o] \in Users /\ fence[r][Owner[o]].op = o
    => fence[r][Owner[o]].gen = ops[o].gen /\ ops[o].gen # 0 /\ r = Target(o)

\* Nobody is joined before all sources are left.
JoinedLate ==
  \A o \in Ops :
    Owner[o] \in Users /\ Joined(o) => ops[o].phase \in {"joining", "ready"}

LEMMA NumberedMoves ==
  ASSUME TypeOK, SwitchInv, [Next]_vars, NEW o \in Ops, Owner[o] \in Users,
         ops[o].gen # 0
  PROVE  /\ Moves(o) /\ ops'[o].gen = ops[o].gen
         /\ ops'[o].target = ops[o].target
<1>1. ops[o].phase # "none"
  BY DEF SwitchInv, OperationOK, Unprepared
<1>2. QED BY <1>1, SwitchNext DEF Kept, Moves

LEMMA OwnFencesStay ==
  ASSUME TypeOK, SwitchInv, FencesAreOwn, [Next]_vars
  PROVE  FencesAreOwn'
<1> SUFFICES ASSUME NEW o \in Ops, NEW r \in Rooms, Owner[o] \in Users,
                    fence'[r][Owner[o]].op = o
             PROVE  /\ fence'[r][Owner[o]].gen = ops'[o].gen
                    /\ ops'[o].gen # 0 /\ r = ops'[o].target
  BY DEF FencesAreOwn, Target
<1>1. /\ fence'[r][Owner[o]].gen = ops[o].gen
      /\ ops[o].gen # 0 /\ r = ops[o].target
  <2>1. CASE fence'[r][Owner[o]] = fence[r][Owner[o]]
    BY <2>1 DEF FencesAreOwn, Target
  <2>2. CASE fence'[r][Owner[o]] # fence[r][Owner[o]]
    <3>1. CASE \E g \in Nat :
                 /\ MadeReserve(r, o, g)
                 /\ fence'[r][Owner[o]] = [gen |-> g, op |-> o, joined |-> FALSE]
      BY <3>1 DEF MadeReserve, Target
    <3>2. CASE \E g \in Nat :
                 MadeCommit(r, o, g) /\ Joins(r, o, g)
                 /\ fence[r][Owner[o]].op = o
      <4>1. PICK g \in Nat : MadeCommit(r, o, g) /\ Joins(r, o, g)
        BY <3>2
      <4>2. fence' = [fence EXCEPT ![r][Owner[o]].joined = TRUE]
        BY <4>1 DEF MadeCommit, Commit, Enter
      <4>3. fence \in [Rooms -> [People -> Fence]] /\ Owner[o] \in People
        BY Rows DEF LedgerTypeOK
      <4>4. fence'[r][Owner[o]].gen = fence[r][Owner[o]].gen
        BY <4>2, <4>3 DEF Fence
      <4>5. QED BY <3>2, <4>4 DEF FencesAreOwn, Target
    <3>3. QED BY <2>2, <3>1, <3>2, FenceIsMade
  <2>3. QED BY <2>1, <2>2
<1>2. QED BY <1>1, NumberedMoves

LEMMA JoinedIsLate ==
  ASSUME TypeOK, SwitchInv, FencesAreOwn, JoinedLate, [Next]_vars
  PROVE  JoinedLate'
<1> SUFFICES ASSUME NEW o \in Ops, Owner[o] \in Users, Joined(o)'
             PROVE  ops'[o].phase \in {"joining", "ready"}
  BY DEF JoinedLate
<1> DEFINE r == ops'[o].target
<1>1. /\ fence'[r][Owner[o]].op = o /\ fence'[r][Owner[o]].joined
      /\ fence'[r][Owner[o]].gen = ops'[o].gen
  BY DEF Joined, HasJoined, Target
<1>2. r \in Rooms
  BY SwitchNext DEF TypeOK, Operation
<1>3. CASE fence'[r][Owner[o]] = fence[r][Owner[o]]
  <2>1. r = Target(o) /\ fence[r][Owner[o]].gen = ops[o].gen /\ ops[o].gen # 0
    BY <1>1, <1>2, <1>3 DEF FencesAreOwn
  <2>2. Moves(o) /\ ops'[o].gen = ops[o].gen
    BY <2>1, NumberedMoves
  <2>3. Joined(o)
    BY <1>3, <2>1, <2>2 DEF Joined, HasJoined, Target
  <2>4. QED BY <2>2, <2>3 DEF JoinedLate, Moves
<1>4. CASE fence'[r][Owner[o]] # fence[r][Owner[o]]
  <2>1. ASSUME NEW g \in Nat,
               fence'[r][Owner[o]] = [gen |-> g, op |-> o, joined |-> FALSE]
        PROVE  FALSE
    BY <1>1, <2>1
  <2>2. \E g \in Nat : MadeCommit(r, o, g)
    <3> HIDE DEF r
    <3>1. \/ \E g \in Nat : fence'[r][Owner[o]] =
                             [gen |-> g, op |-> o, joined |-> FALSE]
          \/ \E g \in Nat : MadeCommit(r, o, g)
      BY <1>1, <1>2, <1>4, FenceIsMade
    <3>2. QED BY <2>1, <3>1
  <2>3. QED BY <2>2 DEF MadeCommit, acctVars
<1>5. QED BY <1>3, <1>4

-----------------------------------------------------------------------------
\* Giving an operation up.

\* The moment the intent to fail is written down.
GivesUp(o) ==
  \E u \in Users :
    /\ Owner[o] = u /\ run[u].op = o /\ Fail(u, o) /\ orphans' = orphans
    /\ \/ ConfirmDestination(u)
       \/ AskSeat(u) /\ ReserveReply(Target(o), o, ops[o].gen) # "ok"
       \/ RenewSeat(u) /\ ReserveReply(Target(o), o, ops[o].gen) # "ok"

LEMMA FailingBegins ==
  ASSUME TypeOK, SwitchInv, [Next]_vars, NEW o \in Ops,
         ~ops[o].failing, ops'[o].failing
  PROVE  GivesUp(o)
<1>0. ops \in [Ops -> Operation]
  BY DEF TypeOK
<1>1. ops' # ops
  OBVIOUS
<1>2. ASSUME NEW u \in Users, NEW c \in Ops,
             \/ \E kind \in {"join", "revisit"}, d \in Rooms : Prepare(u, c, kind, d)
             \/ PrepareBehind(u, c)
             \/ \E r \in Rooms : Inspect(u, c, r)
             \/ Resume(u, c)
      PROVE  FALSE
  <2>1. Resume(u, c)
    BY <1>1, <1>2 DEF Prepare, PrepareBehind, Inspect, acctVars
  <2>2. CASE ops' = [ops EXCEPT ![c].failing = TRUE] /\ ops[c].failing
    BY <1>0, <2>2 DEF Operation
  <2>3. CASE ops' = [ops EXCEPT ![c].phase = "ready", ![c].result = "rejected"]
    BY <1>0, <2>3 DEF Operation
  <2>4. QED BY <1>1, <2>1, <2>2, <2>3 DEF Resume, Fail, acctVars
<1>3. ASSUME NEW u \in Users, Work(u)
      PROVE  GivesUp(o)
  <2>1. run[u].step # "idle"
    BY <1>3 DEF Work, PrepareDestination, ConfirmDestination, ScanRoom,
           InspectDone, PrepareDone, ConfirmDone, ChangedDone, FailureDone,
           AskSeat, ReconcileExits, NextSource, AllLeft, Admission, RenewSeat,
           LeaveSource, JoinDestination, FinishReady, CancelNext, ScanDone,
           Scanning
  <2>2. PICK c \in Ops : run[u].op = c /\ Owner[c] = u
    BY <2>1, ServedOperation
  <2>3. ASSUME ops' = [ops EXCEPT ![c].failing = TRUE] PROVE c = o
    BY <1>0, <2>3
  <2>4. CASE ConfirmDestination(u)
    <3>1. Fail(u, c) /\ orphans' = orphans
      BY <1>1, <2>2, <2>4 DEF ConfirmDestination, acctVars
    <3>2. c = o
      BY <2>3, <3>1 DEF Fail
    <3>3. QED BY <2>2, <2>4, <3>1, <3>2 DEF GivesUp
  <2>5. CASE AskSeat(u)
    <3>1. ~(ops' = [ops EXCEPT ![c].phase = "leaving"])
      BY <1>0 DEF Operation
    <3>2. Fail(u, c) /\ orphans' = orphans
          /\ ReserveReply(Target(c), c, ops[c].gen) # "ok"
      BY <2>2, <2>5, <3>1 DEF AskSeat, Target
    <3>3. c = o
      BY <2>3, <3>2 DEF Fail
    <3>4. QED BY <2>2, <2>5, <3>2, <3>3 DEF GivesUp
  <2>6. CASE RenewSeat(u)
    <3>1. Fail(u, c) /\ orphans' = orphans
          /\ ReserveReply(Target(c), c, ops[c].gen) # "ok"
      BY <1>1, <2>2, <2>6 DEF RenewSeat, Target, acctVars
    <3>2. c = o
      BY <2>3, <3>1 DEF Fail
    <3>3. QED BY <2>2, <2>6, <3>1, <3>2 DEF GivesUp
  <2>7. ~(\/ PrepareDestination(u) \/ \E r \in Rooms : ScanRoom(u, r)
          \/ InspectDone(u) \/ Admission(u) \/ JoinDestination(u)
          \/ CancelNext(u))
    BY <1>1 DEF PrepareDestination, ScanRoom, InspectDone, Admission,
                      JoinDestination, CancelNext, acctVars
  <2>8. \/ ops'[o].failing = ops[o].failing \/ ops'[o].failing = FALSE
        \/ ConfirmDestination(u) \/ AskSeat(u) \/ RenewSeat(u)
    <3>1. CASE PrepareDone(u)
      <4>1. ops' = [ops EXCEPT ![c] =
                      NewOp(run[u].kind, run[u].target, run[u].found)]
        BY <2>2, <3>1 DEF PrepareDone
      <4>2. CASE c = o
        <5>1. ops'[o] = NewOp(run[u].kind, run[u].target, run[u].found)
          BY <1>0, <4>1, <4>2
        <5>2. QED BY <5>1 DEF NewOp
      <4>3. CASE c # o
        BY <1>0, <4>1, <4>3
      <4>4. QED BY <4>2, <4>3
    <3>2. CASE ConfirmDone(u)
      BY <1>0, <2>2, <3>2 DEF ConfirmDone, Operation
    <3>3. CASE ChangedDone(u)
      BY <1>0, <2>2, <3>3 DEF ChangedDone, Operation
    <3>7. CASE FailureDone(u) \/ ReconcileExits(u) \/ AllLeft(u)
      BY <1>0, <2>2, <3>7 DEF FailureDone, ReconcileExits, AllLeft, Operation
    <3>4. CASE (\E s \in Source : NextSource(u, s)) \/ LeaveSource(u)
      <4>1. \E s : ops' = [ops EXCEPT ![c].left = @ \cup {s}]
        BY <1>1, <2>2, <3>4, Zenon DEF NextSource, LeaveSource
      <4>2. QED BY <1>0, <4>1 DEF Operation
    <3>5. CASE FinishReady(u)
      BY <1>0, <2>2, <3>5 DEF FinishReady, Operation
    <3>6. QED BY <1>1, <1>3, <2>7, <3>1, <3>2, <3>3, <3>4, <3>5,
               <3>7 DEF Work
  <2>9. QED BY <2>4, <2>5, <2>6, <2>8
<1>4. CASE (\E r \in Rooms, c \in Ops : OthersReserve(r, c) \/ OthersJoin(r, c))
           \/ (\E u \in Users : Abort(u))
           \/ (\E m \in orphans : ArriveLate(m))
           \/ (\E u \in Users, r \in Rooms : MayOperate(u, r) \/ Operate(u, r))
           \/ Outside \/ UNCHANGED vars
  <2>1. ops' = ops
    BY <1>4 DEF OthersReserve, OthersJoin, Abort, ArriveLate, MayOperate,
                Operate, Outside, acctVars, vars
  <2>2. QED BY <1>1, <2>1
<1>5. ASSUME NEW u \in Users, Requests(u) PROVE FALSE
  BY <1>2, <1>5 DEF Requests
<1>6. QED BY <1>3, <1>4, <1>5 DEF Next

-----------------------------------------------------------------------------
\* What becomes of an operation that was given up.

\* Of no operation are a join and a renewal of its seat orphaned together.
LateCallsApart ==
  \A m, n \in orphans :
    m.op = n.op /\ m.rpc = "join" => n.rpc \notin Renewal

\* The destination has turned to another operation of the same user.
Lost(o) ==
  LET f == fence[Target(o)][Owner[o]]
  IN f.gen > ops[o].gen \/ (f.gen = ops[o].gen /\ f.op # o)

\* The destination holds a seat for the operation.
Waits(o) == LET row == seat[Target(o)][Owner[o]] IN row.op = o /\ Live(row)

\* Nothing under way can still join the user for operation o.
GivenUp(o) ==
  \/ ~Joinable(Target(o))
  \/ Lost(o)
  \/ /\ ~Joined(o)
     /\ ~Late(o, {"join"}) \/ (~Waits(o) /\ ~Late(o, Renewal))

AllGivenUp ==
  \A o \in Ops : Owner[o] \in Users /\ ops[o].failing => GivenUp(o)

LEMMA JoinIsMade ==
  ASSUME TypeOK, SwitchInv, [Next]_vars, NEW o \in Ops, Owner[o] \in Users,
         ops'[o].target = ops[o].target, ops'[o].gen = ops[o].gen,
         ~Joined(o), Joined(o)'
  PROVE  /\ MadeBy(o, {"join"}) /\ Waits(o)
         /\ ops[o].phase \in {"joining", "ready"}
<1>1. /\ fence'[Target(o)][Owner[o]].op = o
      /\ fence'[Target(o)][Owner[o]].joined
      /\ fence'[Target(o)][Owner[o]] # fence[Target(o)][Owner[o]]
  BY DEF Joined, HasJoined, Target
<1>2. Target(o) \in Rooms
  BY Rows
<1>3. \/ \E g \in Nat : fence'[Target(o)][Owner[o]] =
                         [gen |-> g, op |-> o, joined |-> FALSE]
      \/ \E g \in Nat : MadeCommit(Target(o), o, g) /\ Joins(Target(o), o, g)
                        /\ ~fence[Target(o)][Owner[o]].joined
  BY <1>1, <1>2, FenceIsMade
<1>4. \A g \in Nat : ~(fence'[Target(o)][Owner[o]] =
                       [gen |-> g, op |-> o, joined |-> FALSE])
  BY <1>1
<1>5. PICK g \in Nat : /\ MadeCommit(Target(o), o, g) /\ Joins(Target(o), o, g)
                       /\ ~fence[Target(o)][Owner[o]].joined
  BY <1>3, <1>4
<1>6. /\ seat[Target(o)][Owner[o]].op = o
      /\ ~(seat[Target(o)][Owner[o]].expires <= now)
  BY <1>5 DEF Joins, CommitReply
<1>7. /\ now \in Nat /\ seat[Target(o)][Owner[o]].expires \in Nat /\ o # NoOp
  BY <1>2, Rows, OwnerAssumption DEF Seat
<1>8. seat[Target(o)][Owner[o]].expires > now
  BY <1>6, <1>7
<1>9. QED BY <1>5, <1>6, <1>7, <1>8 DEF MadeCommit, Waits, Live

LEMMA SeatIsMade ==
  ASSUME TypeOK, SwitchInv, [Next]_vars, NEW o \in Ops, Owner[o] \in Users,
         ops'[o].target = ops[o].target, ~Waits(o), Waits(o)'
  PROVE  MadeBy(o, Renewal)
<1> DEFINE row == seat[Target(o)][Owner[o]]
           new == seat'[Target(o)][Owner[o]]
<1>1. /\ Target(o) \in Rooms /\ Owner[o] \in People /\ o # NoOp
      /\ seat \in [Rooms -> [People -> Seat]] /\ row \in Seat
      /\ \A c \in Ops : Owner[c] \in People
  BY Rows, OwnerAssumption DEF LedgerTypeOK
<1>2. new.op = o /\ new.expires > now'
  BY DEF Waits, Live, Target
<1>3. now \in Nat /\ now' \in Nat /\ now <= now'
  BY NextIsLedgerStep DEF Tame
<1>4. new # row
  <2>1. SUFFICES ASSUME new = row PROVE FALSE
    OBVIOUS
  <2>2. row.expires \in Nat /\ row.expires > now'
    BY <1>1, <1>2, <2>1 DEF Seat
  <2>3. row.expires > now
    BY <1>3, <2>2
  <2>4. QED BY <1>1, <1>2, <2>1, <2>3 DEF Waits, Live
<1>5. new # NoSeat
  BY <1>1, <1>2 DEF NoSeat
<1>6. CallMade
  <2>1. seat' # seat
    BY <1>4
  <2>2. ~(UNCHANGED ledgerVars)
    BY <2>1 DEF ledgerVars
  <2>3. Surroundings => seat' = seat
    BY DEF Surroundings, LeaveDirect, RemoveMember, Disband, Complete, Rename,
           Tick
  <2>4. QED BY <2>1, <2>2, <2>3, LedgerCalls
<1>7. ASSUME NEW r \in Rooms, NEW c \in Ops, NEW g \in Nat, MadeReserve(r, c, g)
      PROVE  MadeBy(o, Renewal)
  <2>1. new = [op |-> c, gen |-> g, expires |-> now + LeaseTime]
    BY <1>1, <1>4, <1>5, <1>7 DEF MadeReserve, Reserve
  <2>2. c = o
    BY <1>2, <2>1
  <2>3. QED BY <1>7, <2>2 DEF MadeReserve
<1>8. ASSUME NEW r \in Rooms, NEW c \in Ops, NEW g \in Nat, MadeCommit(r, c, g)
      PROVE  FALSE
  <2>1. seat' = [seat EXCEPT ![r][Owner[c]] = NoSeat]
    BY <1>4, <1>8 DEF MadeCommit, Commit, Enter, ledgerVars
  <2>2. QED BY <1>1, <1>4, <1>5, <2>1
<1>9. ASSUME NEW s \in Source, NEW c \in Ops, NEW lease \in Nat,
             MadeLeave(c, s, lease)
      PROVE  FALSE
  BY <1>4, <1>9 DEF MadeLeave, Leave, Exit, ledgerVars
<1>10. ASSUME NEW r \in Rooms, NEW c \in Ops, MadeCancel(r, c)
       PROVE  FALSE
  <2>1. seat' = [seat EXCEPT ![r][Owner[c]] = NoSeat]
    BY <1>4, <1>10 DEF MadeCancel, Cancel
  <2>2. QED BY <1>1, <1>4, <1>5, <2>1
<1>11. QED BY <1>6, <1>7, <1>8, <1>9, <1>10 DEF CallMade

\* A dying request orphans the call it was waiting for, nothing else does.
LEMMA OrphansAreCalls ==
  ASSUME TypeOK, SwitchInv, [Next]_vars, NEW m \in orphans', m \notin orphans
  PROVE  \E u \in Users : run[u].op = m.op /\ run[u].step = m.rpc
                          /\ m.rpc \in Writing
<1>1. ASSUME NEW u \in Users, Abort(u)
      PROVE  run[u].op = m.op /\ run[u].step = m.rpc /\ m.rpc \in Writing
  BY <1>1 DEF Abort, Call
<1>2. ASSUME NEW u \in Users, Requests(u) PROVE FALSE
  BY <1>2 DEF Requests, Prepare, PrepareBehind, Inspect, Resume
<1>3. ASSUME NEW u \in Users, Work(u) PROVE FALSE
  BY <1>3 DEF Work, PrepareDestination, ConfirmDestination, ScanRoom,
           InspectDone, PrepareDone, ConfirmDone, ChangedDone, FailureDone,
           AskSeat, ReconcileExits, NextSource, AllLeft, Admission, RenewSeat,
           LeaveSource, JoinDestination, FinishReady, CancelNext
<1>4. QED BY <1>1, <1>2, <1>3
          DEF Next, OthersReserve, OthersJoin, ArriveLate, MayOperate, Operate,
              Outside, vars

\* The calls of an operation that fails are cancellations.
LEMMA FailingServesCancel ==
  ASSUME TypeOK, SwitchInv, NEW o \in Ops, Owner[o] \in Users,
         ops[o].failing, NEW rpcs, rpcs \subseteq Writing \ {"cancel"}
  PROVE  ~Serving(o, rpcs)
<1> SUFFICES ASSUME Serving(o, rpcs) PROVE FALSE
  OBVIOUS
<1>1. run[Owner[o]].step \notin Preparing \cup {"idle", "cancel", "failureScan"}
  BY DEF Serving, Writing, Preparing
<1>2. ~ops[o].failing
  BY <1>1, Served DEF Serving
<1>3. QED BY <1>2

LEMMA LateCallsGoOut ==
  ASSUME TypeOK, SwitchInv, [Next]_vars, NEW o \in Ops, Owner[o] \in Users,
         ops[o].failing, NEW rpcs, rpcs \subseteq Writing \ {"cancel"},
         Late(o, rpcs)'
  PROVE  Late(o, rpcs)
<1>1. PICK m \in orphans' : m.op = o /\ m.rpc \in rpcs
  BY DEF Late
<1>2. CASE m \in orphans
  BY <1>1, <1>2 DEF Late
<1>3. CASE m \notin orphans
  <2>1. PICK u \in Users : run[u].op = o /\ run[u].step = m.rpc
                           /\ m.rpc \in Writing
    BY <1>1, <1>3, OrphansAreCalls
  <2>2. run[u].step # "idle"
    BY <2>1 DEF Writing
  <2>3. Owner[o] = u
    BY <2>1, <2>2, ServedOperation
  <2>4. Serving(o, rpcs)
    BY <1>1, <2>1, <2>3 DEF Serving
  <2>5. QED BY <2>4, FailingServesCancel
<1>4. QED BY <1>2, <1>3

LEMMA GivenUpStays ==
  ASSUME TypeOK, SwitchInv, [Next]_vars, NEW o \in Ops, Owner[o] \in Users,
         ops[o].failing, GivenUp(o)
  PROVE  GivenUp(o)'
<1>1. ops'[o].target = ops[o].target /\ ops'[o].gen = ops[o].gen
  <2>1. ops[o].phase # "none"
    BY DEF SwitchInv, OperationOK, Unprepared
  <2>2. QED BY <2>1, SwitchNext DEF Kept, Moves
<1>2. /\ TypeOK' /\ Tame /\ [AnyStep]_ledgerVars
      /\ LedgerTypeOK /\ Target(o) \in Rooms /\ Owner[o] \in People
  BY SwitchNext, NextIsLedgerStep, LedgerStepIsAnyStep, Rows
<1>3. CASE ~Joinable(Target(o))
  <2>1. ~Joinable(Target(o))'
    <3>1. stage'[Target(o)] # "open"
      BY <1>2, <1>3, ClosedStays DEF Joinable
    <3>2. QED BY <1>1, <3>1 DEF Joinable, Target
  <2>2. QED BY <2>1 DEF GivenUp
<1>4. CASE Lost(o)
  <2>1. LET old == fence[Target(o)][Owner[o]]
            new == fence'[Target(o)][Owner[o]]
        IN old.gen \in Nat /\ new.gen \in Nat /\ ops[o].gen \in Nat
           /\ Forward(old, new)
    BY <1>2, Rows DEF Tame, TypeOK, LedgerTypeOK, Fence
  <2>2. Lost(o)'
    BY <1>1, <1>4, <2>1 DEF Lost, Forward, Target
  <2>3. QED BY <2>2 DEF GivenUp
<1>5. CASE /\ ~Joined(o)
           /\ ~Late(o, {"join"}) \/ (~Waits(o) /\ ~Late(o, Renewal))
  <2>1. /\ {"join"} \subseteq Writing \ {"cancel"}
        /\ Renewal \subseteq Writing \ {"cancel"}
    BY DEF Writing, Renewal
  <2>2. ~Joined(o)'
    <3>1. SUFFICES ASSUME Joined(o)' PROVE FALSE
      OBVIOUS
    <3>2. MadeBy(o, {"join"}) /\ Waits(o)
      BY <1>1, <1>5, <3>1, JoinIsMade
    <3>3. Late(o, {"join"})
      BY <2>1, <3>2, FailingServesCancel DEF MadeBy
    <3>4. QED BY <1>5, <3>2, <3>3
  <2>3. CASE ~Late(o, {"join"})
    <3>1. ~Late(o, {"join"})'
      BY <2>1, <2>3, LateCallsGoOut
    <3>2. QED BY <2>2, <3>1 DEF GivenUp
  <2>4. CASE ~Waits(o) /\ ~Late(o, Renewal)
    <3>1. ~Late(o, Renewal)'
      BY <2>1, <2>4, LateCallsGoOut
    <3>2. ~Waits(o)'
      BY <1>1, <2>1, <2>4, SeatIsMade, FailingServesCancel DEF MadeBy
    <3>3. QED BY <2>2, <3>1, <3>2 DEF GivenUp
  <2>5. QED BY <1>5, <2>3, <2>4
<1>6. QED BY <1>3, <1>4, <1>5 DEF GivenUp

\* Where a full room refuses a renewal, the seat is gone already.
LEMMA FullRoomHasNoSeat ==
  ASSUME TypeOK, SeatInvariant, JoinedHaveColors, NEW o \in Ops,
         ReserveReply(Target(o), o, ops[o].gen) = "room-full"
  PROVE  ~Joined(o) /\ ~Waits(o)
<1> DEFINE r == Target(o)
           u == Owner[o]
<1>1. r \in Rooms /\ u \in People
  BY Rows
<1>2. IsFiniteSet(Taken(r)) /\ Cardinality(Taken(r)) <= Capacity
  BY <1>1 DEF SeatInvariant
<1>3. Joinable(r) /\ u \notin colors[r]
  BY DEF ReserveReply, CanAccept
<1>4. ~Joined(o)
  BY <1>1, <1>3 DEF Joined, HasJoined, JoinedHaveColors
<1>5. ASSUME Waits(o) PROVE FALSE
  <2> DEFINE C == colors[r]
             W == Waiting(r, u)
  <2>1. u \in Taken(r)
    BY <1>1, <1>5 DEF Waits, Live, Taken
  <2>2. C \subseteq Taken(r) \ {u} /\ W \subseteq Taken(r) \ {u} /\ C \cap W = {}
    BY <1>3 DEF Taken, Waiting, Live
  <2>3. IsFiniteSet(Taken(r) \ {u})
        /\ Cardinality(Taken(r) \ {u}) = Cardinality(Taken(r)) - 1
    BY <1>2, <2>1, FS_RemoveElement
  <2>4. /\ IsFiniteSet(C) /\ IsFiniteSet(W) /\ IsFiniteSet(C \cup W)
        /\ Cardinality(C \cup W) <= Cardinality(Taken(r) \ {u})
        /\ Cardinality(C) <= Cardinality(C \cup W)
    <3>1. (C \cup W) \subseteq Taken(r) \ {u}
      BY <2>2
    <3>2. IsFiniteSet(C) /\ IsFiniteSet(W) /\ IsFiniteSet(C \cup W)
      BY <2>2, <2>3, <3>1, FS_Subset
    <3>3. Cardinality(C \cup W) <= Cardinality(Taken(r) \ {u})
      BY <2>3, <3>1, FS_Subset
    <3>4. Cardinality(C) <= Cardinality(C \cup W)
      BY <3>2, FS_Subset
    <3>5. QED BY <3>2, <3>3, <3>4
  <2>5. Cardinality(C \cup W) = Cardinality(C) + Cardinality(W)
    <3>1. Cardinality(C \cup W)
          = Cardinality(C) + Cardinality(W) - Cardinality(C \cap W)
      BY <2>4, FS_Union
    <3>2. Cardinality(C \cap W) = 0
      BY <2>2, FS_EmptySet
    <3>3. Cardinality(C) \in Nat /\ Cardinality(W) \in Nat
      BY <2>4, FS_CardinalityType
    <3>4. QED BY <3>1, <3>2, <3>3
  <2>6. \/ Cardinality(C) >= Capacity
        \/ Cardinality(C) + Cardinality(W) >= Capacity
    <3>1. CASE CanAccept(r, u) = "room-full"
      <4>1. ~(Cardinality(C) < Capacity)
        BY <1>3, <3>1 DEF CanAccept
      <4>2. Cardinality(C) \in Nat /\ Capacity \in Nat
        BY <2>4, FS_CardinalityType, NumbersAssumption
      <4>3. QED BY <4>1, <4>2
    <3>2. CASE CanAccept(r, u) # "room-full"
      BY <3>2 DEF ReserveReply, CanAccept
    <3>3. QED BY <3>1, <3>2
  <2>7. /\ Cardinality(C) \in Nat /\ Cardinality(W) \in Nat
        /\ Cardinality(C \cup W) \in Nat /\ Cardinality(Taken(r)) \in Nat
        /\ Capacity \in Nat
    BY <1>2, <2>4, FS_CardinalityType, NumbersAssumption
  <2> HIDE DEF C, W
  <2>8. QED BY <1>2, <2>3, <2>4, <2>5, <2>6, <2>7
<1>6. QED BY <1>4, <1>5

LEMMA RefusedReserve ==
  ASSUME TypeOK, NEW r \in Rooms, NEW o \in Ops, NEW g \in Nat,
         Reserve(r, o, g), ReserveReply(r, o, g) # "ok"
  PROVE  /\ fence' = fence /\ stage' = stage /\ now' = now
         /\ \A q \in Rooms, w \in People :
              seat'[q][w] = seat[q][w] \/ seat'[q][w] = NoSeat
<1>1. seat \in [Rooms -> [People -> Seat]]
  BY Rows DEF LedgerTypeOK
<1>2. fence' = fence /\ stage' = stage /\ now' = now
  BY DEF Reserve
<1>3. seat' = [seat EXCEPT ![r] = [w \in People |->
                 IF Live(seat[r][w]) THEN seat[r][w] ELSE NoSeat]]
  BY DEF Reserve
<1>4. QED BY <1>1, <1>2, <1>3

\* Giving up leaves nothing under way that could still join, unless a join
\* and a renewal are both late.
LEMMA GivingUpIsSafe ==
  ASSUME TypeOK, SwitchInv, JoinedLate, JoinedHaveColors, SeatInvariant,
         LateCallsApart, [Next]_vars, NEW o \in Ops, ~ops[o].failing, GivesUp(o)
  PROVE  GivenUp(o)'
<1>1. PICK u \in Users :
        /\ Owner[o] = u /\ run[u].op = o /\ Fail(u, o) /\ orphans' = orphans
        /\ \/ ConfirmDestination(u)
           \/ AskSeat(u) /\ ReserveReply(Target(o), o, ops[o].gen) # "ok"
           \/ RenewSeat(u) /\ ReserveReply(Target(o), o, ops[o].gen) # "ok"
  BY DEF GivesUp
<1>2. ops'[o].target = ops[o].target /\ ops'[o].gen = ops[o].gen
  BY <1>1 DEF Fail, TypeOK, Operation
<1>3. /\ Target(o) \in Rooms /\ ops[o].gen \in Nat /\ Owner[o] \in People
  BY Rows
<1>4. /\ fence' = fence /\ stage' = stage /\ now' = now
      /\ \/ seat'[Target(o)][u] = seat[Target(o)][u]
         \/ seat'[Target(o)][u] = NoSeat
  <2>1. CASE ConfirmDestination(u)
    BY <2>1 DEF ConfirmDestination, ledgerVars
  <2>2. CASE ~ConfirmDestination(u)
    <3>1. /\ Reserve(Target(o), o, ops[o].gen)
          /\ ReserveReply(Target(o), o, ops[o].gen) # "ok"
      BY <1>1, <2>2 DEF AskSeat, RenewSeat, Target
    <3>2. QED BY <1>1, <1>3, <3>1, RefusedReserve
  <2>3. QED BY <2>1, <2>2
<1>5. ~Joined(o) => ~Joined(o)'
  BY <1>2, <1>4 DEF Joined, HasJoined, Target
<1>6. ~Waits(o) => ~Waits(o)'
  BY <1>1, <1>2, <1>4, OwnerAssumption DEF Waits, Live, Target, NoSeat
<1>7. \A rpcs : ~Late(o, rpcs) => ~Late(o, rpcs)'
  BY <1>1 DEF Late
<1>8. CASE ops[o].phase # "joining"
  <2>1. run[u].step \in {"destination", "reserve", "renew"}
    BY <1>1 DEF ConfirmDestination, AskSeat, RenewSeat
  <2>2. Unfinished(o)
    BY <1>1, <2>1, Served DEF Preparing
  <2>3. ops[o].phase \notin {"joining", "ready"}
    BY <1>8, <2>2 DEF Unfinished
  <2>4. ~Joined(o)
    BY <1>1, <2>3 DEF JoinedLate
  <2>5. ~Late(o, {"join"})
    BY <2>3 DEF Late, SwitchInv, MessageOK
  <2>6. QED BY <1>5, <1>7, <2>4, <2>5 DEF GivenUp
<1>9. CASE ops[o].phase = "joining"
  <2>1. ~ConfirmDestination(u) /\ ~AskSeat(u)
    <3>1. RequestOK(u)
      BY DEF SwitchInv
    <3>2. QED BY <1>1, <1>9, <3>1 DEF RequestOK, ConfirmDestination, AskSeat
  <2>2. ReserveReply(Target(o), o, ops[o].gen) # "ok"
    BY <1>1, <2>1
  <2>3. ReserveReply(Target(o), o, ops[o].gen)
          \in {"stale", "room-closed", "room-full"}
    BY <2>2 DEF ReserveReply, CanAccept
  <2>4. CASE ReserveReply(Target(o), o, ops[o].gen) = "stale"
    <3>1. Lost(o)
      BY <2>4 DEF ReserveReply, Lost, CanAccept
    <3>2. QED BY <1>2, <1>4, <3>1 DEF Lost, GivenUp, Target
  <2>5. CASE ReserveReply(Target(o), o, ops[o].gen) = "room-closed"
    <3>1. ~Joinable(Target(o))
      BY <2>5 DEF ReserveReply, CanAccept
    <3>2. QED BY <1>2, <1>4, <3>1 DEF Joinable, GivenUp, Target
  <2>6. CASE ReserveReply(Target(o), o, ops[o].gen) = "room-full"
    <3>1. ~Joined(o) /\ ~Waits(o)
      BY <2>6, FullRoomHasNoSeat
    <3>2. ~Late(o, {"join"}) \/ ~Late(o, Renewal)
      BY DEF LateCallsApart, Late
    <3>3. QED BY <1>5, <1>6, <1>7, <3>1, <3>2 DEF GivenUp
  <2>7. QED BY <2>3, <2>4, <2>5, <2>6
<1>10. QED BY <1>8, <1>9

LEMMA GivenUpKept ==
  ASSUME TypeOK, SwitchInv, JoinedLate, JoinedHaveColors, SeatInvariant,
         LateCallsApart, AllGivenUp, [Next]_vars
  PROVE  AllGivenUp'
<1> SUFFICES ASSUME NEW o \in Ops, Owner[o] \in Users, ops'[o].failing
             PROVE  GivenUp(o)'
  BY DEF AllGivenUp
<1>1. CASE ops[o].failing
  BY <1>1, GivenUpStays DEF AllGivenUp
<1>2. CASE ~ops[o].failing
  BY <1>2, FailingBegins, GivingUpIsSafe
<1>3. QED BY <1>1, <1>2

-----------------------------------------------------------------------------
\* The reported result.

\* Nothing is recorded for operations of people whose account is not modelled.
StrangersIdle ==
  \A o \in Ops : Owner[o] \notin Users => ~ops[o].failing /\ ops[o].result = "none"

LEMMA RecordsAreOwn ==
  ASSUME TypeOK, SwitchInv, [Next]_vars, NEW o \in Ops, Owner[o] \notin Users
  PROVE  ops'[o] = ops[o]
<1>0. ops \in [Ops -> Operation]
  BY DEF TypeOK
<1>1. ASSUME NEW u \in Users, NEW c \in Ops, Owner[c] = u,
             \A p \in Ops \ {c} : ops'[p] = ops[p]
      PROVE  ops'[o] = ops[o]
  BY <1>1
<1>2. ASSUME NEW u \in Users, NEW c \in Ops,
             \/ \E kind \in {"join", "revisit"}, d \in Rooms : Prepare(u, c, kind, d)
             \/ PrepareBehind(u, c)
             \/ \E r \in Rooms : Inspect(u, c, r)
             \/ Resume(u, c)
      PROVE  ops'[o] = ops[o]
  <2>1. Owner[c] = u
    BY <1>2 DEF Prepare, PrepareBehind, Inspect, Resume
  <2>2. \A p \in Ops \ {c} : ops'[p] = ops[p]
    BY <1>0, <1>2 DEF Prepare, PrepareBehind, Inspect, Resume, Fail, acctVars
  <2>3. QED BY <1>1, <2>1, <2>2
<1>3. ASSUME NEW u \in Users, Work(u) PROVE ops'[o] = ops[o]
  <2>1. run[u].step # "idle"
    BY <1>3 DEF Work, PrepareDestination, ConfirmDestination, ScanRoom,
           InspectDone, PrepareDone, ConfirmDone, ChangedDone, FailureDone,
           AskSeat, ReconcileExits, NextSource, AllLeft, Admission, RenewSeat,
           LeaveSource, JoinDestination, FinishReady, CancelNext, ScanDone,
           Scanning
  <2>2. PICK c \in Ops : run[u].op = c /\ Owner[c] = u
    BY <2>1, ServedOperation
  <2> DEFINE Apart == \A p \in Ops \ {c} : ops'[p] = ops[p]
  <2>3. ASSUME PrepareDone(u) \/ ConfirmDone(u) PROVE Apart
    BY <1>0, <2>2, <2>3 DEF PrepareDone, ConfirmDone
  <2>4. ASSUME ChangedDone(u) \/ FailureDone(u) \/ ReconcileExits(u) \/ AllLeft(u)
        PROVE  Apart
    BY <1>0, <2>2, <2>4 DEF ChangedDone, FailureDone, ReconcileExits, AllLeft
  <2>5. ASSUME \/ PrepareDestination(u) \/ \E r \in Rooms : ScanRoom(u, r)
               \/ InspectDone(u) \/ Admission(u) \/ JoinDestination(u)
               \/ CancelNext(u)
        PROVE  Apart
    BY <2>5 DEF PrepareDestination, ScanRoom, InspectDone, Admission,
                JoinDestination, CancelNext, acctVars
  <2>6. ASSUME ConfirmDestination(u) \/ AskSeat(u) \/ RenewSeat(u)
        PROVE  Apart
    BY <1>0, <2>2, <2>6 DEF ConfirmDestination, AskSeat, RenewSeat, Fail, acctVars
  <2>7. ASSUME (\E s \in Source : NextSource(u, s)) \/ LeaveSource(u)
               \/ FinishReady(u)
        PROVE  Apart
    BY <1>0, <2>2, <2>7 DEF NextSource, LeaveSource, FinishReady
  <2>8. Apart
    BY <1>3, <2>3, <2>4, <2>5, <2>6, <2>7, Zenon DEF Work
  <2>9. QED BY <1>1, <2>2, <2>8
<1>4. CASE (\E r \in Rooms, c \in Ops : OthersReserve(r, c) \/ OthersJoin(r, c))
           \/ (\E u \in Users : Abort(u))
           \/ (\E m \in orphans : ArriveLate(m))
           \/ (\E u \in Users, r \in Rooms : MayOperate(u, r) \/ Operate(u, r))
           \/ Outside \/ UNCHANGED vars
  BY <1>4 DEF OthersReserve, OthersJoin, Abort, ArriveLate, MayOperate,
              Operate, Outside, acctVars, vars
<1>5. ASSUME NEW u \in Users, Requests(u) PROVE ops'[o] = ops[o]
  BY <1>2, <1>5, Zenon DEF Requests
<1>6. QED BY <1>3, <1>4, <1>5 DEF Next

\* The invariant the results rest on besides SwitchInv.
ResultInv ==
  /\ FencesAreOwn
  /\ JoinedLate
  /\ JoinedHaveColors
  /\ SeatInvariant
  /\ StrangersIdle

LEMMA ResultInit == Init => ResultInv
<1> SUFFICES ASSUME Init PROVE ResultInv
  OBVIOUS
<1>1. TypeOK /\ LedgerInit
  BY SwitchTypeInit DEF Init
<1>2. \A r \in Rooms, w \in People : fence[r][w] = NoFence
  BY <1>1 DEF LedgerInit
<1>3. \A o \in Ops : o # NoOp /\ Owner[o] \in People /\ Target(o) \in Rooms
  BY <1>1, Rows, OwnerAssumption
<1>4. FencesAreOwn /\ JoinedLate /\ JoinedHaveColors
  BY <1>2, <1>3 DEF FencesAreOwn, JoinedLate, JoinedHaveColors, Joined,
                    HasJoined, NoFence
<1>5. StrangersIdle
  <2>1. \A o \in Ops : ops[o] = NoRecord
    BY DEF Init
  <2>2. ~NoRecord.failing /\ NoRecord.result = "none"
    BY DEF NoRecord, NewOp
  <2>3. QED BY <2>1, <2>2 DEF StrangersIdle
<1>6. QED BY <1>1, <1>4, <1>5, SeatInit DEF ResultInv

LEMMA ResultNext ==
  TypeOK /\ SwitchInv /\ ResultInv /\ [Next]_vars => ResultInv'
<1> SUFFICES ASSUME TypeOK, SwitchInv, ResultInv, [Next]_vars PROVE ResultInv'
  OBVIOUS
<1>1. [AnyStep]_ledgerVars /\ LedgerTypeOK
  BY NextIsLedgerStep, LedgerStepIsAnyStep, Rows
<1>2. JoinedHaveColors' /\ SeatInvariant'
  BY <1>1, ColorsFollow, SeatNext DEF ResultInv
<1>3. FencesAreOwn' /\ JoinedLate'
  BY OwnFencesStay, JoinedIsLate DEF ResultInv
<1>4. StrangersIdle'
  BY RecordsAreOwn DEF StrangersIdle, ResultInv
<1>5. QED BY <1>2, <1>3, <1>4 DEF ResultInv

\* A result that is reported holds at the destination, however many requests
\* died and however late their calls arrive: "ready" means that the user was
\* joined there and nobody but a later operation has undone it, "rejected"
\* that no call of the operation is taken up there any more (account-do.ts,
\* finishReady and finishFailure).
ResultStands ==
  \A o \in Ops :
    /\ ops[o].result = "ready" => Joined(o) \/ Fenced(o, Target(o))
    /\ ops[o].result = "rejected" => Fenced(o, Target(o))

THEOREM ReportedResultsStand == Spec => []ResultStands
<1>1. Init => Inv /\ ResultInv
  BY SwitchTypeInit, SwitchInit, ResultInit DEF Inv, Init
<1>2. Inv /\ ResultInv /\ [Next]_vars => Inv' /\ ResultInv'
  BY SwitchNext, ResultNext DEF Inv, Kept
<1>3. Inv /\ ResultInv => ResultStands
  <2> SUFFICES ASSUME Inv, ResultInv, NEW o \in Ops
               PROVE  /\ ops[o].result = "ready" => Joined(o) \/ Fenced(o, Target(o))
                      /\ ops[o].result = "rejected" => Fenced(o, Target(o))
    BY DEF ResultStands
  <2>1. CASE Owner[o] \notin Users
    BY <2>1 DEF ResultInv, StrangersIdle
  <2>2. CASE Owner[o] \in Users
    <3>1. OperationOK(o)
      BY <2>2 DEF Inv, SwitchInv
    <3>2. CASE ops[o].phase = "none"
      BY <3>1, <3>2 DEF OperationOK, Unprepared
    <3>3. CASE ops[o].phase = "ready"
      BY <3>1, <3>3 DEF OperationOK, Reported
    <3>4. CASE Unfinished(o)
      BY <3>1, <3>4 DEF OperationOK, Underway
    <3>5. QED BY <3>2, <3>3, <3>4 DEF Unfinished
  <2>3. QED BY <2>1, <2>2
<1>4. QED BY <1>1, <1>2, <1>3, PTL DEF Spec

-----------------------------------------------------------------------------
\* Where a user is and what the account knows of it.

\* Room r is in the index of u, or the operation under way has just joined it.
Listed(u, r) ==
  \/ r \in index[u]
  \/ active[u] # NoOp /\ Target(active[u]) = r /\ Joined(active[u])

\* An operation that has its generation knows room r.
Known(u, r) ==
  \/ active[u] = NoOp
  \/ ops[active[u]].gen = 0
  \/ r \in Names(ops[active[u]].sources) \cup {Target(active[u])}

Covered ==
  \A u \in Users, r \in Rooms : TakesPart(u, r) => Listed(u, r) /\ Known(u, r)

\* Only a commit makes a member.
LEMMA MembersJoin ==
  ASSUME TypeOK, SwitchInv, [Next]_vars, NEW r \in Rooms, NEW u \in People,
         u \in members'[r], u \notin members[r]
  PROVE  \E c \in Ops, g \in Nat :
           Owner[c] = u /\ MadeCommit(r, c, g) /\ Joins(r, c, g) /\ Enter(r, u)
<1> USE DEF TypeOK, LedgerTypeOK
<1>1. members' # members
  OBVIOUS
<1>2. ASSUME NEW q \in Rooms, NEW w \in People, NEW keep, TakeOut(q, w, keep)
      PROVE  FALSE
  BY <1>2 DEF TakeOut
<1>3. CallMade
  <2>1. ~(UNCHANGED ledgerVars)
    BY <1>1 DEF ledgerVars
  <2>2. ~Surroundings
    <3>1. ~(\E q \in Rooms, w \in People : LeaveDirect(q, w) \/ RemoveMember(q, w))
      BY <1>2 DEF LeaveDirect, RemoveMember
    <3>2. ~(\E q \in Rooms : Disband(q))
      BY DEF Disband
    <3>3. ~((\E q \in Rooms : Complete(q) \/ Rename(q)) \/ Tick)
      BY DEF Complete, Rename, Tick
    <3>4. QED BY <3>1, <3>2, <3>3 DEF Surroundings
  <2>3. QED BY <2>1, <2>2, LedgerCalls
<1>4. \A q \in Rooms, c \in Ops, g \in Nat : ~MadeReserve(q, c, g)
  BY <1>1 DEF MadeReserve, Reserve
<1>5. \A s \in Source, c \in Ops, lease \in Nat : ~MadeLeave(c, s, lease)
  BY <1>1, <1>2, OwnerAssumption DEF MadeLeave, Leave, Exit, ledgerVars, Source
<1>6. \A q \in Rooms, c \in Ops : ~MadeCancel(q, c)
  BY <1>1 DEF MadeCancel, Cancel
<1>7. PICK q \in Rooms, c \in Ops, g \in Nat : MadeCommit(q, c, g)
  BY <1>3, <1>4, <1>5, <1>6 DEF CallMade
<1>8. Joins(q, c, g) /\ Enter(q, Owner[c])
  BY <1>1, <1>7 DEF MadeCommit, Commit, ledgerVars
<1>9. q = r /\ Owner[c] = u
  BY <1>8, OwnerAssumption DEF Enter
<1>10. QED BY <1>7, <1>8, <1>9

LEMMA JoinedRow ==
  ASSUME NEW f \in Fence
  PROVE  [f EXCEPT !.joined = TRUE] = [gen |-> f.gen, op |-> f.op, joined |-> TRUE]
<1> DEFINE h == [f EXCEPT !.joined = TRUE]
<1>1. h \in Fence /\ h.gen = f.gen /\ h.op = f.op /\ h.joined = TRUE
  BY DEF Fence
<1>2. \A x \in Fence : x = [gen |-> x.gen, op |-> x.op, joined |-> x.joined]
  BY DEF Fence
<1>3. h = [gen |-> h.gen, op |-> h.op, joined |-> h.joined]
  BY <1>1, <1>2
<1> HIDE DEF h
<1>4. h = [gen |-> f.gen, op |-> f.op, joined |-> TRUE]
  BY <1>1, <1>3
<1>5. QED BY <1>4 DEF h

\* Whoever comes to take part in a room was joined by the active operation.
LEMMA NewcomersJoined ==
  ASSUME TypeOK, SwitchInv, [Next]_vars, NEW r \in Rooms, NEW u \in Users,
         NEW c \in Ops, NEW g \in Nat, Owner[c] = u, MadeCommit(r, c, g),
         Joins(r, c, g), Enter(r, u)
  PROVE  /\ active[u] = c /\ r = Target(c)
         /\ ops[c].phase = "joining" /\ ops[c].gen # 0
         /\ Joined(c)' /\ UNCHANGED acctVars
<1>1. /\ g = ops[c].gen /\ r = Target(c)
      /\ ops[c].phase \in {"joining", "ready"} /\ UNCHANGED acctVars
  BY DEF MadeCommit
<1>2. active[u] = c /\ ops[c].phase = "joining" /\ ops[c].gen # 0
  BY <1>1, JoinIsActive
<1>3. fence[r][u].op = c /\ fence[r][u].gen = g
  BY DEF Joins, CommitReply
<1>4. fence \in [Rooms -> [People -> Fence]] /\ u \in People
  BY Rows DEF LedgerTypeOK
<1>5. fence'[r][u] = [fence[r][u] EXCEPT !.joined = TRUE]
  BY <1>4 DEF Enter
<1>6. fence'[r][u] = [gen |-> g, op |-> c, joined |-> TRUE]
  BY <1>3, <1>4, <1>5, JoinedRow
<1>7. Joined(c)'
  BY <1>1, <1>6 DEF Joined, HasJoined, Target, acctVars
<1>8. QED BY <1>1, <1>2, <1>7

LEMMA Newcomers ==
  ASSUME TypeOK, SwitchInv, [Next]_vars, NEW r \in Rooms, NEW u \in Users,
         ~TakesPart(u, r), TakesPart(u, r)'
  PROVE  \E c \in Ops :
           /\ Owner[c] = u /\ active[u] = c /\ r = Target(c)
           /\ ops[c].phase = "joining" /\ ops[c].gen # 0
           /\ Joined(c)' /\ UNCHANGED acctVars
<1>1. Joinable(r)
  BY NextIsLedgerStep, LedgerStepIsAnyStep, Rows, ClosedStays DEF TakesPart
<1>2. u \in members'[r] /\ u \notin members[r] /\ u \in People
  BY <1>1, UsersAssumption DEF TakesPart
<1>3. QED BY <1>2, MembersJoin, NewcomersJoined

\* While an operation is under way only its own cancellation could move its
\* fence on, and that is not called once the room has joined it.
LEMMA JoinedFenceStays ==
  ASSUME TypeOK, SwitchInv, AllGivenUp, [Next]_vars, NEW o \in Ops,
         Owner[o] \in Users, Unfinished(o), ops[o].gen # 0, Joined(o),
         Joinable(Target(o))
  PROVE  fence'[Target(o)][Owner[o]] = fence[Target(o)][Owner[o]]
<1> DEFINE f == fence[Target(o)][Owner[o]]
<1>1. /\ fence \in [Rooms -> [People -> Fence]]
      /\ \A c \in Ops : Owner[c] \in People /\ ops[c].gen \in Nat
      /\ Target(o) \in Rooms
  BY Rows DEF LedgerTypeOK
<1>2. f = [gen |-> ops[o].gen, op |-> o, joined |-> TRUE]
  BY DEF Joined, HasJoined
<1>3. f.gen = ops[o].gen /\ f.op = o /\ f.joined = TRUE
  BY <1>2
<1>4. ~ops[o].failing
  <2>1. ~Lost(o)
    BY <1>1, <1>3 DEF Lost
  <2>2. QED BY <2>1 DEF AllGivenUp, GivenUp
<1>5. \A c \in Ops \ {o} : Owner[c] = Owner[o] => ops[c].gen < ops[o].gen
  BY DEF SwitchInv, NewestIsActive
<1>6. ASSUME NEW r \in Rooms, NEW c \in Ops, NEW g \in Nat, MadeReserve(r, c, g)
      PROVE  fence'[Target(o)][Owner[o]] = f
  <2>1. CASE r = Target(o) /\ Owner[c] = Owner[o]
    <3>1. g = ops[c].gen
      BY <1>6, <2>1 DEF MadeReserve
    <3>2. ~(f.gen < g)
      BY <1>1, <1>3, <1>5, <2>1, <3>1
    <3>3. fence' = fence
      BY <1>6, <2>1, <3>2 DEF MadeReserve, Reserve
    <3>4. QED BY <3>3
  <2>2. CASE ~(r = Target(o) /\ Owner[c] = Owner[o])
    BY <1>1, <1>6, <2>2 DEF MadeReserve, Reserve
  <2>3. QED BY <2>1, <2>2
<1>7. ASSUME NEW r \in Rooms, NEW c \in Ops, NEW g \in Nat, MadeCommit(r, c, g)
      PROVE  fence'[Target(o)][Owner[o]] = f
  <2>1. CASE UNCHANGED ledgerVars
    BY <2>1 DEF ledgerVars
  <2>2. CASE fence' = [fence EXCEPT ![r][Owner[c]].joined = TRUE]
    <3>1. CASE r = Target(o) /\ Owner[c] = Owner[o]
      <4>1. fence'[Target(o)][Owner[o]] = [f EXCEPT !.joined = TRUE]
        BY <1>1, <2>2, <3>1
      <4>2. f \in Fence
        BY <1>1
      <4>3. QED BY <1>2, <1>3, <4>1, <4>2, JoinedRow
    <3>2. CASE ~(r = Target(o) /\ Owner[c] = Owner[o])
      BY <1>1, <2>2, <3>2
    <3>3. QED BY <3>1, <3>2
  <2>3. QED BY <1>7, <2>1, <2>2 DEF MadeCommit, Commit, Enter
<1>8. ASSUME NEW s \in Source, NEW c \in Ops, NEW lease \in Nat,
             MadeLeave(c, s, lease)
      PROVE  fence' = fence
  BY <1>8 DEF MadeLeave, Leave, Exit, ledgerVars
<1>9. ASSUME NEW r \in Rooms, NEW c \in Ops, MadeCancel(r, c)
      PROVE  fence'[Target(o)][Owner[o]] = f
  <2>1. CASE r = Target(o) /\ Owner[c] = Owner[o]
    <3>1. c # o
      BY <1>4, <1>9 DEF MadeCancel
    <3>2. ~(f.gen <= ops[c].gen)
      BY <1>1, <1>3, <1>5, <2>1, <3>1
    <3>3. fence' = fence
      BY <1>9, <2>1, <3>2 DEF MadeCancel, Cancel
    <3>4. QED BY <3>3
  <2>2. CASE ~(r = Target(o) /\ Owner[c] = Owner[o])
    BY <1>1, <1>9, <2>2 DEF MadeCancel, Cancel
  <2>3. QED BY <2>1, <2>2
<1>10. Surroundings => fence' = fence
  BY DEF Surroundings, LeaveDirect, RemoveMember, Disband, Complete, Rename,
         Tick
<1>11. UNCHANGED ledgerVars => fence' = fence
  BY DEF ledgerVars
<1>12. QED BY <1>6, <1>7, <1>8, <1>9, <1>10, <1>11, LedgerCalls DEF CallMade

-----------------------------------------------------------------------------
\* What a step does to what an account knows.

\* Nothing the account of u knows of its rooms has changed.
Still(u) ==
  /\ index'[u] = index[u] /\ active'[u] = active[u]
  /\ active[u] # NoOp =>
       /\ ops'[active[u]].target = ops[active[u]].target
       /\ ops'[active[u]].gen = ops[active[u]].gen
       /\ ops'[active[u]].sources = ops[active[u]].sources

Relists(u) ==
  \/ InspectDone(u) \/ PrepareDone(u) \/ ConfirmDone(u)
  \/ ChangedDone(u) \/ FailureDone(u) \/ FinishReady(u)

\* Only the record of one operation changes, and not where it goes.
LEMMA RecordStill ==
  ASSUME TypeOK, SwitchInv, NEW c \in Ops,
         UNCHANGED <<index, active>>,
         \A p \in Ops \ {c} : ops'[p] = ops[p],
         /\ ops'[c].target = ops[c].target
         /\ ops'[c].gen = ops[c].gen
         /\ ops'[c].sources = ops[c].sources,
         NEW u \in Users
  PROVE  Still(u)
<1>1. active[u] \in Ops \cup {NoOp}
  BY Rows
<1>2. QED BY <1>1 DEF Still

\* Somebody else's account acts.
LEMMA OthersStill ==
  ASSUME TypeOK, SwitchInv, NEW w \in Users, NEW c \in Ops, Owner[c] = w,
         NEW u \in Users, u # w,
         index'[u] = index[u], active'[u] = active[u],
         \A p \in Ops \ {c} : ops'[p] = ops[p]
  PROVE  Still(u)
<1>1. active[u] # NoOp => active[u] \in Ops /\ Owner[active[u]] = u
  BY Rows DEF SwitchInv
<1>2. QED BY <1>1 DEF Still

LEMMA FailStill ==
  ASSUME TypeOK, SwitchInv, NEW c \in Ops, NEW w \in Users, Fail(w, c),
         NEW u \in Users
  PROVE  Still(u)
<1>1. /\ ops'[c].target = ops[c].target /\ ops'[c].gen = ops[c].gen
      /\ ops'[c].sources = ops[c].sources
      /\ \A p \in Ops \ {c} : ops'[p] = ops[p]
  BY DEF Fail, TypeOK, Operation
<1>2. UNCHANGED <<index, active>>
  BY DEF Fail
<1>3. QED BY <1>1, <1>2, RecordStill

LEMMA StillOrRelisted ==
  ASSUME TypeOK, SwitchInv, [Next]_vars, NEW u \in Users
  PROVE  \/ Still(u)
         \/ \E o \in Ops, r \in Rooms : Inspect(u, o, r)
         \/ \E o \in Ops : run[u].op = o /\ Relists(u)
<1>0. /\ ops \in [Ops -> Operation] /\ index \in [Users -> SUBSET Rooms]
      /\ active \in [Users -> Ops \cup {NoOp}]
  BY DEF TypeOK
<1>1. ASSUME UNCHANGED <<index, active, ops>> PROVE Still(u)
  BY <1>1 DEF Still
<1>2. ASSUME NEW w \in Users, NEW c \in Ops,
             \/ \E kind \in {"join", "revisit"}, d \in Rooms : Prepare(w, c, kind, d)
             \/ PrepareBehind(w, c)
             \/ \E r \in Rooms : Inspect(w, c, r)
             \/ Resume(w, c)
      PROVE  Still(u) \/ \E r \in Rooms : Inspect(u, c, r)
  <2>1. CASE (\E kind \in {"join", "revisit"}, d \in Rooms : Prepare(w, c, kind, d))
             \/ PrepareBehind(w, c)
    BY <1>1, <2>1 DEF Prepare, PrepareBehind, acctVars
  <2>2. ASSUME NEW r \in Rooms, Inspect(w, c, r)
        PROVE  Still(u) \/ Inspect(u, c, r)
    BY <1>0, <2>2 DEF Inspect, Still
  <2>3. CASE Resume(w, c)
    <3>1. Owner[c] = w /\ Unfinished(c) /\ OperationOK(c)
      BY <2>3 DEF Resume, SwitchInv
    <3>2. ops[c].gen # 0 => ops[c].gen = gen[w]
      BY <3>1 DEF OperationOK, Underway
    <3>3. ~(ops[c].gen # 0 /\ ops[c].gen < gen[w])
      <4>1. gen[w] \in Nat /\ ops[c].gen \in Nat
        BY Rows
      <4>2. QED BY <3>2, <4>1
    <3>4. Fail(w, c) \/ UNCHANGED acctVars
      BY <2>3, <3>3 DEF Resume
    <3>5. QED BY <1>1, <3>4, FailStill DEF acctVars
  <2>4. QED BY <1>2, <2>1, <2>2, <2>3
<1>3. ASSUME NEW w \in Users, Work(w)
      PROVE  Still(u) \/ (w = u /\ Relists(u))
  <2>1. run[w].step # "idle"
    BY <1>3 DEF Work, PrepareDestination, ConfirmDestination, ScanRoom,
           InspectDone, PrepareDone, ConfirmDone, ChangedDone, FailureDone,
           AskSeat, ReconcileExits, NextSource, AllLeft, Admission, RenewSeat,
           LeaveSource, JoinDestination, FinishReady, CancelNext, ScanDone,
           Scanning
  <2>2. PICK c \in Ops : run[w].op = c /\ Owner[c] = w
    BY <2>1, ServedOperation
  <2>3. ASSUME UNCHANGED <<index, active>>, \A p \in Ops \ {c} : ops'[p] = ops[p],
               /\ ops'[c].target = ops[c].target /\ ops'[c].gen = ops[c].gen
               /\ ops'[c].sources = ops[c].sources
        PROVE  Still(u)
    BY <2>3, RecordStill
  <2>4. ASSUME \/ PrepareDestination(w) \/ \E r \in Rooms : ScanRoom(w, r)
               \/ Admission(w) \/ JoinDestination(w) \/ CancelNext(w)
        PROVE  Still(u)
    BY <1>1, <2>4 DEF PrepareDestination, ScanRoom, Admission,
                      JoinDestination, CancelNext, acctVars
  <2>5. ASSUME ConfirmDestination(w) \/ RenewSeat(w) PROVE Still(u)
    <3>1. Fail(w, c) \/ UNCHANGED acctVars
      BY <2>2, <2>5 DEF ConfirmDestination, RenewSeat
    <3>2. QED BY <1>1, <3>1, FailStill DEF acctVars
  <2>6. ASSUME AskSeat(w) PROVE Still(u)
    <3>1. CASE Fail(w, c)
      BY <3>1, FailStill
    <3>2. CASE /\ ops' = [ops EXCEPT ![c].phase = "leaving"]
               /\ UNCHANGED <<gen, active, index, alias>>
      BY <1>0, <2>3, <3>2 DEF Operation
    <3>3. QED BY <2>2, <2>6, <3>1, <3>2 DEF AskSeat
  <2>7. ASSUME ReconcileExits(w) \/ AllLeft(w) PROVE Still(u)
    BY <1>0, <2>2, <2>3, <2>7 DEF ReconcileExits, AllLeft, Operation
  <2>8. ASSUME (\E s \in Source : NextSource(w, s)) \/ LeaveSource(w)
        PROVE  Still(u)
    <3>1. /\ UNCHANGED <<index, active>>
          /\ \/ \E s : ops' = [ops EXCEPT ![c].left = @ \cup {s}]
             \/ ops' = ops
      BY <2>2, <2>8, Zenon DEF NextSource, LeaveSource
    <3>2. QED BY <1>0, <1>1, <2>3, <3>1 DEF Operation
  <2>9. ASSUME Relists(w), w # u PROVE Still(u)
    <3>1. index'[u] = index[u]
      BY <1>0, <2>9 DEF Relists, InspectDone, PrepareDone, ConfirmDone,
                        ChangedDone, FailureDone, FinishReady, ScanDone
    <3>2. active'[u] = active[u]
      BY <1>0, <2>9 DEF Relists, InspectDone, PrepareDone, ConfirmDone,
                        ChangedDone, FailureDone, FinishReady
    <3>3. \A p \in Ops \ {c} : ops'[p] = ops[p]
      BY <1>0, <2>2, <2>9 DEF Relists, InspectDone, PrepareDone, ConfirmDone,
                              ChangedDone, FailureDone, FinishReady
    <3>4. QED BY <2>2, <2>9, <3>1, <3>2, <3>3, OthersStill
  <2>10. QED BY <1>3, <2>4, <2>5, <2>6, <2>7, <2>8, <2>9, Zenon
             DEF Work, Relists
<1>4. CASE (\E r \in Rooms, c \in Ops : OthersReserve(r, c) \/ OthersJoin(r, c))
           \/ (\E w \in Users : Abort(w))
           \/ (\E m \in orphans : ArriveLate(m))
           \/ (\E w \in Users, r \in Rooms : MayOperate(w, r) \/ Operate(w, r))
           \/ Outside \/ UNCHANGED vars
  BY <1>1, <1>4 DEF OthersReserve, OthersJoin, Abort, ArriveLate, MayOperate,
                    Operate, Outside, acctVars, vars
<1>5. (\E w \in Users : Requests(w))
      => Still(u) \/ \E o \in Ops, r \in Rooms : Inspect(u, o, r)
  BY <1>2, Zenon DEF Requests
<1>6. ASSUME Relists(u) PROVE \E o \in Ops : run[u].op = o
  <2>1. run[u].step # "idle"
    BY <1>6 DEF Relists, InspectDone, PrepareDone, ConfirmDone, ChangedDone,
                FailureDone, FinishReady, ScanDone
  <2>2. QED BY <2>1, ServedOperation
<1>7. (\E w \in Users : Work(w))
      => Still(u) \/ \E o \in Ops : run[u].op = o /\ Relists(u)
  BY <1>3, <1>6
<1>8. QED BY <1>4, <1>5, <1>7, Zenon DEF Next

-----------------------------------------------------------------------------
\* No step loses a room.

LEMMA StillCovered ==
  ASSUME TypeOK, SwitchInv, ResultInv, AllGivenUp, [Next]_vars,
         NEW u \in Users, NEW r \in Rooms, Still(u),
         TakesPart(u, r), Listed(u, r), Known(u, r)
  PROVE  Listed(u, r)' /\ Known(u, r)'
<1>1. CASE active[u] = NoOp
  BY <1>1 DEF Still, Listed, Known
<1>2. ASSUME NEW o \in Ops, active[u] = o
      PROVE  Listed(u, r)' /\ Known(u, r)'
  <2>1. /\ index'[u] = index[u] /\ active'[u] = o
        /\ ops'[o].target = ops[o].target /\ ops'[o].gen = ops[o].gen
        /\ ops'[o].sources = ops[o].sources /\ o # NoOp
    BY <1>2, OwnerAssumption DEF Still
  <2>2. Known(u, r)'
    BY <1>2, <2>1 DEF Known, Target
  <2>3. CASE r \in index[u]
    BY <2>1, <2>2, <2>3 DEF Listed
  <2>4. CASE Target(o) = r /\ Joined(o)
    <3>1. Owner[o] = u /\ Unfinished(o)
      BY <1>2, <2>1 DEF SwitchInv, OperationOK
    <3>2. ops[o].gen # 0
      <4>1. fence[r][u].op = o
        BY <2>4, <3>1 DEF Joined, HasJoined
      <4>2. QED BY <3>1, <4>1 DEF ResultInv, FencesAreOwn
    <3>3. fence'[r][u] = fence[r][u]
      BY <2>4, <3>1, <3>2, JoinedFenceStays DEF TakesPart
    <3>4. Joined(o)'
      BY <2>1, <2>4, <3>1, <3>3 DEF Joined, HasJoined, Target
    <3>5. ops'[o].target = r
      BY <2>1, <2>4 DEF Target
    <3>6. QED BY <2>1, <2>2, <3>4, <3>5 DEF Listed, Target
  <2>5. QED BY <1>2, <2>3, <2>4 DEF Listed
<1>3. QED BY <1>1, <1>2, Rows

LEMMA NewcomerCovered ==
  ASSUME TypeOK, SwitchInv, [Next]_vars, NEW u \in Users, NEW r \in Rooms,
         ~TakesPart(u, r), TakesPart(u, r)'
  PROVE  Listed(u, r)' /\ Known(u, r)'
<1>1. PICK c \in Ops : active[u] = c /\ r = Target(c) /\ Joined(c)'
                       /\ UNCHANGED acctVars
  BY Newcomers
<1>2. active'[u] = c /\ ops'[c].target = r /\ c # NoOp
  BY <1>1, OwnerAssumption DEF acctVars, Target
<1>3. QED BY <1>1, <1>2 DEF Listed, Known, Target

LEMMA InspectCovered ==
  ASSUME TypeOK, NEW u \in Users, NEW o \in Ops, NEW q \in Rooms,
         Inspect(u, o, q), NEW r \in Rooms, Listed(u, r)
  PROVE  Listed(u, r)' /\ Known(u, r)'
<1>1. active[u] = NoOp /\ active'[u] = NoOp /\ r \in index[u]
  BY DEF Inspect, Listed
<1>2. index'[u] = index[u] \cup {q}
  BY DEF Inspect, TypeOK
<1>3. QED BY <1>1, <1>2 DEF Listed, Known

\* A room the user is in outlives the scan that writes the index anew.
LEMMA ScanKeepsRoom ==
  ASSUME TypeOK, NEW u \in Users, NEW step, NEW except,
         ScanDone(u, step, except), ScanCovers(u, except),
         NEW r \in index[u], TakesPart(u, r)
  PROVE  /\ r \in index'[u]
         /\ r = except \/ r \in Names(run[u].found)
BY ScanEnds

LEMMA PreparingCovered ==
  ASSUME TypeOK, SwitchInv, NEW u \in Users, NEW o \in Ops, run[u].op = o,
         InspectDone(u) \/ PrepareDone(u), NEW r \in Rooms,
         TakesPart(u, r), Listed(u, r)
  PROVE  Listed(u, r)' /\ Known(u, r)'
<1>1. /\ RequestOK(u)
      /\ run[u].step \in {"inspectScan", "prepareScan"}
  BY DEF SwitchInv, InspectDone, PrepareDone, ScanDone
<1>2. active[u] = NoOp /\ ScanCovers(u, run[u].target)
  BY <1>1 DEF RequestOK, Preparing
<1>3. r \in index[u]
  BY <1>2 DEF Listed
<1>4. r \in index'[u]
  BY <1>2, <1>3, ScanKeepsRoom DEF InspectDone, PrepareDone
<1>5. Known(u, r)'
  <2>1. CASE InspectDone(u)
    BY <1>2, <2>1 DEF InspectDone, Known
  <2>2. CASE PrepareDone(u)
    <3>1. active'[u] = o /\ ops'[o] = NewOp(run[u].kind, run[u].target, run[u].found)
      BY <2>2 DEF PrepareDone, TypeOK
    <3>2. ops'[o].gen = 0
      BY <3>1 DEF NewOp
    <3>3. QED BY <3>1, <3>2 DEF Known
  <2>3. QED BY <2>1, <2>2
<1>6. QED BY <1>4, <1>5 DEF Listed

LEMMA SourcesCovered ==
  ASSUME TypeOK, SwitchInv, JoinedLate, NEW u \in Users, NEW o \in Ops,
         run[u].op = o, ConfirmDone(u) \/ ChangedDone(u), NEW r \in Rooms,
         TakesPart(u, r), Listed(u, r)
  PROVE  Listed(u, r)' /\ Known(u, r)'
<1>1. run[u].step \in {"confirmScan", "changedScan"}
  BY DEF ConfirmDone, ChangedDone, ScanDone
<1>2. Owner[o] = u /\ active[u] = o /\ RequestOK(u)
  BY <1>1, Served DEF Preparing
<1>3. ScanCovers(u, Target(o)) /\ ops[o].phase \in {"confirmation", "leaving"}
  BY <1>1, <1>2 DEF RequestOK
<1>4. ~Joined(o)
  BY <1>2, <1>3 DEF JoinedLate
<1>5. r \in index[u]
  BY <1>2, <1>4 DEF Listed
<1>6. r \in index'[u] /\ (r = Target(o) \/ r \in Names(run[u].found))
  BY <1>3, <1>5, ScanKeepsRoom DEF ConfirmDone, ChangedDone, Target
<1>7. active'[u] = o
  BY <1>2 DEF ConfirmDone, ChangedDone, TypeOK
<1>8. ops'[o].target = ops[o].target /\ ops'[o].sources = run[u].found
  BY DEF ConfirmDone, ChangedDone, TypeOK, Operation
<1>9. QED BY <1>6, <1>7, <1>8 DEF Listed, Known, Target

LEMMA EndCovered ==
  ASSUME TypeOK, SwitchInv, NEW u \in Users, NEW o \in Ops, run[u].op = o,
         FailureDone(u) \/ FinishReady(u), NEW r \in Rooms,
         TakesPart(u, r), Listed(u, r)
  PROVE  Listed(u, r)' /\ Known(u, r)'
<1>1. run[u].step \in {"failureScan", "finish"}
  BY DEF FailureDone, FinishReady, ScanDone
<1>2. /\ Owner[o] = u /\ active[u] = o /\ RequestOK(u)
      /\ OperationOK(o) /\ Underway(o)
  BY <1>1, Served DEF Preparing
<1>3. active'[u] = NoOp
  BY <1>2 DEF FailureDone, FinishReady, TypeOK
<1>4. CASE FailureDone(u)
  <2>1. ScanCovers(u, NoOp) /\ Fenced(o, Target(o))
    BY <1>2, <1>4 DEF RequestOK, FailureDone, ScanDone
  <2>2. ~Joined(o)
    <3>1. ops[o].gen \in Nat
      BY Rows
    <3>2. QED BY <2>1, <3>1 DEF Joined, HasJoined, Fenced
  <2>3. r \in index[u]
    BY <1>2, <2>2 DEF Listed
  <2>4. r \in index'[u]
    BY <1>4, <2>1, <2>3, ScanKeepsRoom DEF FailureDone
  <2>5. QED BY <1>3, <2>4 DEF Listed, Known
<1>5. CASE FinishReady(u)
  <2>1. ops[o].phase = "joining"
    BY <1>2, <1>5 DEF RequestOK, FinishReady
  <2>2. r \notin ops[o].history
    BY <1>2, <2>1 DEF Underway, Away
  <2>3. r \notin ops[o].left \cup Receipted(ops[o].history, o)
    BY <1>2, <2>2 DEF OperationOK, Receipted
  <2>4. index'[u] = (index[u] \ (ops[o].left \cup Receipted(ops[o].history, o)))
                    \cup {Target(o)}
    BY <1>5 DEF FinishReady, Target, TypeOK
  <2>5. r \in index[u] \/ r = Target(o)
    BY <1>2 DEF Listed
  <2>6. QED BY <1>3, <2>3, <2>4, <2>5 DEF Listed, Known
<1>6. QED BY <1>4, <1>5

LEMMA CoveredKept ==
  ASSUME TypeOK, SwitchInv, ResultInv, AllGivenUp, Covered, [Next]_vars
  PROVE  Covered'
<1> SUFFICES ASSUME NEW u \in Users, NEW r \in Rooms, TakesPart(u, r)'
             PROVE  Listed(u, r)' /\ Known(u, r)'
  BY DEF Covered
<1>1. CASE ~TakesPart(u, r)
  BY <1>1, NewcomerCovered
<1>2. CASE TakesPart(u, r)
  <2>1. Listed(u, r) /\ Known(u, r)
    BY <1>2 DEF Covered
  <2>2. CASE Still(u)
    BY <1>2, <2>1, <2>2, StillCovered
  <2>3. ASSUME NEW o \in Ops, NEW q \in Rooms, Inspect(u, o, q)
        PROVE  Listed(u, r)' /\ Known(u, r)'
    BY <2>1, <2>3, InspectCovered
  <2>4. ASSUME NEW o \in Ops, run[u].op = o, Relists(u)
        PROVE  Listed(u, r)' /\ Known(u, r)'
    BY <1>2, <2>1, <2>4, PreparingCovered, SourcesCovered, EndCovered
       DEF Relists, ResultInv
  <2>5. QED BY <2>2, <2>3, <2>4, StillOrRelisted
<1>3. QED BY <1>1, <1>2

-----------------------------------------------------------------------------
\* The promises that need LateCallsApart.

Settled == Inv /\ ResultInv /\ AllGivenUp /\ Covered

LEMMA SettledInit == Init => Settled
<1> SUFFICES ASSUME Init PROVE Settled
  OBVIOUS
<1>1. Inv /\ ResultInv
  BY SwitchTypeInit, SwitchInit, ResultInit DEF Inv, Init
<1>2. AllGivenUp
  <2>1. \A o \in Ops : ops[o] = NoRecord
    BY DEF Init
  <2>2. ~NoRecord.failing
    BY DEF NoRecord, NewOp
  <2>3. QED BY <2>1, <2>2 DEF AllGivenUp
<1>3. Covered
  <2>1. \A u \in Users : /\ active[u] = NoOp
                         /\ index[u] = {r \in Rooms : u \in members[r]}
    BY DEF Init
  <2>2. QED BY <2>1 DEF Covered, Listed, Known, TakesPart
<1>4. QED BY <1>1, <1>2, <1>3 DEF Settled

LEMMA SettledNext ==
  Settled /\ LateCallsApart /\ [Next]_vars => Settled'
BY SwitchNext, ResultNext, GivenUpKept, CoveredKept
   DEF Settled, Inv, Kept, ResultInv

THEOREM SettledInvariant == Spec /\ []LateCallsApart => []Settled
BY SettledInit, SettledNext, PTL DEF Spec

\* As long as no join and no renewal of one operation are late together, an
\* operation that is being given up has joined its user to no open room
\* (account-do.ts, finishFailure writes the intent before it cancels).
THEOREM ResultsAreTrue == Spec /\ []LateCallsApart => []ResultIsTrue
<1>1. Settled /\ ResultStands => ResultIsTrue
  <2> SUFFICES ASSUME Settled, ResultStands, NEW o \in Ops
               PROVE  /\ ops[o].result = "ready"
                         => \/ HasJoined(ops[o].target, o, ops[o].gen)
                            \/ fence[ops[o].target][Owner[o]].gen > ops[o].gen
                      /\ ops[o].failing
                         => ~(/\ HasJoined(ops[o].target, o, ops[o].gen)
                              /\ Joinable(ops[o].target))
    BY DEF ResultIsTrue
  <2>1. ops[o].result = "ready"
        => \/ HasJoined(ops[o].target, o, ops[o].gen)
           \/ fence[ops[o].target][Owner[o]].gen > ops[o].gen
    BY DEF ResultStands, Joined, Fenced, Target
  <2>2. ASSUME ops[o].failing, HasJoined(ops[o].target, o, ops[o].gen),
               Joinable(ops[o].target)
        PROVE  FALSE
    <3>1. GivenUp(o)
      BY <2>2 DEF Settled, AllGivenUp, ResultInv, StrangersIdle
    <3>2. Lost(o)
      BY <2>2, <3>1 DEF GivenUp, Joined, Target
    <3>3. ops[o].gen \in Nat
      BY Rows DEF Settled, Inv
    <3>4. QED BY <2>2, <3>2, <3>3 DEF Lost, HasJoined, Target
  <2>3. QED BY <2>1, <2>2
<1>2. QED BY <1>1, SettledInvariant, ReportedResultsStand, PTL

\* Under the same condition the index of an account never loses a room its
\* user is in (account-do.ts, sources and finishReady).
THEOREM IndexIsComplete == Spec /\ []LateCallsApart => []IndexCoversRooms
<1>1. Settled => IndexCoversRooms
  BY DEF Settled, Covered, Listed, IndexCoversRooms, Target
<1>2. QED BY <1>1, SettledInvariant, PTL

\* Whoever is made a member takes part nowhere else.
LEMMA JoinsAlone ==
  ASSUME Settled, [Next]_vars, NEW u \in Users, NEW r \in Rooms,
         u \in members'[r], u \notin members[r],
         NEW q \in Rooms \ {r}
  PROVE  ~TakesPart(u, q)
<1>0. TypeOK /\ SwitchInv /\ Covered
  BY DEF Settled, Inv
<1>1. PICK c \in Ops : /\ Owner[c] = u /\ active[u] = c /\ r = Target(c)
                       /\ ops[c].phase = "joining" /\ ops[c].gen # 0
  BY <1>0, MembersJoin, NewcomersJoined, UsersAssumption
<1>2. OperationOK(c) /\ Underway(c) /\ c # NoOp
  BY <1>0, <1>1, OwnerAssumption DEF SwitchInv, OperationOK, Unfinished
<1>3. SUFFICES ASSUME TakesPart(u, q) PROVE FALSE
  OBVIOUS
<1>4. q \in Names(ops[c].sources)
  BY <1>0, <1>1, <1>2, <1>3 DEF Covered, Known
<1>5. q \in ops[c].history
  BY <1>2, <1>4 DEF OperationOK
<1>6. QED BY <1>1, <1>2, <1>3, <1>5 DEF Underway, Away

\* Under the same condition nobody is added to a room while taking part in
\* another (account-do.ts, commitInside leaves before it joins).
THEOREM JoinsAreExclusive == Spec /\ []LateCallsApart => JoinIsExclusive
<1> DEFINE Alone == \A u \in Users, r \in Rooms :
                      u \in members'[r] \ members[r]
                      => \A q \in Rooms \ {r} : ~TakesPart(u, q)
<1>1. Settled /\ [Next]_vars => Alone
  BY JoinsAlone
<1>2. QED BY <1>1, SettledInvariant, PTL DEF Spec, JoinIsExclusive

LEMMA GrantsStayExclusive ==
  ASSUME Settled, GrantIsExclusive, [Next]_vars
  PROVE  GrantIsExclusive'
<1>0. TypeOK /\ SwitchInv /\ Covered
  BY DEF Settled, Inv
<1> SUFFICES ASSUME NEW u \in Users, NEW r \in Rooms, NEW q \in Rooms \ {r},
                    grant'[u] = r, TakesPart(u, r)', TakesPart(u, q)'
             PROVE  FALSE
  BY DEF GrantIsExclusive
<1>1. \A x \in Rooms, y \in Rooms :
        x # y /\ ~TakesPart(u, x) /\ TakesPart(u, x)' => ~TakesPart(u, y)'
  <2> SUFFICES ASSUME NEW x \in Rooms, NEW y \in Rooms, x # y,
                      ~TakesPart(u, x), TakesPart(u, x)', TakesPart(u, y)'
               PROVE  FALSE
    OBVIOUS
  <2>1. x = Target(active[u])
    BY <1>0, Newcomers
  <2>2. TakesPart(u, y)
    BY <1>0, <2>1, Newcomers
  <2>3. Joinable(x)
    BY <1>0, NextIsLedgerStep, LedgerStepIsAnyStep, Rows, ClosedStays
       DEF TakesPart
  <2>4. u \in members'[x] /\ u \notin members[x]
    BY <2>3 DEF TakesPart
  <2>5. QED BY <2>2, <2>4, JoinsAlone
<1>2. TakesPart(u, r) /\ TakesPart(u, q)
  BY <1>1
<1>3. grant \in [Users -> Rooms \cup {NoOp}]
  BY <1>0 DEF TypeOK
<1>4. grant[u] # r
  BY <1>2 DEF GrantIsExclusive
<1>5. ASSUME NEW w \in Users, NEW p \in Rooms, MayOperate(w, p)
      PROVE  FALSE
  <2>1. w = u /\ p = r
    BY <1>3, <1>4, <1>5 DEF MayOperate
  <2>2. index[u] = {r} /\ active[u] = NoOp
    BY <1>5, <2>1 DEF MayOperate
  <2>3. q \in index[u]
    BY <1>0, <1>2, <2>2 DEF Covered, Listed
  <2>4. QED BY <2>2, <2>3
<1>6. ASSUME NEW w \in Users, NEW p \in Rooms, Operate(w, p)
      PROVE  FALSE
  BY <1>3, <1>4, <1>6, RoomsAssumption DEF Operate
<1>7. grant' # grant
  BY <1>4
<1>8. ASSUME NEW w \in Users, Requests(w) PROVE FALSE
  BY <1>7, <1>8 DEF Requests, Prepare, PrepareBehind, Inspect, Resume
<1>9. ASSUME NEW w \in Users, Work(w) PROVE FALSE
  BY <1>7, <1>9 DEF Work, PrepareDestination, ConfirmDestination, ScanRoom,
           InspectDone, PrepareDone, ConfirmDone, ChangedDone, FailureDone,
           AskSeat, ReconcileExits, NextSource, AllLeft, Admission, RenewSeat,
           LeaveSource, JoinDestination, FinishReady, CancelNext
<1>10. QED BY <1>5, <1>6, <1>7, <1>8, <1>9
           DEF Next, OthersReserve, OthersJoin, ArriveLate, Abort, Outside, vars

\* Under the same condition a permission that is still on its way never lets
\* its user work in two rooms (account-do.ts, mayOperate; room-do.ts,
\* handleClientMessage).
THEOREM GrantsAreExclusive == Spec /\ []LateCallsApart => []GrantIsExclusive
<1>1. Init => GrantIsExclusive
  BY RoomsAssumption DEF Init, GrantIsExclusive
<1>2. Settled /\ GrantIsExclusive /\ [Next]_vars => GrantIsExclusive'
  BY GrantsStayExclusive
<1>3. QED BY <1>1, <1>2, SettledInvariant, PTL DEF Spec

-----------------------------------------------------------------------------
\* With at most one dead request the condition holds by itself.

FewOrphans ==
  /\ aborts = 0 => orphans = {}
  /\ aborts <= 1 => \A m, n \in orphans : m = n

LEMMA FewOrphansNext ==
  ASSUME TypeOK, FewOrphans, [Next]_vars PROVE FewOrphans'
<1>1. aborts \in Nat
  BY UsersAssumption DEF TypeOK
<1>2. ASSUME NEW u \in Users, Abort(u) PROVE FewOrphans'
  <2>1. aborts' = aborts + 1
    BY <1>2 DEF Abort
  <2>2. orphans' = orphans \/ \E x : orphans' = orphans \cup {x}
    BY <1>2 DEF Abort
  <2>3. QED BY <1>1, <2>1, <2>2 DEF FewOrphans
<1>3. ASSUME aborts' = aborts, orphans' \subseteq orphans PROVE FewOrphans'
  BY <1>3 DEF FewOrphans
<1>4. ASSUME NEW u \in Users, Requests(u) PROVE FewOrphans'
  BY <1>3, <1>4 DEF Requests, Prepare, PrepareBehind, Inspect, Resume
<1>5. ASSUME NEW u \in Users, Work(u) PROVE FewOrphans'
  BY <1>3, <1>5 DEF Work, PrepareDestination, ConfirmDestination, ScanRoom,
           InspectDone, PrepareDone, ConfirmDone, ChangedDone, FailureDone,
           AskSeat, ReconcileExits, NextSource, AllLeft, Admission, RenewSeat,
           LeaveSource, JoinDestination, FinishReady, CancelNext
<1>6. QED BY <1>2, <1>3, <1>4, <1>5
          DEF Next, OthersReserve, OthersJoin, ArriveLate, MayOperate, Operate,
              Outside, vars

\* Where at most one request dies, every promise above holds outright.
THEOREM OneDeadRequest ==
  ASSUME MaxAborts <= 1
  PROVE  Spec => /\ [](ResultIsTrue /\ IndexCoversRooms /\ GrantIsExclusive)
                 /\ JoinIsExclusive
<1>1. Init => FewOrphans
  BY DEF Init, FewOrphans
<1>2. TypeOK /\ FewOrphans /\ [Next]_vars => FewOrphans'
  BY FewOrphansNext
<1>3. TypeOK /\ FewOrphans => LateCallsApart
  <2> SUFFICES ASSUME TypeOK, FewOrphans, NEW m \in orphans, NEW n \in orphans,
                      m.rpc = "join"
               PROVE  n.rpc \notin Renewal
    BY DEF LateCallsApart
  <2>1. aborts <= 1
    BY UsersAssumption DEF TypeOK
  <2>2. QED BY <2>1 DEF FewOrphans, Renewal
<1>4. Spec => []LateCallsApart
  BY <1>1, <1>2, <1>3, SwitchTypeCorrect, PTL DEF Spec
<1>5. QED BY <1>4, ResultsAreTrue, IndexIsComplete, JoinsAreExclusive,
             GrantsAreExclusive, PTL
=============================================================================
