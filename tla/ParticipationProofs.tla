------------------------ MODULE ParticipationProofs ------------------------
(***************************************************************************)
(* Theorems about Participation, for any number of rooms, people, seats    *)
(* and operations, any number of dead requests and any delay of the calls  *)
(* they leave behind.                                                      *)
(*                                                                         *)
(* SwitchInv says where every operation, every request being served and    *)
(* every orphaned call stands.  Its core is that a finished operation is   *)
(* fenced off wherever it has been, so that only the operation which holds *)
(* the account can still change where its user is.                         *)
(***************************************************************************)
EXTENDS Participation, RoomLedgerProofs, TLAPS

-----------------------------------------------------------------------------
\* The invariant.

\* No open room r has the user of operation o among its members.
Away(o, r) == ~TakesPart(Owner[o], r)

\* Room r has turned to a later generation than that of operation o.
Fenced(o, r) == fence[r][Owner[o]].gen > ops[o].gen

Target(o) == ops[o].target
Joined(o) == HasJoined(Target(o), o, ops[o].gen)

\* What is kept of an operation nobody has prepared yet.
Unprepared(o) ==
  /\ ops[o].gen = 0 /\ ~ops[o].failing /\ ops[o].result = "none"
  /\ ops[o].history = {} /\ ops[o].left = {} /\ ops[o].sources = {}

\* Where the user of an operation that is under way still may be.
Underway(o) ==
  /\ ops[o].result = "none"
  /\ ops[o].gen # 0 => ops[o].gen = gen[Owner[o]]
  /\ ops[o].phase \in {"leaving", "joining"} => ops[o].gen # 0
  /\ \A r \in ops[o].history :
       Away(o, r) \/ /\ r \in index[Owner[o]]
                     /\ o \notin receipts[r] /\ r \notin ops[o].left
                     /\ ops[o].gen # 0 => r \in Names(ops[o].sources)
                     /\ ops[o].phase # "joining"

\* What a reported result leaves behind.
Reported(o) ==
  /\ ops[o].result = "ready" =>
       /\ ~ops[o].failing
       /\ Joined(o) \/ Fenced(o, Target(o))
       /\ \A r \in ops[o].history : Away(o, r) \/ Fenced(o, r)
  /\ ops[o].result = "rejected" =>
       \A r \in ops[o].history \cup {Target(o)} : Fenced(o, r)
  /\ ops[o].result # "none"

OperationOK(o) ==
  /\ Target(o) \notin ops[o].history
  /\ Names(ops[o].sources) \subseteq ops[o].history
  /\ ops[o].left \subseteq ops[o].history
  /\ \A r \in Rooms : o \in receipts[r] => r \in ops[o].history
  /\ Unfinished(o) <=> active[Owner[o]] = o
  /\ ops[o].gen <= gen[Owner[o]]
  /\ ops[o].phase = "none" => Unprepared(o)
  /\ Unfinished(o) => Underway(o)
  /\ ops[o].phase = "ready" => Reported(o)

\* A reservation row that is the seat of operation o until lease.
Keeps(row, o, lease) ==
  row.op = o /\ row.gen = ops[o].gen /\ row.expires >= lease

\* A leave under way for operation o that would be carried out finds the seat
\* at the destination held until its lease ends.
SeatWaits(o, s, lease) ==
  /\ s \in Source /\ s[1] \in ops[o].history
  /\ ops[o].gen # 0
  /\ lease <= now + LeaseTime
  /\ \/ now >= lease \/ Away(o, s[1]) \/ Fenced(o, s[1])
     \/ o \in receipts[s[1]]
     \/ Keeps(seat[Target(o)][Owner[o]], o, lease)

\* Cancelled at every source but those in todo.
FencedBut(o, todo) == \A r \in ops[o].history \ todo : Fenced(o, r)

Preparing == {"inspectScan", "prepare", "prepareScan"}

\* A scan that leaves out one room misses no other room of the index.
ScanCovers(u, except) ==
  /\ except \notin run[u].todo /\ except \notin Names(run[u].found)
  /\ \A r \in index[u] \ {except} :
       r \in run[u].todo \/ r \in Names(run[u].found) \/ ~TakesPart(u, r)

RequestOK(u) ==
  LET q == run[u]
      o == q.op
  IN /\ q.step # "idle" => o \in Ops /\ Owner[o] = u
     /\ q.step \in Preparing =>
          ops[o].phase = "none" /\ active[u] = NoOp /\ q.target \in Rooms
     /\ q.step \in Steps \ (Preparing \cup {"idle"}) => Unfinished(o)
     /\ q.step \in Steps \ (Preparing \cup {"idle"}) =>
          (ops[o].failing <=> q.step \in {"cancel", "failureScan"})
     /\ q.step \in {"destination", "confirmScan", "reserve"} =>
          ops[o].phase = "confirmation"
     /\ q.step = "reserve" => ops[o].gen # 0
     /\ q.step \in {"reconcile", "leaving", "leave", "changedScan"} =>
          ops[o].phase = "leaving"
     /\ q.step \in {"admission", "renew"} =>
          \/ ops[o].phase = "joining"
          \/ /\ ops[o].phase = "leaving"
             /\ q.source \in Source /\ q.source[1] \in ops[o].history
     /\ q.step = "leave" => SeatWaits(o, q.source, q.lease)
     /\ q.step \in {"join", "finish"} => ops[o].phase = "joining"
     /\ q.step = "finish" => Joined(o) \/ Fenced(o, Target(o))
     /\ q.step = "cancel" =>
          q.todo \subseteq ops[o].history /\ FencedBut(o, q.todo)
     /\ q.step = "failureScan" => FencedBut(o, {}) /\ Fenced(o, Target(o))
     /\ q.step \in {"inspectScan", "prepareScan"} => ScanCovers(u, q.target)
     /\ q.step \in {"confirmScan", "changedScan"} => ScanCovers(u, Target(o))
     /\ q.step = "failureScan" => ScanCovers(u, NoOp)

MessageOK(m) ==
  LET o == m.op
  IN /\ Owner[o] \in Users
     /\ ops[o].phase # "none" /\ m.gen = ops[o].gen
     /\ m.rpc \in {"reserve", "renew", "join"} =>
          m.room = Target(o) /\ m.gen # 0
     /\ m.rpc = "join" => ops[o].phase \in {"joining", "ready"}
     /\ m.rpc = "leave" =>
          m.room = m.source[1] /\ SeatWaits(o, m.source, m.lease)
     /\ m.rpc = "cancel" =>
          /\ ops[o].failing
          /\ m.room \in ops[o].history \cup {Target(o)}
          /\ m.room = Target(o) => FencedBut(o, {})

\* An operation that has its generation is the newest of its user.
NewestIsActive ==
  \A o, p \in Ops :
    o # p /\ Owner[o] = Owner[p] /\ Unfinished(o) /\ ops[o].gen # 0
    => ops[p].gen < ops[o].gen

SwitchInv ==
  /\ SeatsFollowFences
  /\ NewestIsActive
  /\ \A o \in Ops : Owner[o] \in Users => OperationOK(o)
  /\ \A o \in Ops : Owner[o] \notin Users => ops[o].phase = "none"
  /\ \A u \in Users : active[u] # NoOp => Owner[active[u]] = u
  /\ \A u \in Users : RequestOK(u)
  /\ \A m \in orphans : MessageOK(m)
  /\ now <= MaxTime

Inv == TypeOK /\ SwitchInv

-----------------------------------------------------------------------------
\* What a step may do to the rooms, the accounts being as they are.
Tame ==
  /\ \A r \in Rooms, w \in People : Forward(fence[r][w], fence'[r][w])
  /\ \A r \in Rooms : receipts[r] \subseteq receipts'[r]
  /\ now \in Nat /\ now' \in Nat /\ now <= now'
  /\ \A u \in Users, r \in Rooms :
       TakesPart(u, r)' /\ ~TakesPart(u, r) =>
         /\ active[u] # NoOp /\ r = Target(active[u])
         /\ ops[active[u]].phase = "joining"
         /\ fence[r][u].gen = ops[active[u]].gen
  /\ \A o \in Ops, r \in Rooms :
       o \in receipts'[r] /\ o \notin receipts[r] =>
         /\ Owner[o] \in Users /\ ops[o].phase # "none"
         /\ r \in ops[o].history /\ ~TakesPart(Owner[o], r)'
  /\ \A o \in Ops, r \in Rooms, lease \in Nat :
       /\ Owner[o] \in Users /\ r \in ops[o].history /\ ops[o].gen # 0
       /\ lease <= now + LeaseTime /\ now' < lease
       /\ Keeps(seat[Target(o)][Owner[o]], o, lease)
       => \/ Away(o, r) \/ Fenced(o, r) \/ o \in receipts[r]
          \/ LET row == seat'[Target(o)][Owner[o]]
             IN row.op = o /\ row.gen = ops[o].gen /\ row.expires >= lease

\* What the type invariant says of the rows the lemmas look at.
LEMMA Rows ==
  ASSUME TypeOK
  PROVE  /\ LedgerTypeOK /\ now \in Nat
         /\ \A r \in Rooms, w \in People :
              fence[r][w] \in Fence /\ seat[r][w] \in Seat
         /\ \A o \in Ops : /\ ops[o] \in Operation /\ Owner[o] \in People
                           /\ Target(o) \in Rooms
                           /\ ops[o].gen \in Nat /\ ops[o].history \subseteq Rooms
                           /\ ops[o].left \subseteq Rooms
                           /\ ops[o].sources \subseteq Source
                           /\ ops[o].phase \in {"none", "confirmation",
                                "leaving", "joining", "ready"}
                           /\ ops[o].result \in {"none", "ready", "rejected"}
         /\ \A u \in Users : /\ gen[u] \in Nat /\ active[u] \in Ops \cup {NoOp}
                             /\ u \in People /\ index[u] \subseteq Rooms
<1>1. LedgerTypeOK /\ ops \in [Ops -> Operation]
  BY DEF TypeOK
<1>2. \A o \in Ops : ops[o] \in Operation /\ Owner[o] \in People
  BY <1>1, OwnerAssumption
<1>3. \A r \in Rooms, w \in People :
        fence[r][w] \in Fence /\ seat[r][w] \in Seat
  BY <1>1 DEF LedgerTypeOK
<1>4. now \in Nat
  BY <1>1 DEF LedgerTypeOK
<1>5. \A u \in Users : /\ gen[u] \in Nat /\ active[u] \in Ops \cup {NoOp}
                       /\ u \in People /\ index[u] \subseteq Rooms
  BY UsersAssumption DEF TypeOK
<1>6. QED BY <1>1, <1>2, <1>3, <1>4, <1>5 DEF Operation, Target

LEMMA TameFences ==
  ASSUME TypeOK, [AnyStep]_ledgerVars
  PROVE  /\ \A r \in Rooms, w \in People : Forward(fence[r][w], fence'[r][w])
         /\ now \in Nat /\ now' \in Nat
  BY FenceSteps, TypeNext DEF TypeOK, LedgerTypeOK

LEMMA TameStutter ==
  ASSUME TypeOK, UNCHANGED ledgerVars
  PROVE  Tame
<1>1. /\ \A r \in Rooms, w \in People : Forward(fence[r][w], fence'[r][w])
      /\ now \in Nat /\ now' \in Nat
  BY TameFences
<1>2. \A u \in Users, r \in Rooms : TakesPart(u, r)' => TakesPart(u, r)
  BY DEF ledgerVars, TakesPart, Joinable
<1>3. QED BY <1>1, <1>2 DEF Tame, ledgerVars, Keeps

LEMMA TameSurroundings ==
  ASSUME TypeOK, Surroundings
  PROVE  Tame
<1>1. /\ \A r \in Rooms, w \in People : Forward(fence[r][w], fence'[r][w])
      /\ now \in Nat /\ now' \in Nat
  BY TameFences DEF AnyStep
<1>2. fence' = fence /\ seat' = seat /\ receipts' = receipts
  BY DEF Surroundings, LeaveDirect, RemoveMember, Disband, Complete, Rename, Tick
<1>3. now <= now'
  <2>1. now' \in {now, now + 1}
    BY DEF Surroundings, LeaveDirect, RemoveMember, Disband, Complete, Rename,
           Tick
  <2>2. QED BY <1>1, <2>1
<1>4. \A u \in Users, r \in Rooms : TakesPart(u, r)' => TakesPart(u, r)
  <2> USE DEF TypeOK, LedgerTypeOK, TakesPart, Joinable
  <2>1. ASSUME NEW r \in Rooms, NEW w \in People, NEW keep \in BOOLEAN,
               TakeOut(r, w, keep)
        PROVE  \A u \in Users, q \in Rooms : TakesPart(u, q)' => TakesPart(u, q)
    BY <2>1 DEF TakeOut
  <2>2. ASSUME NEW r \in Rooms, Disband(r) \/ Complete(r) \/ Rename(r)
        PROVE  \A u \in Users, q \in Rooms : TakesPart(u, q)' => TakesPart(u, q)
    BY <2>2 DEF Disband, Complete, Rename
  <2>3. ASSUME Tick
        PROVE  \A u \in Users, q \in Rooms : TakesPart(u, q)' => TakesPart(u, q)
    BY <2>3 DEF Tick
  <2>4. QED BY <2>1, <2>2, <2>3 DEF Surroundings, LeaveDirect, RemoveMember
<1>5. QED BY <1>1, <1>2, <1>3, <1>4 DEF Tame, Keeps

\* Whose call it is: of an account, with the generation on record, or of
\* somebody whose account is not modelled.
Issued(o, g) == g = ops[o].gen \/ Owner[o] \notin Users

\* An operation that another one of the same user has overtaken is finished.
LEMMA OvertakenIsFinished ==
  ASSUME TypeOK, SwitchInv, NEW o \in Ops, Owner[o] \in Users, ops[o].gen # 0,
         NEW c \in Ops, Owner[c] = Owner[o], ops[o].gen < ops[c].gen
  PROVE  /\ Reported(o)
         /\ \A r \in ops[o].history : Away(o, r) \/ Fenced(o, r)
<1>1. OperationOK(o) /\ OperationOK(c)
  BY DEF SwitchInv
<1>2. /\ ops[o].gen \in Nat /\ ops[c].gen \in Nat /\ gen[Owner[o]] \in Nat
      /\ ops[o].phase \in {"none", "confirmation", "leaving", "joining", "ready"}
      /\ ops[o].result \in {"none", "ready", "rejected"}
  BY Rows
<1>3. ops[o].gen # gen[Owner[o]]
  BY <1>1, <1>2 DEF OperationOK
<1>4. ~Unfinished(o) /\ ops[o].phase # "none"
  BY <1>1, <1>3 DEF OperationOK, Underway, Unprepared
<1>5. Reported(o)
  BY <1>1, <1>2, <1>4 DEF OperationOK, Unfinished
<1>6. QED BY <1>2, <1>5 DEF Reported

LEMMA TameReserve ==
  ASSUME TypeOK, SwitchInv, NEW r \in Rooms, NEW c \in Ops, NEW g \in Nat,
         Reserve(r, c, g), Issued(c, g)
  PROVE  Tame
<1>1. /\ \A q \in Rooms, w \in People : Forward(fence[q][w], fence'[q][w])
      /\ now \in Nat /\ now' \in Nat
  BY TameFences DEF AnyStep, AnyCalls
<1>2. receipts' = receipts /\ now' = now
  BY DEF Reserve
<1>3. \A u \in Users, q \in Rooms : TakesPart(u, q)' => TakesPart(u, q)
  BY DEF Reserve, TakesPart, Joinable
<1>4. ASSUME NEW o \in Ops, NEW q \in Rooms, NEW lease \in Nat,
             Owner[o] \in Users, q \in ops[o].history, ops[o].gen # 0,
             lease <= now + LeaseTime, now' < lease,
             Keeps(seat[Target(o)][Owner[o]], o, lease)
      PROVE  \/ Away(o, q) \/ Fenced(o, q)
             \/ LET row == seat'[Target(o)][Owner[o]]
                IN row.op = o /\ row.gen = ops[o].gen /\ row.expires >= lease
  <2>1. /\ Target(o) \in Rooms /\ Owner[o] \in People /\ ops[o].gen \in Nat
        /\ seat[Target(o)][Owner[o]] \in Seat
        /\ fence[Target(o)][Owner[o]] \in Fence
        /\ Owner[c] \in People /\ ops[c].gen \in Nat
        /\ seat \in [Rooms -> [People -> Seat]]
    BY Rows DEF LedgerTypeOK
  <2>2. Live(seat[Target(o)][Owner[o]])
    <3>1. seat[Target(o)][Owner[o]].op = o
      BY <1>4 DEF Keeps
    <3>2. seat[Target(o)][Owner[o]].expires \in Nat
      BY <2>1 DEF Seat
    <3>3. seat[Target(o)][Owner[o]].expires >= lease /\ now < lease
      BY <1>2, <1>4 DEF Keeps
    <3>4. seat[Target(o)][Owner[o]].expires > now
      BY <1>1, <3>2, <3>3
    <3>5. o # NoOp
      BY OwnerAssumption
    <3>6. QED BY <3>1, <3>4, <3>5 DEF Live
  <2>3. CASE seat'[Target(o)][Owner[o]] = seat[Target(o)][Owner[o]]
    BY <1>4, <2>3 DEF Keeps
  <2>4. CASE seat'[Target(o)][Owner[o]] # seat[Target(o)][Owner[o]]
    <3>1. /\ Target(o) = r /\ Owner[c] = Owner[o]
          /\ ReserveReply(r, c, g) = "ok"
          /\ seat'[Target(o)][Owner[o]] =
               [op |-> c, gen |-> g, expires |-> now + LeaseTime]
      BY <2>1, <2>2, <2>4 DEF Reserve
    <3>2. g = ops[c].gen
      BY <1>4, <3>1 DEF Issued
    <3>3. CASE c = o
      BY <1>1, <1>4, <3>1, <3>2, <3>3
    <3>4. CASE c # o
      <4>1. LET f == fence[r][Owner[o]]
            IN /\ ~(f.gen > g) /\ ~(f.gen = g /\ f.op # c)
               /\ f.gen > ops[o].gen \/ (f.gen = ops[o].gen /\ f.op = o)
               /\ f.gen \in Nat
        <5>1. /\ ~(fence[r][Owner[o]].gen > g)
              /\ ~(fence[r][Owner[o]].gen = g /\ fence[r][Owner[o]].op # c)
          BY <3>1 DEF ReserveReply
        <5>2. seat[r][Owner[o]].op = o /\ seat[r][Owner[o]].gen = ops[o].gen
          BY <1>4, <3>1 DEF Keeps
        <5>3. o # NoOp
          BY OwnerAssumption
        <5>4. \/ fence[r][Owner[o]].gen > ops[o].gen
              \/ /\ fence[r][Owner[o]].gen = ops[o].gen
                 /\ fence[r][Owner[o]].op = o
          BY <2>1, <5>2, <5>3 DEF SwitchInv, SeatsFollowFences
        <5>5. fence[r][Owner[o]].gen \in Nat
          BY <2>1, <3>1 DEF Fence
        <5>6. QED BY <5>1, <5>4, <5>5
      <4>2. ops[o].gen < g
        <5>1. \A a, b, d \in Nat : ~(a > b) /\ a > d => d < b
          OBVIOUS
        <5>2. \A a, b \in Nat : ~(a > b) /\ a # b => a < b
          OBVIOUS
        <5>3. QED BY <2>1, <3>4, <4>1, <5>1, <5>2
      <4>3. QED BY <1>4, <3>1, <3>2, <4>2, OvertakenIsFinished
    <3>5. QED BY <3>3, <3>4
  <2>5. QED BY <2>3, <2>4
<1>5. QED BY <1>1, <1>2, <1>3, <1>4 DEF Tame

\* Only the operation that holds the account can join its user, and only in
\* the room it is bound for.
LEMMA JoinIsActive ==
  ASSUME TypeOK, SwitchInv, NEW r \in Rooms, NEW c \in Ops, Owner[c] \in Users,
         ops[c].phase \in {"joining", "ready"}, r = Target(c),
         Joins(r, c, ops[c].gen)
  PROVE  /\ active[Owner[c]] = c /\ ops[c].phase = "joining"
         /\ ops[c].gen # 0
         /\ fence[r][Owner[c]].gen = ops[c].gen
<1>1. OperationOK(c)
  BY DEF SwitchInv
<1>2. /\ fence[r][Owner[c]].gen = ops[c].gen /\ fence[r][Owner[c]].op = c
      /\ ~fence[r][Owner[c]].joined
  BY DEF Joins, CommitReply
<1>3. ops[c].gen \in Nat
  BY Rows
<1>4. ~Fenced(c, r)
  BY <1>2, <1>3 DEF Fenced
<1>5. ~Joined(c)
  BY <1>2 DEF Joined, HasJoined
<1>6. ops[c].phase # "ready"
  <2>1. ops[c].result \in {"none", "ready", "rejected"}
    BY Rows
  <2>2. ~Reported(c)
    BY <1>4, <1>5, <2>1 DEF Reported
  <2>3. QED BY <1>1, <2>2 DEF OperationOK
<1>7. QED BY <1>1, <1>2, <1>6 DEF OperationOK, Unfinished, Underway

LEMMA TameCommit ==
  ASSUME TypeOK, SwitchInv, NEW r \in Rooms, NEW c \in Ops, NEW g \in Nat,
         Commit(r, c, g),
         \/ Owner[c] \notin Users
         \/ /\ g = ops[c].gen /\ r = Target(c)
            /\ ops[c].phase \in {"joining", "ready"}
  PROVE  Tame
<1>1. CASE ~Joins(r, c, g)
  BY <1>1, TameStutter DEF Commit
<1>2. CASE Joins(r, c, g)
  <2>1. Enter(r, Owner[c])
    BY <1>2 DEF Commit
  <2>2. /\ \A q \in Rooms, w \in People : Forward(fence[q][w], fence'[q][w])
        /\ now \in Nat /\ now' \in Nat
    BY TameFences DEF AnyStep, AnyCalls
  <2>3. receipts' = receipts /\ now' = now /\ stage' = stage
    BY <2>1 DEF Enter
  <2>4. /\ members \in [Rooms -> SUBSET People] /\ Owner[c] \in People
        /\ seat \in [Rooms -> [People -> Seat]]
        /\ fence \in [Rooms -> [People -> Fence]]
    BY Rows DEF LedgerTypeOK
  <2>5. Owner[c] \in Users =>
          /\ active[Owner[c]] = c /\ ops[c].phase = "joining" /\ r = Target(c)
          /\ g = ops[c].gen /\ ops[c].gen # 0
          /\ fence[r][Owner[c]].gen = ops[c].gen
    BY <1>2, JoinIsActive
  <2>6. ASSUME NEW u \in Users, NEW q \in Rooms,
               TakesPart(u, q)', ~TakesPart(u, q)
        PROVE  /\ active[u] # NoOp /\ q = Target(active[u])
               /\ ops[active[u]].phase = "joining"
               /\ fence[q][u].gen = ops[active[u]].gen
    <3>1. q = r /\ u = Owner[c]
      BY <2>1, <2>3, <2>4, <2>6 DEF Enter, TakesPart, Joinable
    <3>2. c # NoOp
      BY OwnerAssumption
    <3>3. QED BY <2>5, <3>1, <3>2
  <2>7. ASSUME NEW o \in Ops, NEW q \in Rooms, NEW lease \in Nat,
               Owner[o] \in Users, q \in ops[o].history,
               Keeps(seat[Target(o)][Owner[o]], o, lease)
        PROVE  \/ Away(o, q)
               \/ LET row == seat'[Target(o)][Owner[o]]
                  IN row.op = o /\ row.gen = ops[o].gen /\ row.expires >= lease
    <3>1. Target(o) \in Rooms /\ Owner[o] \in People
      BY Rows
    <3>2. CASE Target(o) = r /\ Owner[o] = Owner[c]
      <4>1. seat[r][Owner[c]].op = c
        BY <1>2 DEF Joins, CommitReply
      <4>2. c = o
        BY <2>7, <3>2, <4>1 DEF Keeps
      <4>3. OperationOK(o) /\ Unfinished(o) /\ ops[o].phase = "joining"
        BY <2>5, <2>7, <4>2 DEF SwitchInv, Unfinished
      <4>4. QED BY <2>7, <4>3 DEF OperationOK, Underway
    <3>3. CASE ~(Target(o) = r /\ Owner[o] = Owner[c])
      <4>1. seat'[Target(o)][Owner[o]] = seat[Target(o)][Owner[o]]
        BY <2>1, <2>4, <3>1, <3>3 DEF Enter
      <4>2. QED BY <2>7, <4>1 DEF Keeps
    <3>4. QED BY <3>2, <3>3
  <2>8. QED BY <2>2, <2>3, <2>6, <2>7 DEF Tame
<1>3. QED BY <1>1, <1>2

LEMMA TameLeave ==
  ASSUME TypeOK, SwitchInv, NEW r \in Rooms, NEW c \in Ops, NEW g \in Nat,
         NEW lease \in Nat, NEW t \in Titles, Leave(r, c, g, lease, t),
         Owner[c] \in Users, ops[c].phase # "none", r \in ops[c].history
  PROVE  Tame
<1>1. CASE ~Exits(r, c, g, lease, t)
  BY <1>1, TameStutter DEF Leave
<1>2. CASE Exits(r, c, g, lease, t)
  <2>1. Exit(r, c)
    BY <1>2 DEF Leave
  <2>2. /\ \A q \in Rooms, w \in People : Forward(fence[q][w], fence'[q][w])
        /\ now \in Nat /\ now' \in Nat
    BY TameFences DEF AnyStep, AnyCalls
  <2>3. fence' = fence /\ seat' = seat /\ now' = now
    BY <2>1 DEF Exit
  <2>4. /\ members \in [Rooms -> SUBSET People] /\ Owner[c] \in People
        /\ receipts \in [Rooms -> SUBSET Ops] /\ stage \in [Rooms ->
             {"open", "completed", "disbanded"}]
    BY Rows DEF LedgerTypeOK
  <2>5. \A u \in Users, q \in Rooms : TakesPart(u, q)' => TakesPart(u, q)
    BY <2>1, <2>4 DEF Exit, TakeOut, TakesPart, Joinable
  <2>6. ~TakesPart(Owner[c], r)'
    BY <2>1, <2>4 DEF Exit, TakeOut, TakesPart
  <2>7. \A q \in Rooms : receipts[q] \subseteq receipts'[q]
    BY <2>1, <2>4 DEF Exit
  <2>8. \A o \in Ops, q \in Rooms :
          o \in receipts'[q] /\ o \notin receipts[q] => o = c /\ q = r
    BY <2>1, <2>4 DEF Exit
  <2>9. QED BY <2>2, <2>3, <2>5, <2>6, <2>7, <2>8 DEF Tame, Keeps
<1>3. QED BY <1>1, <1>2

LEMMA TameCancel ==
  ASSUME TypeOK, SwitchInv, NEW r \in Rooms, NEW c \in Ops, NEW g \in Nat,
         Cancel(r, c, g), Owner[c] \in Users,
         r \in ops[c].history \cup {Target(c)},
         r = Target(c) => FencedBut(c, {})
  PROVE  Tame
<1>1. /\ \A q \in Rooms, w \in People : Forward(fence[q][w], fence'[q][w])
      /\ now \in Nat /\ now' \in Nat
  BY TameFences DEF AnyStep, AnyCalls
<1>2. receipts' = receipts /\ now' = now
  BY DEF Cancel
<1>3. \A u \in Users, q \in Rooms : TakesPart(u, q)' => TakesPart(u, q)
  BY DEF Cancel, TakesPart, Joinable
<1>4. ASSUME NEW o \in Ops, NEW q \in Rooms, NEW lease \in Nat,
             Owner[o] \in Users, q \in ops[o].history,
             Keeps(seat[Target(o)][Owner[o]], o, lease)
      PROVE  \/ Fenced(o, q)
             \/ LET row == seat'[Target(o)][Owner[o]]
                IN row.op = o /\ row.gen = ops[o].gen /\ row.expires >= lease
  <2>1. Target(o) \in Rooms /\ Owner[o] \in People
    BY Rows
  <2>2. seat \in [Rooms -> [People -> Seat]] /\ Owner[c] \in People
    BY Rows DEF LedgerTypeOK
  <2>3. CASE seat'[Target(o)][Owner[o]] = seat[Target(o)][Owner[o]]
    BY <1>4, <2>3 DEF Keeps
  <2>4. CASE seat'[Target(o)][Owner[o]] # seat[Target(o)][Owner[o]]
    <3>1. Target(o) = r /\ Owner[o] = Owner[c] /\ seat[r][Owner[c]].op = c
      BY <2>1, <2>2, <2>4 DEF Cancel
    <3>2. c = o
      BY <1>4, <3>1 DEF Keeps
    <3>3. QED BY <1>4, <3>1, <3>2 DEF FencedBut
  <2>5. QED BY <2>3, <2>4
<1>5. QED BY <1>1, <1>2, <1>3, <1>4 DEF Tame

LEMMA TameArrive ==
  ASSUME TypeOK, SwitchInv, NEW m \in Message, MessageOK(m), Arrive(m)
  PROVE  Tame
<1>1. /\ m.op \in Ops /\ m.room \in Rooms /\ m.gen \in Nat /\ m.lease \in Nat
      /\ m.rpc \in Writing
  BY DEF Message
<1>2. /\ Owner[m.op] \in Users /\ ops[m.op].phase # "none"
      /\ m.gen = ops[m.op].gen
  BY DEF MessageOK
<1>3. CASE m.rpc \in {"reserve", "renew"}
  <2>1. Reserve(m.room, m.op, m.gen)
    BY <1>3 DEF Arrive
  <2>2. QED BY <1>1, <1>2, <2>1, TameReserve DEF Issued
<1>4. CASE m.rpc = "join"
  <2>1. /\ Commit(m.room, m.op, m.gen) /\ m.room = Target(m.op)
        /\ ops[m.op].phase \in {"joining", "ready"}
    BY <1>4 DEF Arrive, MessageOK
  <2>2. QED BY <1>1, <1>2, <2>1, TameCommit
<1>5. CASE m.rpc = "leave"
  <2>1. /\ Leave(m.room, m.op, m.gen, m.lease, m.source[2])
        /\ m.source \in Source /\ m.room \in ops[m.op].history
    BY <1>5 DEF Arrive, MessageOK, SeatWaits
  <2>2. m.source[2] \in Titles
    BY <2>1 DEF Source
  <2>3. QED BY <1>1, <1>2, <2>1, <2>2, TameLeave
<1>6. CASE m.rpc = "cancel"
  <2>1. /\ Cancel(m.room, m.op, m.gen)
        /\ m.room \in ops[m.op].history \cup {Target(m.op)}
        /\ m.room = Target(m.op) => FencedBut(m.op, {})
    BY <1>6 DEF Arrive, MessageOK
  <2>2. QED BY <1>1, <1>2, <2>1, TameCancel
<1>7. QED BY <1>1, <1>3, <1>4, <1>5, <1>6 DEF Writing

-----------------------------------------------------------------------------
\* What a step keeps of an operation whose record it leaves alone.

LEMMA FencedStays ==
  ASSUME TypeOK, TypeOK', Tame, NEW r \in Rooms, NEW w \in People, NEW g \in Nat,
         fence[r][w].gen > g
  PROVE  fence'[r][w].gen > g
<1>1. fence[r][w].gen \in Nat /\ fence'[r][w].gen \in Nat
  BY DEF TypeOK, LedgerTypeOK, Fence
<1>2. fence'[r][w].gen > fence[r][w].gen \/ fence'[r][w].gen = fence[r][w].gen
  BY DEF Tame, Forward
<1>3. \A a, b, c \in Nat : (a > b \/ a = b) /\ b > c => a > c
  OBVIOUS
<1>4. QED BY <1>1, <1>2, <1>3

\* Whoever has left a room where an operation was stays away from it until
\* the operation is over, and a later one fences it off.
LEMMA AwayStays ==
  ASSUME TypeOK, TypeOK', SwitchInv, Tame, NEW o \in Ops, Owner[o] \in Users,
         NEW r \in ops[o].history, Away(o, r)
  PROVE  \/ ~TakesPart(Owner[o], r)'
         \/ ~Unfinished(o) /\ fence'[r][Owner[o]].gen > ops[o].gen
<1> DEFINE u == Owner[o]
           c == active[u]
<1> SUFFICES ASSUME TakesPart(u, r)'
             PROVE  ~Unfinished(o) /\ fence'[r][u].gen > ops[o].gen
  OBVIOUS
<1>1. r \in Rooms /\ u \in People /\ ops[o].gen \in Nat
  BY Rows
<1>2. /\ c # NoOp /\ r = Target(c) /\ ops[c].phase = "joining"
      /\ fence[r][u].gen = ops[c].gen
  BY <1>1 DEF Tame, Away
<1>3. c \in Ops /\ Owner[c] = u
  BY <1>2, Rows DEF SwitchInv
<1>4. OperationOK(o) /\ OperationOK(c)
  BY <1>3 DEF SwitchInv
<1>5. c # o
  BY <1>2, <1>4 DEF OperationOK
<1>6. ~Unfinished(o)
  BY <1>4, <1>5 DEF OperationOK
<1>7. Unfinished(c) /\ ops[c].gen # 0
  BY <1>2, <1>4 DEF OperationOK, Unfinished, Underway
<1>8. ops[o].gen < ops[c].gen
  BY <1>3, <1>5, <1>7 DEF SwitchInv, NewestIsActive
<1>9. fence[r][u].gen > ops[o].gen
  BY <1>2, <1>8
<1>10. QED BY <1>1, <1>6, <1>9, FencedStays

LEMMA JoinedStays ==
  ASSUME TypeOK, TypeOK', Tame, NEW o \in Ops,
         Joined(o) \/ Fenced(o, Target(o))
  PROVE  LET f == fence'[Target(o)][Owner[o]]
         IN f = [gen |-> ops[o].gen, op |-> o, joined |-> TRUE]
            \/ f.gen > ops[o].gen
<1> DEFINE d == Target(o)
           u == Owner[o]
<1>1. d \in Rooms /\ u \in People /\ ops[o].gen \in Nat
  BY Rows
<1>2. CASE Fenced(o, d)
  BY <1>1, <1>2, FencedStays DEF Fenced
<1>3. CASE Joined(o)
  <2>1. fence[d][u] = [gen |-> ops[o].gen, op |-> o, joined |-> TRUE]
    BY <1>3 DEF Joined, HasJoined
  <2>2. Forward(fence[d][u], fence'[d][u])
    BY <1>1 DEF Tame
  <2>3. fence'[d][u] \in Fence
    BY <1>1 DEF TypeOK, LedgerTypeOK
  <2>4. \/ fence'[d][u].gen > ops[o].gen
        \/ /\ fence'[d][u].gen = ops[o].gen /\ fence'[d][u].op = o
           /\ fence'[d][u].joined = TRUE
    BY <2>1, <2>2, <2>3 DEF Forward, Fence
  <2>5. QED BY <2>3, <2>4 DEF Fence
<1>4. QED BY <1>2, <1>3

\* The record of an operation may go on while calls of it are under way.
Moves(o) ==
  /\ ops'[o].target = ops[o].target
  /\ ops'[o].gen = ops[o].gen \/ (ops[o].gen = 0 /\ ~ops[o].failing)
  /\ ops[o].history \subseteq ops'[o].history
  /\ ops'[o].phase # "none"
  /\ ops[o].failing => ops'[o].failing /\ ops'[o].history = ops[o].history
  /\ ops[o].phase \in {"joining", "ready"}
     => ops'[o].phase \in {"joining", "ready"}

LEMMA SeatWaitsStays ==
  ASSUME TypeOK, TypeOK', SwitchInv, Tame, NEW o \in Ops, Owner[o] \in Users,
         NEW s \in Source, NEW lease \in Nat, SeatWaits(o, s, lease), Moves(o)
  PROVE  SeatWaits(o, s, lease)'
<1> DEFINE u == Owner[o]
           r == s[1]
<1>1. /\ r \in Rooms /\ u \in People /\ Target(o) \in Rooms
      /\ ops[o].gen \in Nat /\ now \in Nat
  BY Rows DEF Source
<1>2. r \in ops[o].history /\ ops[o].gen # 0 /\ lease <= now + LeaseTime
  BY DEF SeatWaits
<1>3. /\ ops'[o].gen = ops[o].gen /\ r \in ops'[o].history
      /\ ops'[o].target = ops[o].target
  BY <1>2 DEF Moves
<1>4. now' \in Nat /\ now <= now'
  BY DEF Tame
<1>5. lease <= now' + LeaseTime
  BY <1>1, <1>2, <1>4, NumbersAssumption
<1> DEFINE Kept == \/ ~TakesPart(u, r)'
                   \/ fence'[r][u].gen > ops[o].gen
                   \/ o \in receipts'[r]
<1>6. Away(o, r) => Kept
  BY <1>2, AwayStays
<1>7. Fenced(o, r) => Kept
  BY <1>1, FencedStays DEF Fenced
<1>8. o \in receipts[r] => Kept
  BY <1>1 DEF Tame
<1>9. now >= lease => now' >= lease
  BY <1>1, <1>4
<1>10. Keeps(seat[Target(o)][u], o, lease) =>
         \/ now' >= lease \/ Kept
         \/ LET row == seat'[Target(o)][u]
            IN row.op = o /\ row.gen = ops[o].gen /\ row.expires >= lease
  <2> SUFFICES ASSUME Keeps(seat[Target(o)][u], o, lease), ~(now' >= lease)
               PROVE  \/ Kept
                      \/ LET row == seat'[Target(o)][u]
                         IN /\ row.op = o /\ row.gen = ops[o].gen
                            /\ row.expires >= lease
    OBVIOUS
  <2>1. now' < lease
    BY <1>4
  <2>2. \/ Away(o, r) \/ Fenced(o, r) \/ o \in receipts[r]
        \/ LET row == seat'[Target(o)][u]
           IN row.op = o /\ row.gen = ops[o].gen /\ row.expires >= lease
    BY <1>1, <1>2, <2>1 DEF Tame
  <2>3. QED BY <1>6, <1>7, <1>8, <2>2
<1>11. \/ now' >= lease \/ Kept
       \/ LET row == seat'[Target(o)][u]
          IN row.op = o /\ row.gen = ops[o].gen /\ row.expires >= lease
  BY <1>6, <1>7, <1>8, <1>9, <1>10 DEF SeatWaits
<1>12. QED BY <1>2, <1>3, <1>5, <1>11
              DEF SeatWaits, Away, Fenced, Keeps, Target

LEMMA MessageStays ==
  ASSUME TypeOK, TypeOK', SwitchInv, Tame, NEW m \in Message, MessageOK(m),
         Moves(m.op)
  PROVE  MessageOK(m)'
<1> DEFINE o == m.op
<1>1. o \in Ops /\ m.lease \in Nat /\ m.gen = ops[o].gen /\ Owner[o] \in Users
  BY DEF Message, MessageOK
<1>2. /\ ops[o].gen \in Nat /\ ops[o].history \subseteq Rooms
      /\ Owner[o] \in People
  BY <1>1, Rows
<1>3. m.rpc = "leave" => m.room = m.source[1] /\ SeatWaits(o, m.source, m.lease)'
  <2> SUFFICES ASSUME m.rpc = "leave"
               PROVE  m.room = m.source[1] /\ SeatWaits(o, m.source, m.lease)'
    OBVIOUS
  <2>1. m.room = m.source[1] /\ SeatWaits(o, m.source, m.lease)
    BY DEF MessageOK
  <2>2. m.source \in Source
    BY <2>1 DEF SeatWaits
  <2>3. QED BY <1>1, <2>1, <2>2, SeatWaitsStays
<1>4. m.gen = ops'[o].gen
  <2>1. m.rpc = "cancel" => ops[o].failing
    BY DEF MessageOK
  <2>2. m.rpc = "leave" => ops[o].gen # 0
    BY DEF MessageOK, SeatWaits
  <2>3. m.rpc \in {"reserve", "renew", "join"} => ops[o].gen # 0
    BY DEF MessageOK
  <2>4. m.rpc \in Writing
    BY DEF Message
  <2>5. QED BY <1>1, <2>1, <2>2, <2>3, <2>4 DEF Moves, Writing
<1>5. ASSUME m.rpc = "cancel"
      PROVE  /\ ops'[o].failing
             /\ m.room \in ops'[o].history \cup {ops'[o].target}
             /\ m.room = ops'[o].target =>
                  \A r \in ops'[o].history : fence'[r][Owner[o]].gen > ops'[o].gen
  <2>1. /\ ops[o].failing /\ m.room \in ops[o].history \cup {Target(o)}
        /\ m.room = Target(o) => FencedBut(o, {})
    BY <1>5 DEF MessageOK
  <2>2. ASSUME m.room = Target(o), NEW r \in ops[o].history
        PROVE  fence'[r][Owner[o]].gen > ops[o].gen
    <3>1. fence[r][Owner[o]].gen > ops[o].gen
      BY <2>1, <2>2 DEF FencedBut, Fenced
    <3>2. QED BY <1>2, <3>1, FencedStays
  <2>3. QED BY <1>1, <1>4, <2>1, <2>2 DEF Moves, Target
<1>6. QED BY <1>1, <1>3, <1>4, <1>5
             DEF MessageOK, Moves, Target, FencedBut, Fenced

LEMMA ReportStays ==
  ASSUME TypeOK, TypeOK', SwitchInv, Tame, NEW o \in Ops, Owner[o] \in Users,
         ops'[o] = ops[o], Reported(o)
  PROVE  Reported(o)'
<1>1. /\ Target(o) \in Rooms /\ Owner[o] \in People /\ ops[o].gen \in Nat
      /\ ops[o].history \subseteq Rooms
  BY Rows
<1>2. ASSUME ops[o].result = "ready"
      PROVE  /\ ~ops[o].failing
             /\ LET f == fence'[Target(o)][Owner[o]]
                IN f = [gen |-> ops[o].gen, op |-> o, joined |-> TRUE]
                   \/ f.gen > ops[o].gen
             /\ \A r \in ops[o].history :
                  \/ ~TakesPart(Owner[o], r)'
                  \/ fence'[r][Owner[o]].gen > ops[o].gen
  <2>1. /\ ~ops[o].failing
        /\ Joined(o) \/ Fenced(o, Target(o))
        /\ \A r \in ops[o].history : Away(o, r) \/ Fenced(o, r)
    BY <1>2 DEF Reported
  <2>2. ASSUME NEW r \in ops[o].history
        PROVE  \/ ~TakesPart(Owner[o], r)'
               \/ fence'[r][Owner[o]].gen > ops[o].gen
    <3>1. CASE Away(o, r)
      BY <3>1, AwayStays
    <3>2. CASE Fenced(o, r)
      BY <1>1, <3>2, FencedStays DEF Fenced
    <3>3. QED BY <2>1, <3>1, <3>2
  <2>3. LET f == fence'[Target(o)][Owner[o]]
        IN f = [gen |-> ops[o].gen, op |-> o, joined |-> TRUE]
           \/ f.gen > ops[o].gen
    BY <2>1, JoinedStays
  <2>4. QED BY <2>1, <2>2, <2>3
<1>3. ASSUME ops[o].result = "rejected", NEW r \in ops[o].history \cup {Target(o)}
      PROVE  fence'[r][Owner[o]].gen > ops[o].gen
  <2>1. Fenced(o, r)
    BY <1>3 DEF Reported
  <2>2. QED BY <1>1, <2>1, FencedStays DEF Fenced
<1>4. ops[o].result # "none"
  BY DEF Reported
<1>5. QED BY <1>2, <1>3, <1>4
             DEF Reported, Joined, HasJoined, Fenced, Away, Target

\* Where the user of an operation under way may be after a step.
LEMMA WhereItMayBe ==
  ASSUME TypeOK, TypeOK', SwitchInv, Tame, NEW o \in Ops, Owner[o] \in Users,
         Unfinished(o), NEW r \in ops[o].history
  PROVE  \/ ~TakesPart(Owner[o], r)'
         \/ /\ ~Away(o, r) /\ r \in index[Owner[o]]
            /\ o \notin receipts'[r] /\ r \notin ops[o].left
            /\ ops[o].gen # 0 => r \in Names(ops[o].sources)
            /\ ops[o].phase # "joining"
<1>1. CASE Away(o, r)
  BY <1>1, AwayStays
<1>2. CASE ~Away(o, r)
  <2>1. o \in receipts'[r] /\ o \notin receipts[r] => ~TakesPart(Owner[o], r)'
    BY Rows DEF Tame
  <2>2. Underway(o)
    BY DEF SwitchInv, OperationOK
  <2>3. QED BY <1>2, <2>1, <2>2 DEF Underway
<1>3. QED BY <1>1, <1>2

LEMMA UnderwayStays ==
  ASSUME TypeOK, TypeOK', SwitchInv, Tame, NEW o \in Ops, Owner[o] \in Users,
         ops'[o] = ops[o], Unfinished(o), Underway(o),
         index'[Owner[o]] = index[Owner[o]], gen'[Owner[o]] = gen[Owner[o]]
  PROVE  Underway(o)'
<1>1. ASSUME NEW r \in ops[o].history
      PROVE  \/ ~TakesPart(Owner[o], r)'
             \/ /\ r \in index[Owner[o]]
                /\ o \notin receipts'[r] /\ r \notin ops[o].left
                /\ ops[o].gen # 0 => r \in Names(ops[o].sources)
                /\ ops[o].phase # "joining"
  BY WhereItMayBe
<1>2. QED BY <1>1 DEF Underway, Away, Names

LEMMA ReceiptsStay ==
  ASSUME Tame, NEW o \in Ops,
         \A r \in Rooms : o \in receipts[r] => r \in ops[o].history
  PROVE  \A r \in Rooms : o \in receipts'[r] => r \in ops[o].history
BY DEF Tame

\* An operation whose account does nothing.
LEMMA OperationStays ==
  ASSUME TypeOK, TypeOK', SwitchInv, Tame, NEW o \in Ops, Owner[o] \in Users,
         ops'[o] = ops[o], active'[Owner[o]] = active[Owner[o]],
         index'[Owner[o]] = index[Owner[o]], gen'[Owner[o]] = gen[Owner[o]]
  PROVE  OperationOK(o)'
<1>1. OperationOK(o)
  BY DEF SwitchInv
<1>2. Unfinished(o) => Underway(o)'
  BY <1>1, UnderwayStays DEF OperationOK
<1>3. ops[o].phase = "ready" => Reported(o)'
  BY <1>1, ReportStays DEF OperationOK
<1>4. \A r \in Rooms : o \in receipts'[r] => r \in ops[o].history
  BY <1>1, ReceiptsStay DEF OperationOK
<1>5. QED BY <1>1, <1>2, <1>3, <1>4
             DEF OperationOK, Unfinished, Unprepared, Target, Names

\* An operation that is not under way, while its account goes on.
LEMMA IdleOperationStays ==
  ASSUME TypeOK, TypeOK', SwitchInv, Tame, NEW o \in Ops, Owner[o] \in Users,
         ops'[o] = ops[o], ~Unfinished(o), active'[Owner[o]] # o,
         gen[Owner[o]] <= gen'[Owner[o]]
  PROVE  OperationOK(o)'
<1>1. OperationOK(o)
  BY DEF SwitchInv
<1>2. ops[o].phase = "ready" => Reported(o)'
  BY <1>1, ReportStays DEF OperationOK
<1>3. \A r \in Rooms : o \in receipts'[r] => r \in ops[o].history
  BY <1>1, ReceiptsStay DEF OperationOK
<1>4. ops[o].gen <= gen'[Owner[o]]
  <2>1. /\ ops[o].gen \in Nat /\ gen[Owner[o]] \in Nat /\ gen'[Owner[o]] \in Nat
    BY Rows DEF TypeOK
  <2>2. ops[o].gen <= gen[Owner[o]]
    BY <1>1 DEF OperationOK
  <2>3. QED BY <2>1, <2>2
<1>5. QED BY <1>1, <1>2, <1>3, <1>4
             DEF OperationOK, Unfinished, Unprepared, Target, Names

\* A request whose account does nothing.
LEMMA RequestStays ==
  ASSUME TypeOK, TypeOK', SwitchInv, Tame, NEW u \in Users,
         run'[u] = run[u], active'[u] = active[u], index'[u] = index[u],
         \A o \in Ops : Owner[o] = u => ops'[o] = ops[o]
  PROVE  RequestOK(u)'
<1> DEFINE q == run[u]
           o == run[u].op
<1>1. RequestOK(u) /\ run[u] \in Request
  BY DEF SwitchInv, TypeOK
<1>2. CASE q.step = "idle"
  BY <1>2 DEF RequestOK, Steps, Writing, Scanning, Preparing
<1>3. CASE q.step # "idle"
  <2>1. o \in Ops /\ Owner[o] = u /\ ops'[o] = ops[o]
    BY <1>1, <1>3 DEF RequestOK
  <2>2. /\ Owner[o] \in People /\ Target(o) \in Rooms /\ ops[o].gen \in Nat
        /\ ops[o].history \subseteq Rooms
    BY <2>1, Rows
  <2>3. OperationOK(o)
    BY <2>1 DEF SwitchInv
  <2>4. q.step = "leave" => SeatWaits(o, q.source, q.lease)'
    <3> SUFFICES ASSUME q.step = "leave" PROVE SeatWaits(o, q.source, q.lease)'
      OBVIOUS
    <3>1. SeatWaits(o, q.source, q.lease) /\ Unfinished(o)
      BY <1>1 DEF RequestOK, Steps, Writing, Preparing
    <3>2. q.source \in Source /\ q.lease \in Nat
      BY <1>1, <3>1 DEF SeatWaits, Request
    <3>3. Moves(o)
      BY <2>1, <3>1 DEF Moves, Unfinished
    <3>4. \A p \in Ops, s \in Source, l \in Nat :
            p = o /\ SeatWaits(p, s, l) => SeatWaits(p, s, l)'
      BY <2>1, <3>3, SeatWaitsStays
    <3>5. \A p \in Ops, s \in Source, l \in Nat :
            p = o /\ s = q.source /\ l = q.lease => SeatWaits(p, s, l)'
      BY <3>1, <3>4
    <3>6. run'[u] = run[u]
      OBVIOUS
    <3>7. QED BY <2>1, <3>2, <3>5, <3>6
              DEF SeatWaits, Away, Fenced, Keeps, Target
  <2>5. \A r \in ops[o].history \cup {Target(o)} :
          Fenced(o, r) => fence'[r][u].gen > ops[o].gen
    BY <2>1, <2>2, FencedStays DEF Fenced
  <2>6. q.step = "finish" =>
          LET f == fence'[Target(o)][u]
          IN f = [gen |-> ops[o].gen, op |-> o, joined |-> TRUE]
             \/ f.gen > ops[o].gen
    BY <1>1, <2>1, JoinedStays DEF RequestOK
  <2>7. ASSUME NEW except, q.step \in Scanning, ScanCovers(u, except),
               \/ active[u] = NoOp
               \/ except = Target(active[u])
               \/ active[u] \in Ops /\ Fenced(active[u], Target(active[u]))
        PROVE  \A r \in index[u] \ {except} :
                 r \in q.todo \/ r \in Names(q.found) \/ ~TakesPart(u, r)'
    <3> SUFFICES ASSUME NEW r \in index[u] \ {except},
                        ~TakesPart(u, r), TakesPart(u, r)'
                 PROVE  FALSE
      BY <2>7 DEF ScanCovers
    <3>1. r \in Rooms
      BY Rows
    <3>2. /\ active[u] # NoOp /\ r = Target(active[u])
          /\ fence[r][u].gen = ops[active[u]].gen
      BY <3>1 DEF Tame
    <3>3. active[u] \in Ops /\ Owner[active[u]] = u
      BY <3>2, Rows DEF SwitchInv
    <3>4. Fenced(active[u], r)
      BY <2>7, <3>2
    <3>5. ops[active[u]].gen \in Nat
      BY <3>3, Rows
    <3>6. QED BY <3>2, <3>3, <3>4, <3>5 DEF Fenced
  <2>8. q.step \in {"inspectScan", "prepareScan"} => ScanCovers(u, q.target)'
    BY <1>1, <2>7 DEF RequestOK, ScanCovers, Scanning, Preparing, Names
  <2>9. /\ q.step \in {"confirmScan", "changedScan", "failureScan"} =>
             active[u] = o
        /\ ops'[o].target = Target(o)
    BY <1>1, <2>1, <2>3 DEF RequestOK, OperationOK, Steps, Scanning, Writing,
                            Preparing, Target
  <2>10. q.step \in {"confirmScan", "changedScan"} => ScanCovers(u, Target(o))'
    BY <1>1, <2>1, <2>7, <2>9 DEF RequestOK, ScanCovers, Scanning, Target, Names
  <2>11. q.step = "failureScan" => ScanCovers(u, NoOp)'
    BY <1>1, <2>1, <2>7, <2>9 DEF RequestOK, ScanCovers, Scanning, Names
  <2>12. q.step = "cancel" =>
           /\ q.todo \subseteq ops[o].history
           /\ \A r \in ops[o].history \ q.todo : fence'[r][u].gen > ops[o].gen
    BY <1>1, <2>5 DEF RequestOK, FencedBut
  <2>13. q.step = "failureScan" =>
           \A r \in ops[o].history \cup {Target(o)} :
             fence'[r][u].gen > ops[o].gen
    BY <1>1, <2>5 DEF RequestOK, FencedBut
  <2>14. QED
    BY <1>1, <1>3, <2>1, <2>4, <2>6, <2>8, <2>9, <2>10, <2>11, <2>12, <2>13
       DEF RequestOK, Unfinished, Target, Joined, HasJoined, Fenced, FencedBut
<1>4. QED BY <1>2, <1>3

-----------------------------------------------------------------------------
\* Every step is one of the ledger's steps, and keeps to Tame.

\* Calls with leases an account can have read.
BoundedCalls ==
  \E r \in Rooms, o \in Ops, g \in Nat :
     \/ Reserve(r, o, g)
     \/ Commit(r, o, g)
     \/ \E lease \in Leases, t \in Titles : Leave(r, o, g, lease, t)
     \/ Cancel(r, o, g)

LedgerStep == UNCHANGED ledgerVars \/ Surroundings \/ BoundedCalls

LEMMA LedgerStepIsAnyStep == LedgerStep => [AnyStep]_ledgerVars
<1> SUFFICES ASSUME BoundedCalls PROVE AnyCalls
  BY DEF LedgerStep, AnyStep
<1>1. Leases \subseteq Nat
  BY NumbersAssumption DEF Leases
<1>2. QED BY <1>1, Zenon DEF BoundedCalls, AnyCalls

LEMMA ServedOperation ==
  ASSUME TypeOK, SwitchInv, NEW u \in Users, run[u].step # "idle"
  PROVE  LET o == run[u].op
         IN /\ o \in Ops /\ Owner[o] = u /\ OperationOK(o) /\ RequestOK(u)
            /\ ops[o] \in Operation /\ Target(o) \in Rooms /\ ops[o].gen \in Nat
            /\ ops[o].history \subseteq Rooms /\ run[u] \in Request
            /\ run[u].step \notin Preparing => Unfinished(o) /\ active[u] = o
<1>1. RequestOK(u) /\ run[u] \in Request
  BY DEF SwitchInv, TypeOK
<1>2. run[u].step \in Steps
  BY <1>1 DEF Request
<1>3. run[u].op \in Ops /\ Owner[run[u].op] = u
  BY <1>1 DEF RequestOK
<1>4. OperationOK(run[u].op)
  BY <1>3 DEF SwitchInv
<1>5. run[u].step \notin Preparing => Unfinished(run[u].op)
  BY <1>1, <1>2 DEF RequestOK
<1>6. QED BY <1>1, <1>3, <1>4, <1>5, Rows DEF OperationOK

LEMMA LeaseIsBounded ==
  ASSUME TypeOK, SwitchInv, NEW o, NEW s, NEW lease \in Nat,
         SeatWaits(o, s, lease)
  PROVE  lease \in Leases
<1>1. lease <= now + LeaseTime /\ now <= MaxTime /\ now \in Nat
  BY Rows DEF SeatWaits, SwitchInv
<1>2. QED BY <1>1, NumbersAssumption DEF Leases

\* The five calls a request makes.
LEMMA CallSteps ==
  ASSUME TypeOK, SwitchInv, NEW u \in Users,
         \/ AskSeat(u) \/ RenewSeat(u) \/ LeaveSource(u)
         \/ JoinDestination(u) \/ CancelNext(u)
  PROVE  Tame /\ LedgerStep
<1> DEFINE o == run[u].op
           g == ops[run[u].op].gen
<1>1. run[u].step \in Writing
  BY DEF AskSeat, RenewSeat, LeaveSource, JoinDestination, CancelNext, Writing
<1>2. /\ o \in Ops /\ Owner[o] = u /\ OperationOK(o) /\ RequestOK(u)
      /\ Target(o) \in Rooms /\ g \in Nat /\ ops[o].history \subseteq Rooms
      /\ run[u] \in Request /\ Unfinished(o)
  BY <1>1, ServedOperation DEF Writing, Preparing
<1>3. CASE AskSeat(u) \/ RenewSeat(u)
  <2>1. Reserve(Target(o), o, g)
    BY <1>3 DEF AskSeat, RenewSeat, Target
  <2>2. Tame
    BY <1>2, <2>1, TameReserve DEF Issued
  <2>3. QED BY <1>2, <2>1, <2>2 DEF LedgerStep, BoundedCalls
<1>4. CASE JoinDestination(u)
  <2>1. Commit(Target(o), o, g) /\ ops[o].phase = "joining"
    BY <1>2, <1>4 DEF JoinDestination, Target, RequestOK
  <2>2. Tame
    BY <1>2, <2>1, TameCommit
  <2>3. QED BY <1>2, <2>1, <2>2 DEF LedgerStep, BoundedCalls
<1>5. CASE LeaveSource(u)
  <2>1. run[u].step = "leave"
    BY <1>5 DEF LeaveSource
  <2>2. Leave(run[u].source[1], o, g, run[u].lease, run[u].source[2])
    BY <1>5 DEF LeaveSource
  <2>3. SeatWaits(o, run[u].source, run[u].lease)
    BY <1>2, <2>1 DEF RequestOK
  <2>4. /\ run[u].source \in Source /\ run[u].source[1] \in ops[o].history
        /\ run[u].lease \in Nat
    BY <1>2, <2>3 DEF SeatWaits, Request
  <2>5. run[u].source[1] \in Rooms /\ run[u].source[2] \in Titles
    BY <2>4 DEF Source
  <2>6. Tame
    BY <1>2, <2>2, <2>4, <2>5, TameLeave DEF Unfinished
  <2>7. run[u].lease \in Leases
    BY <2>3, <2>4, LeaseIsBounded
  <2>8. QED BY <1>2, <2>2, <2>5, <2>6, <2>7 DEF LedgerStep, BoundedCalls
<1>6. CASE CancelNext(u)
  <2>1. PICK r \in CallTargets(u) : Cancel(r, o, g)
    BY <1>6 DEF CancelNext
  <2>2. run[u].step = "cancel"
    BY <1>6 DEF CancelNext
  <2>3. run[u].todo \subseteq ops[o].history /\ FencedBut(o, run[u].todo)
    BY <1>2, <2>2 DEF RequestOK
  <2>4. r \in ops[o].history \cup {Target(o)} /\ r \in Rooms
    BY <1>2, <2>2, <2>3 DEF CallTargets, Target
  <2>5. r = Target(o) => FencedBut(o, {})
    BY <1>2, <2>2, <2>3 DEF CallTargets, OperationOK, FencedBut
  <2>6. Tame
    BY <1>2, <2>1, <2>4, <2>5, TameCancel
  <2>7. QED BY <1>2, <2>1, <2>4, <2>6 DEF LedgerStep, BoundedCalls
<1>7. QED BY <1>3, <1>4, <1>5, <1>6

LEMMA ArrivalStep ==
  ASSUME TypeOK, SwitchInv, NEW m \in orphans, Arrive(m)
  PROVE  Tame /\ LedgerStep
<1>1. m \in Message /\ MessageOK(m)
  BY DEF TypeOK, SwitchInv
<1>2. m.op \in Ops /\ m.room \in Rooms /\ m.gen \in Nat /\ m.lease \in Nat
  BY <1>1 DEF Message
<1>3. Tame
  BY <1>1, TameArrive
<1>4. CASE m.rpc # "leave"
  BY <1>2, <1>3, <1>4 DEF Arrive, LedgerStep, BoundedCalls
<1>5. CASE m.rpc = "leave"
  <2>1. /\ Leave(m.room, m.op, m.gen, m.lease, m.source[2])
        /\ SeatWaits(m.op, m.source, m.lease)
    BY <1>1, <1>5 DEF Arrive, MessageOK
  <2>2. m.source[2] \in Titles
    BY <2>1 DEF SeatWaits, Source
  <2>3. m.lease \in Leases
    BY <1>2, <2>1, LeaseIsBounded
  <2>4. QED BY <1>2, <1>3, <2>1, <2>2, <2>3 DEF LedgerStep, BoundedCalls
<1>6. QED BY <1>4, <1>5

LEMMA NextIsLedgerStep ==
  ASSUME TypeOK, SwitchInv, [Next]_vars
  PROVE  Tame /\ LedgerStep
<1>1. CASE UNCHANGED vars
  BY <1>1, TameStutter DEF vars, LedgerStep
<1>2. ASSUME UNCHANGED ledgerVars PROVE Tame /\ LedgerStep
  BY <1>2, TameStutter DEF LedgerStep
<1>3. ASSUME NEW r \in Rooms, NEW o \in Ops, OthersReserve(r, o) \/ OthersJoin(r, o)
      PROVE  Tame /\ LedgerStep
  <2>1. Owner[o] \notin Users
    BY <1>3 DEF OthersReserve, OthersJoin
  <2>2. CASE OthersReserve(r, o)
    <3>1. Reserve(r, o, 1)
      BY <2>2 DEF OthersReserve
    <3>2. Tame
      BY <2>1, <3>1, TameReserve DEF Issued
    <3>3. QED BY <3>1, <3>2 DEF LedgerStep, BoundedCalls
  <2>3. CASE OthersJoin(r, o)
    <3>1. Commit(r, o, 1)
      BY <2>3 DEF OthersJoin
    <3>2. Tame
      BY <2>1, <3>1, TameCommit
    <3>3. QED BY <3>1, <3>2 DEF LedgerStep, BoundedCalls
  <2>4. QED BY <1>3, <2>2, <2>3
<1>4. ASSUME NEW u \in Users, Requests(u) PROVE Tame /\ LedgerStep
  <2>1. PICK o \in Ops :
          \/ \E kind \in {"join", "revisit"}, d \in Rooms : Prepare(u, o, kind, d)
          \/ PrepareBehind(u, o)
          \/ \E r \in Rooms : Inspect(u, o, r)
          \/ Resume(u, o)
    BY <1>4, Zenon DEF Requests
  <2>2. UNCHANGED ledgerVars
    BY <2>1 DEF Prepare, PrepareBehind, Inspect, Resume
  <2>3. QED BY <1>2, <2>2
<1>5. ASSUME NEW u \in Users, Work(u) PROVE Tame /\ LedgerStep
  <2>1. CASE \/ AskSeat(u) \/ RenewSeat(u) \/ LeaveSource(u)
             \/ JoinDestination(u) \/ CancelNext(u)
    BY <2>1, CallSteps
  <2>2. CASE ~(\/ AskSeat(u) \/ RenewSeat(u) \/ LeaveSource(u)
               \/ JoinDestination(u) \/ CancelNext(u))
    <3>1. UNCHANGED ledgerVars
      BY <1>5, <2>2
         DEF Work, PrepareDestination, ConfirmDestination, ScanRoom,
             InspectDone, PrepareDone, ConfirmDone, ChangedDone, FailureDone,
             ReconcileExits, NextSource, AllLeft, Admission, FinishReady
    <3>2. QED BY <1>2, <3>1
  <2>3. QED BY <2>1, <2>2
<1>6. ASSUME NEW u \in Users, Abort(u) PROVE Tame /\ LedgerStep
  BY <1>2, <1>6 DEF Abort
<1>7. ASSUME NEW m \in orphans, ArriveLate(m) PROVE Tame /\ LedgerStep
  BY <1>7, ArrivalStep DEF ArriveLate
<1>8. ASSUME NEW u \in Users, NEW r \in Rooms, MayOperate(u, r) \/ Operate(u, r)
      PROVE  Tame /\ LedgerStep
  BY <1>2, <1>8 DEF MayOperate, Operate
<1>9. ASSUME Surroundings PROVE Tame /\ LedgerStep
  BY <1>9, TameSurroundings DEF LedgerStep
<1>10. QED BY <1>1, <1>3, <1>4, <1>5, <1>6, <1>7, <1>8, <1>9 DEF Next

-----------------------------------------------------------------------------
\* Type correctness.

AccountTypeOK ==
  /\ gen \in [Users -> Nat]
  /\ active \in [Users -> Ops \cup {NoOp}]
  /\ index \in [Users -> SUBSET Rooms]
  /\ ops \in [Ops -> Operation]
  /\ alias \in [Ops -> Ops \cup {NoOp}]
  /\ run \in [Users -> Request]
  /\ orphans \subseteq Message
  /\ grant \in [Users -> Rooms \cup {NoOp}]
  /\ aborts \in 0 .. MaxAborts
  /\ events \in 0 .. MaxEvents

LEMMA SwitchTypeInit == Init => TypeOK
<1> SUFFICES ASSUME Init PROVE TypeOK
  OBVIOUS
<1>1. LedgerTypeOK
  BY TypeInit DEF Init
<1>2. NoRecord \in Operation
  <2>1. (CHOOSE d \in Rooms : TRUE) \in Rooms
    BY RoomsAssumption
  <2>2. {s[1] : s \in {}} = {}
    OBVIOUS
  <2>3. QED BY <2>1, <2>2 DEF NoRecord, NewOp, Operation
<1>3. Idle \in Request
  BY DEF Idle, Request, Steps
<1>4. QED BY <1>1, <1>2, <1>3, UsersAssumption DEF Init, TypeOK

LEMMA RequestType ==
  ASSUME NEW q \in Request
  PROVE  /\ \A st \in Steps : [q EXCEPT !.step = st] \in Request
         /\ Idle \in Request
         /\ q.step \in Steps /\ q.op \in Ops \cup {NoOp}
         /\ q.kind \in {"join", "revisit"} /\ q.target \in Rooms \cup {NoOp}
         /\ q.todo \subseteq Rooms /\ q.found \subseteq Source
         /\ q.source \in Source \cup {NoOp} /\ q.lease \in Nat
BY DEF Request, Idle, Steps

LEMMA ScanType ==
  ASSUME TypeOK, NEW u \in Users, NEW st \in Scanning, NEW except
  PROVE  Scan(u, st, except) \in Request
<1>1. run[u] \in Request /\ index[u] \subseteq Rooms
  BY DEF TypeOK
<1>2. QED BY <1>1 DEF Scan, Request, Steps

\* A record with one field written anew.
LEMMA OperationType ==
  ASSUME NEW p \in Operation
  PROVE  /\ \A x \in {"none", "confirmation", "leaving", "joining", "ready"} :
              [p EXCEPT !.phase = x] \in Operation
         /\ \A x \in SUBSET Source : [p EXCEPT !.sources = x] \in Operation
         /\ \A x \in SUBSET Rooms : [p EXCEPT !.history = x] \in Operation
         /\ \A x \in SUBSET Rooms : [p EXCEPT !.left = x] \in Operation
         /\ \A x \in Nat : [p EXCEPT !.gen = x] \in Operation
         /\ \A x \in BOOLEAN : [p EXCEPT !.failing = x] \in Operation
         /\ \A x \in {"none", "ready", "rejected"} :
              [p EXCEPT !.result = x] \in Operation
BY DEF Operation

LEMMA FailType ==
  ASSUME TypeOK, NEW u \in Users, NEW o \in Ops, Fail(u, o)
  PROVE  /\ ops' \in [Ops -> Operation] /\ run' \in [Users -> Request]
         /\ UNCHANGED <<gen, active, index, alias>>
<1>1. ops[o] \in Operation /\ ops[o].history \subseteq Rooms
  BY Rows
<1>2. [ops[o] EXCEPT !.failing = TRUE] \in Operation
  BY <1>1, OperationType
<1>3. ops' = [ops EXCEPT ![o] = [ops[o] EXCEPT !.failing = TRUE]]
  BY DEF Fail
<1>4. [Idle EXCEPT !.step = "cancel", !.op = o, !.todo = ops[o].history]
        \in Request
  BY <1>1 DEF Idle, Request, Steps, Writing
<1>5. QED BY <1>2, <1>3, <1>4 DEF Fail, Goto, TypeOK

LEMMA NamesType ==
  ASSUME NEW S \in SUBSET Source PROVE Names(S) \subseteq Rooms
BY DEF Names, Source

LEMMA RequestsType ==
  ASSUME TypeOK, SwitchInv, NEW u \in Users, NEW o \in Ops,
         \/ \E kind \in {"join", "revisit"}, d \in Rooms : Prepare(u, o, kind, d)
         \/ PrepareBehind(u, o)
         \/ \E r \in Rooms : Inspect(u, o, r)
         \/ Resume(u, o)
  PROVE  AccountTypeOK'
<1> USE DEF TypeOK, AccountTypeOK, Goto, acctVars
<1>1. ASSUME NEW kind \in {"join", "revisit"}, NEW d \in Rooms,
             Prepare(u, o, kind, d)
      PROVE  AccountTypeOK'
  <2>1. [Idle EXCEPT !.step = "prepare", !.op = o, !.kind = kind,
                     !.target = d] \in Request
    BY DEF Idle, Request, Steps
  <2>2. QED BY <1>1, <2>1 DEF Prepare
<1>2. CASE PrepareBehind(u, o)
  BY <1>2 DEF PrepareBehind
<1>3. ASSUME NEW r \in Rooms, Inspect(u, o, r) PROVE AccountTypeOK'
  <2>1. index[u] \subseteq Rooms
    OBVIOUS
  <2>2. [Idle EXCEPT !.step = "inspectScan", !.op = o, !.kind = "revisit",
                     !.target = r, !.todo = index[u] \ {r}] \in Request
    BY <2>1 DEF Idle, Request, Steps, Scanning
  <2>3. index' \in [Users -> SUBSET Rooms]
    BY <1>3, <2>1 DEF Inspect
  <2>4. QED BY <1>3, <2>2, <2>3 DEF Inspect
<1>4. CASE Resume(u, o)
  <2>1. CASE Fail(u, o)
    BY <1>4, <2>1, FailType DEF Resume
  <2>2. CASE /\ ops' = [ops EXCEPT ![o].phase = "ready",
                                   ![o].result = "rejected"]
             /\ active' = [active EXCEPT ![u] = IF @ = o THEN NoOp ELSE @]
             /\ UNCHANGED <<gen, index, alias, run>>
    <3>1. ops[o] \in Operation
      OBVIOUS
    <3>2. [[ops[o] EXCEPT !.phase = "ready"] EXCEPT !.result = "rejected"]
            \in Operation
      BY <3>1, OperationType
    <3>3. ops' = [ops EXCEPT ![o] = [[ops[o] EXCEPT !.phase = "ready"]
                                       EXCEPT !.result = "rejected"]]
      BY <2>2, <3>1
    <3>4. ops' \in [Ops -> Operation]
      BY <3>2, <3>3
    <3>5. active' \in [Users -> Ops \cup {NoOp}]
      BY <2>2
    <3>6. QED BY <1>4, <2>2, <3>4, <3>5 DEF Resume
  <2>3. CASE /\ Unfinished(o)
             /\ run' = [run EXCEPT ![u] = [Idle EXCEPT !.op = o, !.step =
                   CASE ops[o].phase = "confirmation" -> "destination"
                     [] ops[o].phase = "leaving" -> "reconcile"
                     [] ops[o].phase = "joining" -> "admission"]]
             /\ UNCHANGED acctVars
    <3>1. ops[o].phase \in {"confirmation", "leaving", "joining"}
      BY <2>3, Rows DEF Unfinished
    <3>2. [Idle EXCEPT !.op = o, !.step =
             CASE ops[o].phase = "confirmation" -> "destination"
               [] ops[o].phase = "leaving" -> "reconcile"
               [] ops[o].phase = "joining" -> "admission"] \in Request
      BY <3>1 DEF Idle, Request, Steps
    <3>3. QED BY <1>4, <2>3, <3>2 DEF Resume
  <2>4. QED BY <1>4, <2>1, <2>2, <2>3 DEF Resume
<1>5. QED BY <1>1, <1>2, <1>3, <1>4

\* The steps that end a scan.
LEMMA ScanDoneType ==
  ASSUME TypeOK, NEW u \in Users, NEW st, NEW except, ScanDone(u, st, except)
  PROVE  index' \in [Users -> SUBSET Rooms]
<1>1. run[u].found \in SUBSET Source
  BY DEF TypeOK, Request
<1>2. Names(run[u].found) \subseteq Rooms
  BY <1>1, NamesType
<1>3. QED BY <1>2 DEF ScanDone, TypeOK

LEMMA ScansType ==
  ASSUME TypeOK, SwitchInv, NEW u \in Users,
         \/ InspectDone(u) \/ PrepareDone(u) \/ ConfirmDone(u)
         \/ ChangedDone(u) \/ FailureDone(u)
  PROVE  AccountTypeOK'
<1> DEFINE o == run[u].op
<1> USE DEF TypeOK, AccountTypeOK, Goto
<1>1. /\ run[u] \in Request /\ run[u].found \in SUBSET Source
      /\ Idle \in Request
  BY DEF Request, Idle, Steps
<1>2. Names(run[u].found) \subseteq Rooms
  BY <1>1, NamesType
<1>3. CASE InspectDone(u)
  <2>1. index' \in [Users -> SUBSET Rooms]
    BY <1>3, ScanDoneType DEF InspectDone
  <2>2. [run[u] EXCEPT !.step = "prepare", !.found = {}] \in Request
    BY <1>1 DEF Request, Steps
  <2>3. QED BY <1>1, <1>3, <2>1, <2>2 DEF InspectDone
<1>4. CASE PrepareDone(u)
  <2>1. index' \in [Users -> SUBSET Rooms]
    BY <1>4, ScanDoneType DEF PrepareDone
  <2>2. run[u].step = "prepareScan"
    BY <1>4 DEF PrepareDone, ScanDone
  <2>3. o \in Ops /\ run[u].target \in Rooms
    BY <2>2, ServedOperation DEF RequestOK, Preparing
  <2>4. NewOp(run[u].kind, run[u].target, run[u].found) \in Operation
    BY <1>1, <1>2, <2>3 DEF NewOp, Operation, Names, Request
  <2>5. [Idle EXCEPT !.step = "destination", !.op = o] \in Request
    BY <2>3 DEF Idle, Request, Steps
  <2>6. QED BY <1>4, <2>1, <2>3, <2>4, <2>5 DEF PrepareDone
<1>5. CASE ConfirmDone(u)
  <2>1. index' \in [Users -> SUBSET Rooms]
    BY <1>5, ScanDoneType DEF ConfirmDone
  <2>2. run[u].step = "confirmScan"
    BY <1>5 DEF ConfirmDone, ScanDone
  <2>3. o \in Ops /\ ops[o] \in Operation /\ ops[o].history \subseteq Rooms
    BY <2>2, ServedOperation
  <2>4. gen[u] \in Nat /\ ops[o].gen \in Nat
    BY <2>3, Rows
  <2>5. PICK g \in Nat : g = IF ops[o].gen = 0 THEN gen[u] + 1 ELSE ops[o].gen
    BY <2>4
  <2>6. [[[ops[o] EXCEPT !.sources = run[u].found] EXCEPT !.history =
           ops[o].history \cup Names(run[u].found)] EXCEPT !.gen = g]
          \in Operation
    BY <1>1, <1>2, <2>3 DEF Operation
  <2>7. ops' = [ops EXCEPT ![o] =
                  [[[ops[o] EXCEPT !.sources = run[u].found] EXCEPT !.history =
                   ops[o].history \cup Names(run[u].found)] EXCEPT !.gen = g]]
    BY <1>5, <2>3, <2>5 DEF ConfirmDone
  <2>8. ops' \in [Ops -> Operation]
    BY <2>6, <2>7
  <2>9. gen' \in [Users -> Nat] /\ active' \in [Users -> Ops \cup {NoOp}]
    BY <1>5, <2>3, <2>5 DEF ConfirmDone
  <2>10. [Idle EXCEPT !.step = "reserve", !.op = o] \in Request
    BY <2>3 DEF Idle, Request, Steps, Writing
  <2>11. run' \in [Users -> Request]
    BY <1>5, <2>10 DEF ConfirmDone
  <2>12. QED BY <1>5, <2>1, <2>8, <2>9, <2>11 DEF ConfirmDone
<1>6. CASE ChangedDone(u)
  <2>1. index' \in [Users -> SUBSET Rooms]
    BY <1>6, ScanDoneType DEF ChangedDone
  <2>2. run[u].step = "changedScan"
    BY <1>6 DEF ChangedDone, ScanDone
  <2>3. o \in Ops /\ ops[o] \in Operation /\ ops[o].history \subseteq Rooms
    BY <2>2, ServedOperation
  <2>4. [[[ops[o] EXCEPT !.sources = run[u].found] EXCEPT !.history =
           ops[o].history \cup Names(run[u].found)]
           EXCEPT !.phase = "confirmation"] \in Operation
    BY <1>1, <1>2, <2>3 DEF Operation
  <2>5. ops' = [ops EXCEPT ![o] =
                  [[[ops[o] EXCEPT !.sources = run[u].found] EXCEPT !.history =
                   ops[o].history \cup Names(run[u].found)]
                   EXCEPT !.phase = "confirmation"]]
    BY <1>6, <2>3 DEF ChangedDone
  <2>6. ops' \in [Ops -> Operation]
    BY <2>4, <2>5
  <2>7. QED BY <1>1, <1>6, <2>1, <2>6 DEF ChangedDone
<1>7. CASE FailureDone(u)
  <2>1. index' \in [Users -> SUBSET Rooms]
    BY <1>7, ScanDoneType DEF FailureDone
  <2>2. run[u].step = "failureScan"
    BY <1>7 DEF FailureDone, ScanDone
  <2>3. o \in Ops /\ ops[o] \in Operation /\ gen[u] \in Nat /\ ops[o].gen \in Nat
    BY <2>2, ServedOperation, Rows
  <2>4. [[ops[o] EXCEPT !.phase = "ready"] EXCEPT !.result = "rejected"]
          \in Operation
    BY <2>3, OperationType
  <2>5. ops' = [ops EXCEPT ![o] = [[ops[o] EXCEPT !.phase = "ready"]
                                     EXCEPT !.result = "rejected"]]
    BY <1>7, <2>3 DEF FailureDone
  <2>6. ops' \in [Ops -> Operation]
    BY <2>4, <2>5
  <2>7. gen' \in [Users -> Nat] /\ active' \in [Users -> Ops \cup {NoOp}]
    BY <1>7, <2>3 DEF FailureDone
  <2>8. QED BY <1>1, <1>7, <2>1, <2>6, <2>7 DEF FailureDone
<1>8. QED BY <1>3, <1>4, <1>5, <1>6, <1>7

LEMMA StepType ==
  ASSUME TypeOK, NEW u \in Users, NEW st \in Steps
  PROVE  [run EXCEPT ![u] = [run[u] EXCEPT !.step = st]] \in [Users -> Request]
<1>1. run[u] \in Request
  BY DEF TypeOK
<1>2. [run[u] EXCEPT !.step = st] \in Request
  BY <1>1, RequestType
<1>3. QED BY <1>2 DEF TypeOK

LEMMA ChecksType ==
  ASSUME TypeOK, SwitchInv, NEW u \in Users,
         \/ PrepareDestination(u) \/ ConfirmDestination(u)
         \/ \E r \in Rooms : ScanRoom(u, r)
         \/ ReconcileExits(u) \/ \E s \in Source : NextSource(u, s)
         \/ AllLeft(u) \/ Admission(u) \/ FinishReady(u)
  PROVE  AccountTypeOK'
<1> DEFINE o == run[u].op
<1> USE DEF TypeOK, AccountTypeOK, Goto, acctVars
<1>1. run[u] \in Request /\ Idle \in Request
  BY DEF Request, Idle, Steps
<1>2. run[u].step # "idle" => /\ o \in Ops /\ ops[o] \in Operation
                              /\ ops[o].history \subseteq Rooms
                              /\ ops[o].left \subseteq Rooms
                              /\ Target(o) \in Rooms
  BY ServedOperation, Rows
<1>3. CASE PrepareDestination(u)
  <2>1. Scan(u, "prepareScan", run[u].target) \in Request
    BY ScanType DEF Scanning
  <2>2. QED BY <1>1, <1>3, <2>1 DEF PrepareDestination
<1>4. CASE ConfirmDestination(u)
  <2>1. o \in Ops
    BY <1>2, <1>4 DEF ConfirmDestination
  <2>2. CASE Fail(u, o)
    BY <1>4, <2>1, <2>2, FailType DEF ConfirmDestination
  <2>3. CASE ~Fail(u, o)
    <3>1. Scan(u, "confirmScan", ops[o].target) \in Request
      BY ScanType DEF Scanning
    <3>2. QED BY <1>4, <2>3, <3>1 DEF ConfirmDestination
  <2>4. QED BY <2>2, <2>3
<1>5. ASSUME NEW r \in Rooms, ScanRoom(u, r) PROVE AccountTypeOK'
  <2>1. title[r] \in Titles
    BY DEF LedgerTypeOK
  <2>2. <<r, title[r]>> \in Source
    BY <2>1 DEF Source
  <2>3. PICK f \in SUBSET Source :
          f = IF TakesPart(u, r) THEN run[u].found \cup {<<r, title[r]>>}
              ELSE run[u].found
    BY <1>1, <2>2 DEF Request
  <2>4. [[run[u] EXCEPT !.todo = run[u].todo \ {r}] EXCEPT !.found = f]
          \in Request
    BY <1>1 DEF Request
  <2>5. run' = [run EXCEPT ![u] =
                  [[run[u] EXCEPT !.todo = run[u].todo \ {r}] EXCEPT !.found = f]]
    BY <1>1, <1>5, <2>3 DEF ScanRoom, Request
  <2>6. run' \in [Users -> Request]
    BY <2>4, <2>5
  <2>7. QED BY <1>5, <2>6 DEF ScanRoom
<1>6. CASE ReconcileExits(u)
  <2>1. /\ o \in Ops /\ ops[o] \in Operation /\ ops[o].history \subseteq Rooms
        /\ ops[o].left \subseteq Rooms
    BY <1>2, <1>6 DEF ReconcileExits
  <2>2. ops[o].left \cup Receipted(ops[o].history, o) \subseteq Rooms
    BY <2>1 DEF Receipted
  <2>3. [ops[o] EXCEPT !.left =
           ops[o].left \cup Receipted(ops[o].history, o)] \in Operation
    BY <2>1, <2>2, OperationType
  <2>4. ops' \in [Ops -> Operation]
    BY <1>6, <2>1, <2>3 DEF ReconcileExits
  <2>5. run' \in [Users -> Request]
    BY <1>6, StepType DEF ReconcileExits, Step, Steps
  <2>6. QED BY <1>6, <2>4, <2>5 DEF ReconcileExits
<1>7. ASSUME NEW s \in Source, NextSource(u, s) PROVE AccountTypeOK'
  <2>1. o \in Ops /\ ops[o] \in Operation /\ ops[o].left \subseteq Rooms
    BY <1>2, <1>7 DEF NextSource
  <2>2. s[1] \in Rooms
    BY DEF Source
  <2>3. [ops[o] EXCEPT !.left = ops[o].left \cup {s[1]}] \in Operation
    BY <2>1, <2>2, OperationType
  <2>4. [ops EXCEPT ![o].left = @ \cup {s[1]}] \in [Ops -> Operation]
    BY <2>1, <2>3
  <2>5. ops' \in [Ops -> Operation]
    BY <1>7, <2>4 DEF NextSource
  <2>6. [[run[u] EXCEPT !.step = "admission"] EXCEPT !.source = s] \in Request
    BY <1>1 DEF Request, Steps
  <2>7. [run[u] EXCEPT !.step = "admission", !.source = s] \in Request
    BY <2>6
  <2>8. run' \in [Users -> Request]
    BY <1>1, <1>7, <2>7 DEF NextSource
  <2>9. QED BY <1>7, <2>5, <2>8 DEF NextSource
<1>8. CASE AllLeft(u)
  <2>1. o \in Ops /\ ops[o] \in Operation
    BY <1>2, <1>8 DEF AllLeft
  <2>2. [ops[o] EXCEPT !.phase = "joining"] \in Operation
    BY <2>1, OperationType
  <2>3. ops' \in [Ops -> Operation]
    BY <1>8, <2>1, <2>2 DEF AllLeft
  <2>4. run' \in [Users -> Request]
    BY <1>8, StepType DEF AllLeft, Step, Steps
  <2>5. QED BY <1>8, <2>3, <2>4 DEF AllLeft
<1>9. CASE Admission(u)
  <2>1. /\ [run[u] EXCEPT !.step = "renew"] \in Request
        /\ [run[u] EXCEPT !.step = "join"] \in Request
    BY <1>1, RequestType DEF Steps, Writing
  <2>2. run' \in [Users -> Request]
    BY <1>1, <1>9, <2>1 DEF Admission
  <2>3. QED BY <1>9, <2>2 DEF Admission
<1>10. CASE FinishReady(u)
  <2>1. /\ o \in Ops /\ ops[o] \in Operation /\ ops[o].history \subseteq Rooms
        /\ ops[o].left \subseteq Rooms /\ Target(o) \in Rooms
    BY <1>2, <1>10 DEF FinishReady
  <2>2. PICK L \in SUBSET Rooms :
          L = ops[o].left \cup Receipted(ops[o].history, o)
    BY <2>1 DEF Receipted
  <2>3. [[[[ops[o] EXCEPT !.left = L] EXCEPT !.phase = "ready"]
           EXCEPT !.failing = FALSE] EXCEPT !.result = "ready"] \in Operation
    BY <2>1 DEF Operation
  <2>4. ops' = [ops EXCEPT ![o] =
                  [[[[ops[o] EXCEPT !.left = L] EXCEPT !.phase = "ready"]
                    EXCEPT !.failing = FALSE] EXCEPT !.result = "ready"]]
    BY <1>10, <2>1, <2>2 DEF FinishReady
  <2>5. ops' \in [Ops -> Operation]
    BY <2>3, <2>4
  <2>6. /\ index' \in [Users -> SUBSET Rooms]
        /\ active' \in [Users -> Ops \cup {NoOp}]
    BY <1>10, <2>1, <2>2 DEF FinishReady, Target
  <2>7. QED BY <1>1, <1>10, <2>5, <2>6 DEF FinishReady
<1>11. QED BY <1>3, <1>4, <1>5, <1>6, <1>7, <1>8, <1>9, <1>10

LEMMA CallsType ==
  ASSUME TypeOK, SwitchInv, NEW u \in Users,
         \/ AskSeat(u) \/ RenewSeat(u) \/ LeaveSource(u)
         \/ JoinDestination(u) \/ CancelNext(u)
  PROVE  AccountTypeOK'
<1> DEFINE o == run[u].op
<1> USE DEF TypeOK, AccountTypeOK, Goto, acctVars
<1>1. run[u] \in Request /\ Idle \in Request
  BY DEF Request, Idle, Steps
<1>2. /\ o \in Ops /\ ops[o] \in Operation /\ ops[o].left \subseteq Rooms
      /\ RequestOK(u)
  <2>1. run[u].step # "idle"
    BY DEF AskSeat, RenewSeat, LeaveSource, JoinDestination, CancelNext
  <2>2. QED BY <2>1, ServedOperation, Rows
<1>3. CASE AskSeat(u)
  <2>1. CASE Fail(u, o)
    BY <1>2, <1>3, <2>1, FailType DEF AskSeat
  <2>2. CASE ~Fail(u, o)
    <3>1. [ops[o] EXCEPT !.phase = "leaving"] \in Operation
      BY <1>2, OperationType
    <3>2. ops' \in [Ops -> Operation]
      BY <1>2, <1>3, <2>2, <3>1 DEF AskSeat
    <3>3. run' \in [Users -> Request]
      <4>1. run' = [run EXCEPT ![u] = [run[u] EXCEPT !.step = "reconcile"]]
        BY <1>3, <2>2 DEF AskSeat, Step
      <4>2. "reconcile" \in Steps
        BY DEF Steps
      <4>3. QED BY <4>1, <4>2, StepType
    <3>4. QED BY <1>3, <2>2, <3>2, <3>3 DEF AskSeat
  <2>3. QED BY <2>1, <2>2
<1>4. CASE RenewSeat(u)
  <2>1. CASE Fail(u, o)
    BY <1>2, <1>4, <2>1, FailType DEF RenewSeat
  <2>2. CASE ~Fail(u, o)
    <3>1. now + LeaseTime \in Nat
      BY NumbersAssumption DEF LedgerTypeOK
    <3>2. /\ [run[u] EXCEPT !.step = "join"] \in Request
          /\ [[run[u] EXCEPT !.step = "leave"] EXCEPT !.lease = now + LeaseTime]
               \in Request
      BY <1>1, <3>1 DEF Request, Steps, Writing
    <3>3. [run[u] EXCEPT !.step = "leave", !.lease = now + LeaseTime] \in Request
      BY <3>2
    <3>4. run' \in [Users -> Request]
      BY <1>1, <1>4, <2>2, <3>2, <3>3 DEF RenewSeat
    <3>5. QED BY <1>4, <2>2, <3>4 DEF RenewSeat
  <2>3. QED BY <2>1, <2>2
<1>5. CASE LeaveSource(u)
  <2>1. run[u].source[1] \in Rooms
    <3>1. run[u].step = "leave"
      BY <1>5 DEF LeaveSource
    <3>2. run[u].source \in Source
      BY <1>2, <3>1 DEF RequestOK, SeatWaits
    <3>3. QED BY <3>2 DEF Source
  <2>2. [ops[o] EXCEPT !.left = ops[o].left \cup {run[u].source[1]}] \in Operation
    BY <1>2, <2>1, OperationType
  <2>3. ops' \in [Ops -> Operation]
    BY <1>2, <1>5, <2>2 DEF LeaveSource
  <2>4. /\ [Idle EXCEPT !.step = "leaving", !.op = o] \in Request
        /\ Scan(u, "changedScan", ops[o].target) \in Request
    BY <1>2, ScanType DEF Idle, Request, Steps, Scanning
  <2>5. run' \in [Users -> Request]
    BY <1>1, <1>5, <2>4 DEF LeaveSource
  <2>6. QED BY <1>5, <2>3, <2>5 DEF LeaveSource
<1>6. CASE JoinDestination(u)
  <2>1. [run[u] EXCEPT !.step = "finish"] \in Request
    BY <1>1, RequestType DEF Steps
  <2>2. run' \in [Users -> Request]
    BY <1>1, <1>6, <2>1 DEF JoinDestination
  <2>3. QED BY <1>6, <2>2 DEF JoinDestination
<1>7. CASE CancelNext(u)
  <2>1. Scan(u, "failureScan", NoOp) \in Request
    BY ScanType DEF Scanning
  <2>2. \A r : [run[u] EXCEPT !.todo = @ \ {r}] \in Request
    BY <1>1 DEF Request
  <2>3. run' \in [Users -> Request]
    BY <1>1, <1>7, <2>1, <2>2 DEF CancelNext
  <2>4. QED BY <1>7, <2>3 DEF CancelNext
<1>8. QED BY <1>3, <1>4, <1>5, <1>6, <1>7

LEMMA SwitchTypeNext ==
  ASSUME TypeOK, SwitchInv, [Next]_vars
  PROVE  TypeOK'
<1>1. LedgerTypeOK'
  <2>1. [AnyStep]_ledgerVars
    BY NextIsLedgerStep, LedgerStepIsAnyStep
  <2>2. QED BY <2>1, TypeNext DEF TypeOK
<1>2. AccountTypeOK
  BY DEF TypeOK, AccountTypeOK
<1>3. ASSUME UNCHANGED <<acctVars, run, orphans, grant, aborts>>,
             events' \in 0 .. MaxEvents
      PROVE  AccountTypeOK'
  BY <1>2, <1>3 DEF AccountTypeOK, acctVars
<1>4. ASSUME UNCHANGED vars PROVE AccountTypeOK'
  <2>1. UNCHANGED <<gen, active, index, ops, alias, run, orphans, grant,
                    aborts, events>>
    BY <1>4 DEF vars, acctVars
  <2>2. QED BY <1>2, <2>1 DEF AccountTypeOK
<1>5. ASSUME NEW r \in Rooms, NEW o \in Ops, OthersReserve(r, o) \/ OthersJoin(r, o)
      PROVE  AccountTypeOK'
  <2>1. events' \in 0 .. MaxEvents
    BY <1>2, <1>5, UsersAssumption DEF OthersReserve, OthersJoin, AccountTypeOK
  <2>2. QED BY <1>3, <1>5, <2>1 DEF OthersReserve, OthersJoin
<1>6. ASSUME NEW u \in Users, Requests(u) PROVE AccountTypeOK'
  <2>1. PICK o \in Ops :
          \/ \E kind \in {"join", "revisit"}, d \in Rooms : Prepare(u, o, kind, d)
          \/ PrepareBehind(u, o)
          \/ \E r \in Rooms : Inspect(u, o, r)
          \/ Resume(u, o)
    BY <1>6, Zenon DEF Requests
  <2>2. QED BY <2>1, RequestsType
<1>7. ASSUME NEW u \in Users, Work(u) PROVE AccountTypeOK'
  <2>1. CASE \/ InspectDone(u) \/ PrepareDone(u) \/ ConfirmDone(u)
             \/ ChangedDone(u) \/ FailureDone(u)
    BY <2>1, ScansType
  <2>2. CASE \/ PrepareDestination(u) \/ ConfirmDestination(u)
             \/ \E r \in Rooms : ScanRoom(u, r)
             \/ ReconcileExits(u) \/ \E s \in Source : NextSource(u, s)
             \/ AllLeft(u) \/ Admission(u) \/ FinishReady(u)
    BY <2>2, ChecksType
  <2>3. CASE \/ AskSeat(u) \/ RenewSeat(u) \/ LeaveSource(u)
             \/ JoinDestination(u) \/ CancelNext(u)
    BY <2>3, CallsType
  <2>4. QED BY <1>7, <2>1, <2>2, <2>3, Zenon DEF Work
<1>8. ASSUME NEW u \in Users, Abort(u) PROVE AccountTypeOK'
  <2>1. Idle \in Request
    BY DEF Idle, Request, Steps
  <2>2. aborts' \in 0 .. MaxAborts
    BY <1>2, <1>8, UsersAssumption DEF Abort, AccountTypeOK
  <2>3. ASSUME run[u].step \in Writing, NEW r \in CallTargets(u)
        PROVE  Call(u, r) \in Message
    <3>1. /\ run[u].op \in Ops /\ run[u] \in Request /\ RequestOK(u)
          /\ ops[run[u].op].gen \in Nat /\ ops[run[u].op].history \subseteq Rooms
          /\ Target(run[u].op) \in Rooms
      <4>1. run[u].step # "idle"
        BY <2>3 DEF Writing
      <4>2. QED BY <4>1, ServedOperation
    <3>2. r \in Rooms
      <4>1. CASE run[u].step = "leave"
        <5>1. run[u].source \in Source
          BY <3>1, <4>1 DEF RequestOK, SeatWaits
        <5>2. run[u].source[1] \in Rooms
          BY <5>1 DEF Source
        <5>3. QED BY <2>3, <4>1, <5>2 DEF CallTargets
      <4>2. CASE run[u].step # "leave"
        BY <2>3, <3>1, <4>2 DEF CallTargets, Target, Request
      <4>3. QED BY <4>1, <4>2
    <3>3. aborts \in Nat
      BY <1>2, UsersAssumption DEF AccountTypeOK
    <3>4. QED BY <2>3, <3>1, <3>2, <3>3 DEF Call, Message, Request
  <2>4. orphans' \subseteq Message
    BY <1>2, <1>8, <2>3 DEF Abort, AccountTypeOK
  <2>5. QED BY <1>2, <1>8, <2>1, <2>2, <2>4
            DEF Abort, Goto, AccountTypeOK, acctVars
<1>9. ASSUME NEW m \in orphans, ArriveLate(m) PROVE AccountTypeOK'
  BY <1>2, <1>9 DEF ArriveLate, AccountTypeOK, acctVars
<1>10. ASSUME NEW u \in Users, NEW r \in Rooms, MayOperate(u, r) \/ Operate(u, r)
       PROVE  AccountTypeOK'
  BY <1>2, <1>10 DEF MayOperate, Operate, AccountTypeOK, acctVars
<1>11. ASSUME Surroundings, Outside PROVE AccountTypeOK'
  <2>1. events' \in 0 .. MaxEvents
    BY <1>2, <1>11, UsersAssumption DEF Outside, AccountTypeOK
  <2>2. QED BY <1>3, <1>11, <2>1 DEF Outside
<1>12. AccountTypeOK'
  <2>1. (\E r \in Rooms, o \in Ops : OthersReserve(r, o) \/ OthersJoin(r, o))
        => AccountTypeOK'
    BY <1>5
  <2>2. (\E u \in Users : Requests(u) \/ Work(u) \/ Abort(u)) => AccountTypeOK'
    BY <1>6, <1>7, <1>8
  <2>3. (\E m \in orphans : ArriveLate(m)) => AccountTypeOK'
    BY <1>9
  <2>4. (\E u \in Users, r \in Rooms : MayOperate(u, r) \/ Operate(u, r))
        => AccountTypeOK'
    BY <1>10
  <2>5. QED BY <1>4, <1>11, <2>1, <2>2, <2>3, <2>4, Zenon DEF Next
<1>13. QED BY <1>1, <1>12 DEF TypeOK, AccountTypeOK

-----------------------------------------------------------------------------
\* The invariant is kept.  First what is left to show of a step that serves
\* a request of one account, or of none.

LEMMA ClockIsBounded ==
  ASSUME TypeOK, SwitchInv, LedgerStep PROVE now' <= MaxTime
<1>1. now <= MaxTime /\ now \in Nat
  BY Rows DEF SwitchInv
<1>2. ASSUME BoundedCalls PROVE now' = now
  <2>1. ASSUME NEW r, NEW o, NEW g, Reserve(r, o, g) \/ Cancel(r, o, g)
        PROVE  now' = now
    BY <2>1 DEF Reserve, Cancel
  <2>2. ASSUME NEW r, NEW o, NEW g, Commit(r, o, g) PROVE now' = now
    BY <2>2 DEF Commit, Enter, ledgerVars
  <2>3. ASSUME NEW r, NEW o, NEW g, NEW lease, NEW x, Leave(r, o, g, lease, x)
        PROVE  now' = now
    BY <2>3 DEF Leave, Exit, ledgerVars
  <2>4. QED BY <1>2, <2>1, <2>2, <2>3 DEF BoundedCalls
<1>3. ASSUME Surroundings PROVE now' = now \/ (now < MaxTime /\ now' = now + 1)
  <2>1. ASSUME NEW r \in Rooms, NEW w \in People,
               LeaveDirect(r, w) \/ RemoveMember(r, w)
        PROVE  now' = now
    BY <2>1 DEF LeaveDirect, RemoveMember
  <2>2. ASSUME NEW r \in Rooms, Disband(r) \/ Complete(r) \/ Rename(r)
        PROVE  now' = now
    BY <2>2 DEF Disband, Complete, Rename
  <2>3. ASSUME Tick PROVE now < MaxTime /\ now' = now + 1
    BY <2>3 DEF Tick
  <2>4. QED BY <1>3, <2>1, <2>2, <2>3 DEF Surroundings
<1>4. CASE now' = now
  BY <1>1, <1>4
<1>5. CASE now < MaxTime /\ now' = now + 1
  BY <1>1, <1>5, NumbersAssumption
<1>6. UNCHANGED ledgerVars => now' = now
  BY DEF ledgerVars
<1>7. QED BY <1>2, <1>3, <1>4, <1>5, <1>6 DEF LedgerStep

LEMMA LedgerPart ==
  ASSUME TypeOK, SwitchInv, LedgerStep
  PROVE  SeatsFollowFences' /\ now' <= MaxTime
<1>1. [AnyStep]_ledgerVars
  BY LedgerStepIsAnyStep
<1>2. SeatsFollowFences'
  BY <1>1, SeatsFollow DEF TypeOK, SwitchInv
<1>3. QED BY <1>2, ClockIsBounded

\* The invariant is kept, and every record goes on as it may.
Kept ==
  /\ SwitchInv'
  /\ \A o \in Ops : ops[o].phase # "none" => Moves(o)

LEMMA RoomsStep ==
  ASSUME TypeOK, TypeOK', SwitchInv, Tame, LedgerStep,
         UNCHANGED <<gen, active, index, ops, run>>, orphans' \subseteq orphans
  PROVE  Kept
<1>1. SeatsFollowFences' /\ now' <= MaxTime
  BY LedgerPart
<1>2. \A o \in Ops : Owner[o] \in Users => OperationOK(o)'
  BY OperationStays
<1>3. \A u \in Users : RequestOK(u)'
  BY RequestStays
<1>4. ASSUME NEW m \in orphans' PROVE MessageOK(m)'
  <2>1. m \in Message /\ MessageOK(m) /\ m.op \in Ops
    BY DEF TypeOK, SwitchInv, Message
  <2>2. Moves(m.op)
    BY <2>1 DEF Moves, MessageOK
  <2>3. QED BY <2>1, <2>2, MessageStays
<1>5. SwitchInv'
  BY <1>1, <1>2, <1>3, <1>4 DEF SwitchInv, NewestIsActive, Unfinished
<1>6. QED BY <1>5 DEF Kept, Moves

LEMMA AccountStep ==
  ASSUME TypeOK, TypeOK', SwitchInv, Tame, LedgerStep,
         NEW u \in Users, NEW o \in Ops, Owner[o] = u,
         \A w \in Users \ {u} : /\ run'[w] = run[w] /\ active'[w] = active[w]
                                /\ index'[w] = index[w] /\ gen'[w] = gen[w],
         \A c \in Ops \ {o} : ops'[c] = ops[c],
         active[u] \in {o, NoOp}, active'[u] \in {o, NoOp},
         gen[u] <= gen'[u],
         ops[o].phase # "none" => Moves(o),
         OperationOK(o)', RequestOK(u)',
         Unfinished(o)' => \/ Unfinished(o) /\ ops'[o].gen = ops[o].gen
                           \/ ops'[o].gen \in {0, gen[u] + 1},
         \A m \in orphans' : m \in orphans \/ MessageOK(m)'
  PROVE  Kept
<1>1. SeatsFollowFences' /\ now' <= MaxTime
  BY LedgerPart
<1>2. \A c \in Ops \ {o} : Owner[c] = u => ~Unfinished(c)
  <2>1. o # NoOp /\ \A c \in Ops : c # NoOp
    BY OwnerAssumption
  <2>2. QED BY <2>1 DEF SwitchInv, OperationOK
<1>3. ASSUME NEW c \in Ops, Owner[c] \in Users PROVE OperationOK(c)'
  <2>1. CASE c = o
    BY <2>1
  <2>2. CASE c # o /\ Owner[c] = u
    <3>1. active'[u] # c
      BY <2>2, OwnerAssumption
    <3>2. QED BY <1>2, <2>2, <3>1, IdleOperationStays
  <2>3. CASE c # o /\ Owner[c] # u
    BY <1>3, <2>3, OperationStays
  <2>4. QED BY <2>1, <2>2, <2>3
<1>4. ASSUME NEW w \in Users PROVE RequestOK(w)'
  <2>1. CASE w = u
    BY <2>1
  <2>2. CASE w # u
    BY <2>2, RequestStays
  <2>3. QED BY <2>1, <2>2
<1>5. ASSUME NEW m \in orphans' PROVE MessageOK(m)'
  <2>1. CASE m \in orphans
    <3>1. m \in Message /\ MessageOK(m) /\ m.op \in Ops
      BY <2>1 DEF TypeOK, SwitchInv, Message
    <3>2. Moves(m.op)
      BY <3>1 DEF Moves, MessageOK
    <3>3. QED BY <3>1, <3>2, MessageStays
  <2>2. QED BY <2>1
<1>6. ASSUME NEW w \in Users, active'[w] # NoOp PROVE Owner[active'[w]] = w
  BY <1>6 DEF SwitchInv
<1>7. \A c \in Ops : Owner[c] \notin Users => ops'[c].phase = "none"
  BY DEF SwitchInv
<1>8. ASSUME NEW c \in Ops, NEW p \in Ops, c # p, Owner[c] = Owner[p],
             Unfinished(c)', ops'[c].gen # 0
      PROVE  ops'[p].gen < ops'[c].gen
  <2>1. CASE c = o
    <3>1. ops'[p] = ops[p] /\ ops[p].gen \in Nat /\ gen[u] \in Nat
      BY <1>8, <2>1, Rows
    <3>2. ops[p].gen <= gen[u]
      BY <1>8, <2>1 DEF SwitchInv, OperationOK
    <3>3. CASE Unfinished(o) /\ ops'[o].gen = ops[o].gen
      BY <1>8, <2>1, <3>1, <3>3 DEF SwitchInv, NewestIsActive
    <3>4. CASE ops'[o].gen = gen[u] + 1
      BY <2>1, <3>1, <3>2, <3>4
    <3>5. QED BY <1>8, <2>1, <3>3, <3>4
  <2>2. CASE c # o
    <3>1. ops'[c] = ops[c] /\ Unfinished(c)
      BY <1>8, <2>2 DEF Unfinished
    <3>2. Owner[c] # u
      BY <1>2, <2>2, <3>1
    <3>3. p # o
      BY <1>8, <3>2
    <3>4. QED BY <1>8, <3>1, <3>3 DEF SwitchInv, NewestIsActive
  <2>3. QED BY <2>1, <2>2
<1>9. SwitchInv'
  BY <1>1, <1>3, <1>4, <1>5, <1>6, <1>7, <1>8 DEF SwitchInv, NewestIsActive
<1>10. ASSUME NEW c \in Ops, ops[c].phase # "none" PROVE Moves(c)
  <2>1. CASE c = o
    BY <1>10, <2>1
  <2>2. CASE c # o
    BY <1>10, <2>2 DEF Moves
  <2>3. QED BY <2>1, <2>2
<1>11. QED BY <1>9, <1>10 DEF Kept

-----------------------------------------------------------------------------
\* The kinds of steps an account takes.

LEMMA IdleIsOK ==
  ASSUME NEW u \in Users, run'[u].step = "idle" PROVE RequestOK(u)'
BY DEF RequestOK, Steps, Writing, Scanning, Preparing

\* Only the request goes on.
LEMMA RunStep ==
  ASSUME TypeOK, TypeOK', SwitchInv, Tame, LedgerStep, NEW u \in Users,
         UNCHANGED <<gen, active, index, ops>>,
         \A w \in Users \ {u} : run'[w] = run[w],
         \A m \in orphans' : m \in orphans \/ MessageOK(m)',
         RequestOK(u)'
  PROVE  Kept
<1>1. SeatsFollowFences' /\ now' <= MaxTime
  BY LedgerPart
<1>2. \A o \in Ops : Owner[o] \in Users => OperationOK(o)'
  BY OperationStays
<1>3. \A w \in Users : RequestOK(w)'
  <2>1. ASSUME NEW w \in Users, w # u PROVE RequestOK(w)'
    BY <2>1, RequestStays
  <2>2. QED BY <2>1
<1>4. ASSUME NEW m \in orphans' PROVE MessageOK(m)'
  <2>1. CASE m \in orphans
    <3>1. m \in Message /\ MessageOK(m) /\ m.op \in Ops
      BY <2>1 DEF TypeOK, SwitchInv, Message
    <3>2. Moves(m.op)
      BY <3>1 DEF Moves, MessageOK
    <3>3. QED BY <3>1, <3>2, MessageStays
  <2>2. QED BY <2>1
<1>5. SwitchInv'
  BY <1>1, <1>2, <1>3, <1>4 DEF SwitchInv, NewestIsActive, Unfinished
<1>6. QED BY <1>5 DEF Kept, Moves

\* The record of an operation under way goes on, with the rooms it is about.
RecordMoves(o) ==
  /\ \A c \in Ops \ {o} : ops'[c] = ops[c]
  /\ ops'[o].target = ops[o].target /\ ops'[o].result = ops[o].result
  /\ ops'[o].history = ops[o].history /\ ops'[o].sources = ops[o].sources
  /\ ops'[o].gen = ops[o].gen
  /\ ops[o].failing => ops'[o].failing
  /\ ops'[o].phase \in {"confirmation", "leaving", "joining"}
  /\ ops'[o].phase \in {"leaving", "joining"} => ops[o].gen # 0
  /\ ops[o].phase = "joining" => ops'[o].phase = "joining"
  /\ ops'[o].left \subseteq ops[o].history
  /\ \A r \in ops'[o].left \ ops[o].left : ~TakesPart(Owner[o], r)'
  /\ \/ ops'[o].phase # "joining" \/ ops[o].phase = "joining"
     \/ \A r \in ops[o].history : ~TakesPart(Owner[o], r)'

LEMMA RecordMovesOK ==
  ASSUME TypeOK, TypeOK', SwitchInv, Tame, NEW o \in Ops, Owner[o] \in Users,
         Unfinished(o), RecordMoves(o), UNCHANGED <<gen, active, index>>
  PROVE  OperationOK(o)' /\ Unfinished(o)' /\ Moves(o)
<1>1. OperationOK(o) /\ Underway(o)
  BY DEF SwitchInv, OperationOK
<1>2. Unfinished(o)' /\ ops'[o].phase # "none" /\ ops'[o].phase # "ready"
  BY DEF RecordMoves, Unfinished
<1>3. ASSUME NEW r \in ops[o].history
      PROVE  \/ ~TakesPart(Owner[o], r)'
             \/ /\ r \in index[Owner[o]]
                /\ o \notin receipts'[r] /\ r \notin ops'[o].left
                /\ ops[o].gen # 0 => r \in Names(ops[o].sources)
                /\ ops'[o].phase # "joining"
  BY WhereItMayBe DEF RecordMoves
<1>4. Underway(o)'
  BY <1>1, <1>3 DEF Underway, RecordMoves, Away, Names
<1>5. \A r \in Rooms : o \in receipts'[r] => r \in ops[o].history
  BY <1>1, ReceiptsStay DEF OperationOK
<1>6. OperationOK(o)'
  BY <1>1, <1>2, <1>4, <1>5 DEF OperationOK, RecordMoves, Target, Names
<1>7. Moves(o)
  <2>1. ops[o].phase # "ready"
    BY DEF Unfinished
  <2>2. QED BY <1>2, <2>1 DEF RecordMoves, Moves
<1>8. QED BY <1>2, <1>6, <1>7

LEMMA RecordStep ==
  ASSUME TypeOK, TypeOK', SwitchInv, Tame, LedgerStep,
         NEW o \in Ops, Owner[o] \in Users, Unfinished(o), RecordMoves(o),
         UNCHANGED <<gen, active, index>>, orphans' \subseteq orphans,
         \A w \in Users \ {Owner[o]} : run'[w] = run[w],
         RequestOK(Owner[o])'
  PROVE  Kept
<1>1. OperationOK(o)' /\ Unfinished(o)' /\ Moves(o)
  BY RecordMovesOK
<1>2. active[Owner[o]] = o
  BY DEF SwitchInv, OperationOK
<1>3. gen[Owner[o]] <= gen'[Owner[o]]
  BY Rows
<1>4. ops'[o].gen = ops[o].gen /\ \A c \in Ops \ {o} : ops'[c] = ops[c]
  BY DEF RecordMoves
<1>5. QED BY <1>1, <1>2, <1>3, <1>4, AccountStep

\* finishFailure begins.
LEMMA FailStep ==
  ASSUME TypeOK, TypeOK', SwitchInv, Tame, LedgerStep,
         NEW u \in Users, NEW o \in Ops, Owner[o] = u, Unfinished(o),
         Fail(u, o), orphans' \subseteq orphans
  PROVE  Kept
<1>1. ops[o] \in Operation /\ OperationOK(o) /\ Underway(o)
  BY Rows DEF SwitchInv, OperationOK
<1>2. /\ ops'[o] = [ops[o] EXCEPT !.failing = TRUE]
      /\ \A c \in Ops \ {o} : ops'[c] = ops[c]
      /\ UNCHANGED <<gen, active, index>>
  BY DEF TypeOK, Fail
<1>3. RecordMoves(o)
  BY <1>1, <1>2, Rows DEF RecordMoves, Operation, Unfinished, Underway, OperationOK
<1>4. /\ run'[u] = [Idle EXCEPT !.step = "cancel", !.op = o,
                                !.todo = ops[o].history]
      /\ \A w \in Users \ {u} : run'[w] = run[w]
  BY DEF TypeOK, Fail, Goto
<1>5. RequestOK(u)'
  <2>1. run'[u].step = "cancel" /\ run'[u].op = o /\ run'[u].todo = ops[o].history
    BY <1>4 DEF Idle
  <2>2. /\ ops'[o].failing /\ ops'[o].history = ops[o].history
        /\ Unfinished(o)'
    BY <1>1, <1>2 DEF Operation, Unfinished
  <2>3. QED BY <2>1, <2>2 DEF RequestOK, Steps, Writing, Scanning, Preparing,
                              FencedBut
<1>6. QED BY <1>2, <1>3, <1>4, <1>5, RecordStep

-----------------------------------------------------------------------------
\* Requests entering the gate.

LEMMA PrepareStep ==
  ASSUME TypeOK, TypeOK', SwitchInv, Tame, LedgerStep, NEW u \in Users,
         NEW o \in Ops, NEW kind \in {"join", "revisit"}, NEW d \in Rooms,
         Prepare(u, o, kind, d)
  PROVE  Kept
<1>1. /\ run'[u] = [Idle EXCEPT !.step = "prepare", !.op = o, !.kind = kind,
                                !.target = d]
      /\ \A w \in Users \ {u} : run'[w] = run[w]
      /\ UNCHANGED <<gen, active, index, ops, orphans>>
      /\ Owner[o] = u /\ ops[o].phase = "none" /\ active[u] = NoOp
  BY DEF Prepare, Goto, TypeOK, acctVars
<1>2. run'[u].step = "prepare" /\ run'[u].op = o /\ run'[u].target = d
  BY <1>1 DEF Idle
<1>3. RequestOK(u)'
  BY <1>1, <1>2 DEF RequestOK, Steps, Writing, Scanning, Preparing
<1>4. QED BY <1>1, <1>3, RunStep

LEMMA InspectStep ==
  ASSUME TypeOK, TypeOK', SwitchInv, Tame, LedgerStep, NEW u \in Users,
         NEW o \in Ops, NEW r \in Rooms, Inspect(u, o, r)
  PROVE  Kept
<1>1. /\ run'[u] = [Idle EXCEPT !.step = "inspectScan", !.op = o,
                      !.kind = "revisit", !.target = r, !.todo = index[u] \ {r}]
      /\ \A w \in Users \ {u} : run'[w] = run[w]
      /\ index'[u] = index[u] \cup {r}
      /\ \A w \in Users \ {u} : index'[w] = index[w]
      /\ UNCHANGED <<gen, active, ops, orphans>>
      /\ Owner[o] = u /\ ops[o].phase = "none" /\ active[u] = NoOp
  BY DEF Inspect, Goto, TypeOK
<1>2. /\ run'[u].step = "inspectScan" /\ run'[u].op = o /\ run'[u].target = r
      /\ run'[u].todo = index[u] \ {r} /\ run'[u].found = {}
  BY <1>1 DEF Idle
<1>3. ScanCovers(u, r)'
  BY <1>1, <1>2 DEF ScanCovers, Names
<1>4. RequestOK(u)'
  BY <1>1, <1>2, <1>3 DEF RequestOK, Steps, Writing, Scanning, Preparing,
                          ScanCovers
<1>5. ~Unfinished(o) /\ active'[u] # o /\ gen[u] <= gen'[u]
  BY <1>1, OwnerAssumption, Rows DEF Unfinished
<1>6. OperationOK(o)'
  BY <1>1, <1>5, IdleOperationStays
<1>7. ~(Unfinished(o)')
  BY <1>1 DEF Unfinished
<1>8. QED BY <1>1, <1>4, <1>5, <1>6, <1>7, AccountStep

LEMMA ResumeStep ==
  ASSUME TypeOK, TypeOK', SwitchInv, Tame, LedgerStep, NEW u \in Users,
         NEW o \in Ops, Resume(u, o)
  PROVE  Kept
<1>1. /\ Owner[o] = u /\ Unfinished(o) /\ UNCHANGED orphans
      /\ OperationOK(o) /\ Underway(o) /\ ops[o] \in Operation
  BY Rows DEF Resume, SwitchInv, OperationOK
<1>2. CASE Fail(u, o)
  BY <1>1, <1>2, FailStep
<1>3. ~(ops[o].gen # 0 /\ ops[o].gen < gen[u])
  BY <1>1, Rows DEF Underway
<1>4. CASE ~Fail(u, o)
  <2> DEFINE next == CASE ops[o].phase = "confirmation" -> "destination"
                       [] ops[o].phase = "leaving" -> "reconcile"
                       [] ops[o].phase = "joining" -> "admission"
  <2>1. /\ ~ops[o].failing
        /\ Goto(u, [Idle EXCEPT !.op = o, !.step = next])
        /\ UNCHANGED acctVars
    BY <1>3, <1>4 DEF Resume
  <2>2. /\ run'[u] = [Idle EXCEPT !.op = o, !.step = next]
        /\ \A w \in Users \ {u} : run'[w] = run[w]
        /\ UNCHANGED <<gen, active, index, ops>>
    BY <2>1 DEF Goto, TypeOK, acctVars
  <2>3. run'[u].step = next /\ run'[u].op = o
    BY <2>2 DEF Idle
  <2>4. \/ ops[o].phase = "confirmation" /\ next = "destination"
        \/ ops[o].phase = "leaving" /\ next = "reconcile"
        \/ ops[o].phase = "joining" /\ next = "admission"
    BY <1>1, Rows DEF Unfinished
  <2>5. Unfinished(o)'
    BY <1>1, <2>2 DEF Unfinished
  <2>6. RequestOK(u)'
    <3> HIDE DEF next
    <3>1. CASE ops[o].phase = "confirmation" /\ next = "destination"
      BY <1>1, <2>1, <2>2, <2>3, <2>5, <3>1
         DEF RequestOK, Steps, Writing, Scanning, Preparing
    <3>2. CASE ops[o].phase = "leaving" /\ next = "reconcile"
      BY <1>1, <2>1, <2>2, <2>3, <2>5, <3>2
         DEF RequestOK, Steps, Writing, Scanning, Preparing
    <3>3. CASE ops[o].phase = "joining" /\ next = "admission"
      BY <1>1, <2>1, <2>2, <2>3, <2>5, <3>3
         DEF RequestOK, Steps, Writing, Scanning, Preparing
    <3>4. QED BY <2>4, <3>1, <3>2, <3>3
  <2>7. QED BY <1>1, <2>2, <2>6, RunStep
<1>5. QED BY <1>2, <1>4

-----------------------------------------------------------------------------
\* The scans of sources().

\* A scan begins with every listed room to ask.
LEMMA ScanBegins ==
  ASSUME TypeOK, NEW u \in Users, NEW step, NEW except,
         run'[u] = Scan(u, step, except), index' = index
  PROVE  /\ ScanCovers(u, except)'
         /\ run'[u].step = step /\ run'[u].op = run[u].op
         /\ run'[u].target = run[u].target
<1>1. run[u] \in Request
  BY DEF TypeOK
<1>2. /\ run'[u].step = step /\ run'[u].op = run[u].op
      /\ run'[u].target = run[u].target
      /\ run'[u].todo = index[u] \ {except} /\ run'[u].found = {}
  BY <1>1 DEF Scan, Request
<1>3. \A e : e = except => ScanCovers(u, e)'
  BY <1>2 DEF ScanCovers, Names
<1>4. QED BY <1>2, <1>3 DEF ScanCovers, Names

LEMMA PrepareDestinationStep ==
  ASSUME TypeOK, TypeOK', SwitchInv, Tame, LedgerStep, NEW u \in Users,
         PrepareDestination(u)
  PROVE  Kept
<1> DEFINE d == run[u].target
<1>1. /\ run[u].step = "prepare"
      /\ run'[u] = IF Refuses(d, u, run[u].kind) THEN Idle
                   ELSE Scan(u, "prepareScan", d)
      /\ \A w \in Users \ {u} : run'[w] = run[w]
      /\ UNCHANGED <<gen, active, index, ops, orphans>>
  BY DEF PrepareDestination, Goto, TypeOK, acctVars
<1>2. CASE run'[u] = Idle
  <2>1. RequestOK(u)'
    BY <1>2, IdleIsOK DEF Idle
  <2>2. QED BY <1>1, <2>1, RunStep
<1>3. CASE run'[u] = Scan(u, "prepareScan", d)
  <2>1. /\ ScanCovers(u, d)' /\ run'[u].step = "prepareScan"
        /\ run'[u].op = run[u].op /\ run'[u].target = d
    BY <1>1, <1>3, ScanBegins
  <2>2. RequestOK(u)
    BY DEF SwitchInv
  <2>3. RequestOK(u)'
    BY <1>1, <2>1, <2>2 DEF RequestOK, Steps, Writing, Scanning, Preparing,
                            ScanCovers
  <2>4. QED BY <1>1, <2>3, RunStep
<1>4. QED BY <1>1, <1>2, <1>3

LEMMA ConfirmDestinationStep ==
  ASSUME TypeOK, TypeOK', SwitchInv, Tame, LedgerStep, NEW u \in Users,
         ConfirmDestination(u)
  PROVE  Kept
<1> DEFINE o == run[u].op
           d == ops[o].target
<1>1. run[u].step = "destination" /\ orphans' = orphans
  BY DEF ConfirmDestination
<1>2. /\ o \in Ops /\ Owner[o] = u /\ RequestOK(u) /\ Unfinished(o)
      /\ Target(o) \in Rooms
  BY <1>1, ServedOperation DEF Preparing
<1>3. CASE Fail(u, o)
  BY <1>1, <1>2, <1>3, FailStep
<1>4. CASE ~Fail(u, o)
  <2>1. Goto(u, Scan(u, "confirmScan", d)) /\ UNCHANGED acctVars
    BY <1>4 DEF ConfirmDestination
  <2>2. /\ run'[u] = Scan(u, "confirmScan", d)
        /\ \A w \in Users \ {u} : run'[w] = run[w]
        /\ UNCHANGED <<gen, active, index, ops>>
    BY <2>1 DEF Goto, TypeOK, acctVars
  <2>3. ScanCovers(u, d)' /\ run'[u].step = "confirmScan" /\ run'[u].op = o
    BY <2>2, ScanBegins
  <2>4. RequestOK(u)'
    <3>1. ScanCovers(u, Target(o))'
      BY <2>2, <2>3 DEF ScanCovers, Target
    <3>2. /\ Unfinished(o)' /\ ops'[o].phase = "confirmation"
          /\ ~ops'[o].failing
      BY <1>1, <1>2, <2>2, <2>3 DEF RequestOK, Steps, Writing, Scanning,
                                    Preparing, Unfinished
    <3>3. QED BY <1>2, <2>2, <2>3, <3>1, <3>2
              DEF RequestOK, Steps, Writing, Scanning, Preparing, ScanCovers,
                  Target
  <2>5. QED BY <1>1, <2>2, <2>4, RunStep
<1>5. QED BY <1>3, <1>4

\* One room of the scan answers.
LEMMA ScanRoomStep ==
  ASSUME TypeOK, TypeOK', SwitchInv, Tame, LedgerStep, NEW u \in Users,
         NEW r \in Rooms, ScanRoom(u, r)
  PROVE  Kept
<1> DEFINE q == run[u]
           o == run[u].op
           found == IF TakesPart(u, r) THEN q.found \cup {<<r, title[r]>>}
                    ELSE q.found
<1>1. /\ q.step \in Scanning /\ r \in q.todo
      /\ run'[u] = [q EXCEPT !.todo = @ \ {r}, !.found = found]
      /\ \A w \in Users \ {u} : run'[w] = run[w]
      /\ UNCHANGED <<gen, active, index, ops, orphans, ledgerVars>>
  BY DEF ScanRoom, Goto, TypeOK, acctVars
<1>2. q \in Request /\ RequestOK(u) /\ q.step # "idle"
  BY <1>1 DEF TypeOK, SwitchInv, Scanning
<1>3. /\ run'[u].step = q.step /\ run'[u].op = o /\ run'[u].target = q.target
      /\ run'[u].todo = q.todo \ {r} /\ run'[u].found = found
  BY <1>1, <1>2 DEF Request
<1>4. UNCHANGED <<members, stage, fence, seat, receipts, now>>
  BY <1>1 DEF ledgerVars
<1>5. ASSUME NEW except, ScanCovers(u, except)
      PROVE  /\ except \notin run'[u].todo /\ except \notin Names(run'[u].found)
             /\ \A x \in index[u] \ {except} :
                  x \in run'[u].todo \/ x \in Names(run'[u].found)
                  \/ ~TakesPart(u, x)
  <2>1. /\ except \notin q.todo /\ except \notin Names(q.found)
        /\ \A x \in index[u] \ {except} :
             x \in q.todo \/ x \in Names(q.found) \/ ~TakesPart(u, x)
    BY <1>5 DEF ScanCovers
  <2>2. Names(q.found) \subseteq Names(found)
    BY DEF Names
  <2>3. TakesPart(u, r) => r \in Names(found)
    <3>1. TakesPart(u, r) => <<r, title[r]>> \in found
      OBVIOUS
    <3>2. <<r, title[r]>>[1] = r
      OBVIOUS
    <3>3. QED BY <3>1, <3>2 DEF Names
  <2>4. \A x \in Names(found) : x \in Names(q.found) \/ x = r
    BY DEF Names
  <2>5. r # except /\ except \notin Names(found)
    BY <1>1, <2>1, <2>4
  <2>6. ASSUME NEW x \in index[u] \ {except}, TakesPart(u, x)
        PROVE  x \in run'[u].todo \/ x \in Names(run'[u].found)
    <3>1. CASE x = r
      BY <1>3, <2>3, <2>6, <3>1
    <3>2. CASE x # r
      BY <1>3, <2>1, <2>2, <2>6, <3>2
    <3>3. QED BY <3>1, <3>2
  <2>7. QED BY <1>3, <2>1, <2>5, <2>6
<1>6. \A e \in Rooms \cup {NoOp} : ScanCovers(u, e) => ScanCovers(u, e)'
  BY <1>1, <1>4, <1>5 DEF ScanCovers, TakesPart, Joinable
<1>7. ASSUME NEW e \in Rooms \cup {NoOp}, ScanCovers(u, e)
      PROVE  \A x : x = e => ScanCovers(u, x)'
  BY <1>6, <1>7
<1>8. /\ q.step \in {"inspectScan", "prepareScan"} => ScanCovers(u, q.target)'
      /\ q.step \in {"confirmScan", "changedScan"} => ScanCovers(u, Target(o))'
      /\ q.step = "failureScan" => ScanCovers(u, NoOp)'
  <2>1. q.step \in {"inspectScan", "prepareScan"} => ScanCovers(u, q.target)'
    <3>1. q.target \in Rooms \cup {NoOp}
      BY <1>2 DEF Request
    <3>2. q.step \in {"inspectScan", "prepareScan"} =>
            \A x : x = q.target => ScanCovers(u, x)'
      BY <1>2, <1>7, <3>1 DEF RequestOK
    <3>3. QED BY <1>3, <3>2 DEF ScanCovers
  <2>2. q.step \in {"confirmScan", "changedScan"} => ScanCovers(u, Target(o))'
    <3>1. Target(o) \in Rooms
      BY <1>2, Rows DEF RequestOK
    <3>2. q.step \in {"confirmScan", "changedScan"} =>
            \A x : x = Target(o) => ScanCovers(u, x)'
      BY <1>2, <1>7, <3>1 DEF RequestOK
    <3>3. QED BY <1>1, <1>3, <3>2 DEF ScanCovers, Target
  <2>3. q.step = "failureScan" => ScanCovers(u, NoOp)'
    BY <1>2, <1>6 DEF RequestOK
  <2>4. QED BY <2>1, <2>2, <2>3
<1>9. RequestOK(u)'
  BY <1>1, <1>2, <1>3, <1>4, <1>8
     DEF RequestOK, Scanning, Steps, Writing, Preparing, Unfinished, Target,
         Fenced, FencedBut, ScanCovers
<1>10. QED BY <1>1, <1>9, RunStep

\* What the end of a scan knows: every room the user takes part in is the one
\* left out, or not listed, or one of those found.
LEMMA ScanEnds ==
  ASSUME TypeOK, NEW u \in Users, NEW step, NEW except, ScanDone(u, step, except),
         ScanCovers(u, except)
  PROVE  /\ run[u].step = step
         /\ index'[u] = (index[u] \cap {except}) \cup Names(run[u].found)
         /\ \A w \in Users \ {u} : index'[w] = index[w]
         /\ except \notin Names(run[u].found)
         /\ Names(run[u].found) \subseteq Rooms
         /\ \A r \in index[u] \ {except} :
              r \in Names(run[u].found) \/ ~TakesPart(u, r)
BY NamesType DEF ScanDone, ScanCovers, TypeOK, Request

LEMMA InspectDoneStep ==
  ASSUME TypeOK, TypeOK', SwitchInv, Tame, LedgerStep, NEW u \in Users,
         NEW o \in Ops, run[u].op = o, InspectDone(u)
  PROVE  Kept
<1>1. /\ run[u].step = "inspectScan"
      /\ \A w \in Users \ {u} : run'[w] = run[w] /\ index'[w] = index[w]
      /\ UNCHANGED <<gen, active, ops, orphans>>
      /\ run'[u] = IF run[u].found = {} THEN Idle
                   ELSE [run[u] EXCEPT !.step = "prepare", !.found = {}]
  BY DEF InspectDone, ScanDone, Goto, TypeOK
<1>2. Owner[o] = u /\ RequestOK(u) /\ run[u] \in Request
  BY <1>1, ServedOperation
<1>3. /\ ops[o].phase = "none" /\ active[u] = NoOp /\ run[u].target \in Rooms
  BY <1>1, <1>2 DEF RequestOK, Preparing
<1>4. RequestOK(u)'
  <2>1. CASE run'[u] = Idle
    BY <2>1, IdleIsOK DEF Idle
  <2>2. CASE run'[u] = [run[u] EXCEPT !.step = "prepare", !.found = {}]
    <3>1. /\ run'[u].step = "prepare" /\ run'[u].op = o
          /\ run'[u].target = run[u].target
      BY <1>2, <2>2 DEF Request
    <3>2. QED BY <1>1, <1>2, <1>3, <3>1
              DEF RequestOK, Steps, Writing, Scanning, Preparing
  <2>3. QED BY <1>1, <2>1, <2>2
<1>5. /\ ~Unfinished(o) /\ ~(Unfinished(o)')
      /\ active'[u] # o /\ gen[u] <= gen'[u]
  BY <1>1, <1>2, <1>3, OwnerAssumption, Rows DEF Unfinished
<1>6. OperationOK(o)'
  BY <1>1, <1>2, <1>5, IdleOperationStays
<1>7. QED BY <1>1, <1>2, <1>3, <1>4, <1>5, <1>6, AccountStep

\* The operation is written down.
LEMMA PrepareDoneStep ==
  ASSUME TypeOK, TypeOK', SwitchInv, Tame, LedgerStep, NEW u \in Users,
         NEW o \in Ops, run[u].op = o, PrepareDone(u)
  PROVE  Kept
<1> DEFINE d == run[u].target
           found == run[u].found
<1>1. /\ run[u].step = "prepareScan"
      /\ ScanDone(u, "prepareScan", d)
      /\ \A w \in Users \ {u} : run'[w] = run[w] /\ active'[w] = active[w]
      /\ UNCHANGED <<gen, orphans>> /\ receipts' = receipts
      /\ ops' = [ops EXCEPT ![o] = NewOp(run[u].kind, d, found)]
      /\ active'[u] = o
      /\ run'[u] = [Idle EXCEPT !.step = "destination", !.op = o]
  BY DEF PrepareDone, ScanDone, Goto, TypeOK, ledgerVars
<1>2. Owner[o] = u /\ RequestOK(u) /\ run[u] \in Request /\ OperationOK(o)
  BY <1>1, ServedOperation
<1>3. /\ ops[o].phase = "none" /\ active[u] = NoOp /\ d \in Rooms
      /\ ScanCovers(u, d)
  BY <1>1, <1>2 DEF RequestOK, Preparing
<1>4. /\ index'[u] = (index[u] \cap {d}) \cup Names(found)
      /\ \A w \in Users \ {u} : index'[w] = index[w]
      /\ d \notin Names(found) /\ Names(found) \subseteq Rooms
  BY <1>1, <1>3, ScanEnds
<1>5. /\ ops'[o].phase = "confirmation" /\ ops'[o].target = d
      /\ ops'[o].sources = found /\ ops'[o].history = Names(found)
      /\ ops'[o].left = {} /\ ops'[o].gen = 0 /\ ~ops'[o].failing
      /\ ops'[o].result = "none"
      /\ \A c \in Ops \ {o} : ops'[c] = ops[c]
  BY <1>1 DEF TypeOK, NewOp, Names
<1>6. \A r \in Rooms : o \notin receipts'[r]
  BY <1>1, <1>2, <1>3 DEF OperationOK, Unprepared
<1>7. Unfinished(o)'
  BY <1>5 DEF Unfinished
<1>8. Underway(o)'
  BY <1>2, <1>4, <1>5, <1>6 DEF Underway
<1>9. OperationOK(o)'
  <2>1. gen'[u] \in Nat
    BY <1>1, Rows
  <2>2. Names(ops'[o].sources) = Names(found)
    BY <1>5
  <2>3. QED BY <1>1, <1>2, <1>4, <1>5, <1>6, <1>7, <1>8, <2>1, <2>2
            DEF OperationOK, Target, Names
<1>10. RequestOK(u)'
  <2>1. run'[u].step = "destination" /\ run'[u].op = o
    BY <1>1 DEF Idle
  <2>2. QED BY <1>2, <1>5, <1>7, <2>1
            DEF RequestOK, Steps, Writing, Scanning, Preparing
<1>11. gen[u] <= gen'[u]
  BY <1>1, Rows
<1>12. QED BY <1>1, <1>2, <1>3, <1>4, <1>5, <1>9, <1>10, <1>11, AccountStep

\* What looking for the sources once more makes of an operation under way.
LEMMA SourcesRenewed ==
  ASSUME TypeOK, TypeOK', SwitchInv, Tame, NEW o \in Ops, NEW u \in Users,
         Owner[o] = u, run[u].op = o, NEW step, ScanDone(u, step, ops[o].target),
         ScanCovers(u, ops[o].target), Unfinished(o), ops[o].phase # "joining",
         ~ops[o].failing, receipts' = receipts,
         ops'[o].target = ops[o].target, ops'[o].result = ops[o].result,
         ops'[o].sources = run[u].found,
         ops'[o].history = ops[o].history \cup Names(run[u].found),
         ops'[o].left = ops[o].left, ops'[o].failing = ops[o].failing,
         ops'[o].phase = "confirmation", active'[u] = o,
         ops'[o].gen # 0 => ops'[o].gen = gen'[u],
         ops'[o].gen = ops[o].gen \/ ops[o].gen = 0
  PROVE  OperationOK(o)' /\ Moves(o) /\ Unfinished(o)'
<1> DEFINE d == ops[o].target
           found == run[u].found
<1>1. OperationOK(o) /\ Underway(o) /\ ops[o].history \subseteq Rooms
  BY Rows DEF SwitchInv, OperationOK
<1>2. /\ index'[u] = (index[u] \cap {d}) \cup Names(found)
      /\ d \notin Names(found) /\ Names(found) \subseteq Rooms
      /\ \A r \in index[u] \ {d} : r \in Names(found) \/ ~TakesPart(u, r)
  BY ScanEnds
<1>3. d \notin ops[o].history
  BY <1>1 DEF OperationOK, Target
<1>4. ASSUME NEW r \in ops'[o].history
      PROVE  \/ ~TakesPart(u, r)'
             \/ /\ r \in Names(found)
                /\ o \notin receipts'[r] /\ r \notin ops[o].left
  <2>1. CASE r \in ops[o].history
    <3>1. \/ ~TakesPart(u, r)'
          \/ /\ TakesPart(u, r) /\ r \in index[u]
             /\ o \notin receipts'[r] /\ r \notin ops[o].left
      BY <2>1, WhereItMayBe DEF Away
    <3>2. QED BY <1>2, <1>3, <2>1, <3>1
  <2>2. CASE r \notin ops[o].history
    BY <1>1, <1>2, <1>4, <2>2 DEF OperationOK
  <2>3. QED BY <2>1, <2>2
<1>5. Unfinished(o)'
  BY DEF Unfinished
<1>6. Underway(o)'
  <2>1. ASSUME NEW r \in ops'[o].history
        PROVE  \/ ~TakesPart(u, r)'
               \/ /\ r \in index'[u] /\ o \notin receipts'[r]
                  /\ r \notin ops'[o].left /\ r \in Names(ops'[o].sources)
    <3>1. Names(ops'[o].sources) = Names(found)
      OBVIOUS
    <3>2. QED BY <1>2, <1>4, <2>1, <3>1
  <2>2. ops'[o].result = "none"
    BY <1>1 DEF Underway
  <2>3. QED BY <2>1, <2>2 DEF Underway, Away, Names
<1>7. OperationOK(o)'
  <2>1. gen'[u] \in Nat /\ ops'[o].gen \in Nat
    BY DEF TypeOK, Operation
  <2>2. ops'[o].gen <= gen'[u]
    BY <2>1
  <2>3. Names(ops'[o].sources) \subseteq ops'[o].history
    OBVIOUS
  <2>4. /\ ops'[o].target \notin ops'[o].history
        /\ ops'[o].left \subseteq ops'[o].history
        /\ \A r \in Rooms : o \in receipts'[r] => r \in ops'[o].history
    BY <1>1, <1>2, <1>3 DEF OperationOK
  <2>5. QED BY <1>5, <1>6, <2>2, <2>3, <2>4 DEF OperationOK, Target, Names
<1>8. Moves(o)
  BY DEF Moves, Unfinished
<1>9. QED BY <1>5, <1>7, <1>8

LEMMA ConfirmDoneStep ==
  ASSUME TypeOK, TypeOK', SwitchInv, Tame, LedgerStep, NEW u \in Users,
         NEW o \in Ops, run[u].op = o, ConfirmDone(u)
  PROVE  Kept
<1> DEFINE found == run[u].found
           g == IF ops[o].gen = 0 THEN gen[u] + 1 ELSE ops[o].gen
<1>1. /\ run[u].step = "confirmScan"
      /\ ScanDone(u, "confirmScan", ops[o].target)
      /\ UNCHANGED orphans /\ receipts' = receipts
      /\ ops' = [ops EXCEPT ![o].sources = found,
                            ![o].history = @ \cup Names(found),
                            ![o].gen = g]
      /\ gen' = [gen EXCEPT ![u] = g]
      /\ active' = [active EXCEPT ![u] = o]
      /\ run' = [run EXCEPT ![u] = [Idle EXCEPT !.step = "reserve", !.op = o]]
  BY DEF ConfirmDone, ScanDone, Goto, ledgerVars
<1>2. /\ Owner[o] = u /\ RequestOK(u) /\ ops[o] \in Operation
      /\ Unfinished(o) /\ active[u] = o /\ Underway(o)
  <2>1. run[u].step # "idle" /\ run[u].step \notin Preparing
    BY <1>1 DEF Preparing
  <2>2. QED BY <2>1, ServedOperation DEF OperationOK
<1>3. /\ ops[o].phase = "confirmation" /\ ~ops[o].failing
      /\ ScanCovers(u, ops[o].target)
  BY <1>1, <1>2 DEF RequestOK, Steps, Writing, Scanning, Preparing, Target
<1>4. /\ \A w \in Users \ {u} : /\ run'[w] = run[w] /\ active'[w] = active[w]
                                /\ gen'[w] = gen[w]
      /\ gen'[u] = g /\ active'[u] = o
      /\ \A c \in Ops \ {o} : ops'[c] = ops[c]
      /\ run'[u] = [Idle EXCEPT !.step = "reserve", !.op = o]
  BY <1>1 DEF TypeOK
<1>5. \A w \in Users \ {u} : index'[w] = index[w]
  BY <1>1, <1>3, ScanEnds
<1>6. /\ ops'[o].phase = "confirmation" /\ ops'[o].target = ops[o].target
      /\ ops'[o].sources = found
      /\ ops'[o].history = ops[o].history \cup Names(found)
      /\ ops'[o].left = ops[o].left /\ ops'[o].gen = g
      /\ ops'[o].failing = ops[o].failing /\ ops'[o].result = ops[o].result
  <2>1. ops'[o] = [[[ops[o] EXCEPT !.sources = found]
                             EXCEPT !.history = @ \cup Names(found)]
                             EXCEPT !.gen = g]
    BY <1>1 DEF TypeOK
  <2>2. QED BY <1>2, <1>3, <2>1 DEF Operation
<1>7. /\ ops'[o].gen = ops[o].gen \/ ops[o].gen = 0
      /\ ops'[o].gen = gen'[u] /\ ops'[o].gen # 0
      /\ gen[u] <= gen'[u]
      /\ ops'[o].gen = ops[o].gen \/ ops'[o].gen = gen[u] + 1
  <2>1. gen[u] \in Nat /\ ops[o].gen \in Nat
    BY Rows
  <2>2. ops[o].gen # 0 => ops[o].gen = gen[u]
    BY <1>2 DEF Underway
  <2>3. QED BY <1>4, <1>6, <2>1, <2>2
<1>8. OperationOK(o)' /\ Moves(o) /\ Unfinished(o)'
  <2>1. ops[o].phase # "joining"
    BY <1>3
  <2>2. QED BY <1>1, <1>2, <1>3, <1>4, <1>6, <1>7, <2>1, SourcesRenewed
<1>9. RequestOK(u)'
  <2>1. run'[u].step = "reserve" /\ run'[u].op = o
    BY <1>4 DEF Idle
  <2>2. QED BY <1>2, <1>3, <1>6, <1>7, <1>8, <2>1
            DEF RequestOK, Steps, Writing, Scanning, Preparing
<1>10. QED BY <1>1, <1>2, <1>4, <1>5, <1>7, <1>8, <1>9, AccountStep

LEMMA ChangedDoneStep ==
  ASSUME TypeOK, TypeOK', SwitchInv, Tame, LedgerStep, NEW u \in Users,
         NEW o \in Ops, run[u].op = o, ChangedDone(u)
  PROVE  Kept
<1> DEFINE found == run[u].found
<1>1. /\ run[u].step = "changedScan"
      /\ ScanDone(u, "changedScan", ops[o].target)
      /\ UNCHANGED <<gen, active, orphans>> /\ receipts' = receipts
      /\ ops' = [ops EXCEPT ![o].sources = found,
                            ![o].history = @ \cup Names(found),
                            ![o].phase = "confirmation"]
      /\ run' = [run EXCEPT ![u] = Idle]
  BY DEF ChangedDone, ScanDone, Goto, ledgerVars
<1>2. /\ Owner[o] = u /\ RequestOK(u) /\ ops[o] \in Operation
      /\ Unfinished(o) /\ active[u] = o /\ Underway(o)
  <2>1. run[u].step # "idle" /\ run[u].step \notin Preparing
    BY <1>1 DEF Preparing
  <2>2. QED BY <2>1, ServedOperation DEF OperationOK
<1>3. /\ ops[o].phase = "leaving" /\ ~ops[o].failing
      /\ ScanCovers(u, ops[o].target)
  BY <1>1, <1>2 DEF RequestOK, Steps, Writing, Scanning, Preparing, Target
<1>4. /\ \A w \in Users \ {u} : run'[w] = run[w]
      /\ \A c \in Ops \ {o} : ops'[c] = ops[c]
      /\ run'[u] = Idle
  BY <1>1 DEF TypeOK
<1>5. \A w \in Users \ {u} : index'[w] = index[w]
  BY <1>1, <1>3, ScanEnds
<1>6. /\ ops'[o].phase = "confirmation" /\ ops'[o].target = ops[o].target
      /\ ops'[o].sources = found
      /\ ops'[o].history = ops[o].history \cup Names(found)
      /\ ops'[o].left = ops[o].left /\ ops'[o].gen = ops[o].gen
      /\ ops'[o].failing = ops[o].failing /\ ops'[o].result = ops[o].result
  <2>1. ops'[o] = [[[ops[o] EXCEPT !.sources = found]
                             EXCEPT !.history = @ \cup Names(found)]
                             EXCEPT !.phase = "confirmation"]
    BY <1>1 DEF TypeOK
  <2>2. QED BY <1>2, <1>3, <2>1 DEF Operation
<1>7. OperationOK(o)' /\ Moves(o) /\ Unfinished(o)'
  <2>1. ops[o].phase # "joining"
    BY <1>3
  <2>2. ops'[o].gen # 0 => ops'[o].gen = gen'[u]
    BY <1>1, <1>2, <1>6 DEF Underway
  <2>3. QED BY <1>1, <1>2, <1>3, <1>6, <2>1, <2>2, SourcesRenewed
<1>8. RequestOK(u)'
  BY <1>4, IdleIsOK DEF Idle
<1>9. gen[u] <= gen'[u]
  BY <1>1, Rows
<1>10. QED BY <1>1, <1>2, <1>4, <1>5, <1>6, <1>7, <1>8, <1>9, AccountStep

-----------------------------------------------------------------------------
\* The two ends of an operation.

LEMMA FailureDoneStep ==
  ASSUME TypeOK, TypeOK', SwitchInv, Tame, LedgerStep, NEW u \in Users,
         NEW o \in Ops, run[u].op = o, FailureDone(u)
  PROVE  Kept
<1> DEFINE g == IF gen[u] > ops[o].gen THEN gen[u] ELSE ops[o].gen + 1
<1>1. /\ run[u].step = "failureScan"
      /\ ScanDone(u, "failureScan", NoOp)
      /\ UNCHANGED <<ledgerVars, orphans>>
      /\ ops' = [ops EXCEPT ![o].phase = "ready", ![o].result = "rejected"]
      /\ gen' = [gen EXCEPT ![u] = g]
      /\ active' = [active EXCEPT ![u] = IF @ = o THEN NoOp ELSE @]
      /\ run' = [run EXCEPT ![u] = Idle]
  BY DEF FailureDone, ScanDone, Goto
<1>2. /\ Owner[o] = u /\ RequestOK(u) /\ ops[o] \in Operation
      /\ Unfinished(o) /\ active[u] = o /\ OperationOK(o)
  <2>1. run[u].step # "idle" /\ run[u].step \notin Preparing
    BY <1>1 DEF Preparing
  <2>2. QED BY <2>1, ServedOperation
<1>3. /\ ops[o].failing
      /\ \A r \in ops[o].history \cup {Target(o)} : Fenced(o, r)
      /\ ScanCovers(u, NoOp)
  BY <1>1, <1>2 DEF RequestOK, Steps, Writing, Scanning, Preparing, FencedBut
<1>4. /\ \A w \in Users \ {u} : /\ run'[w] = run[w] /\ active'[w] = active[w]
                                /\ gen'[w] = gen[w]
      /\ gen'[u] = g /\ active'[u] = NoOp /\ run'[u] = Idle
      /\ \A c \in Ops \ {o} : ops'[c] = ops[c]
  BY <1>1, <1>2 DEF TypeOK
<1>5. \A w \in Users \ {u} : index'[w] = index[w]
  BY <1>1, <1>3, ScanEnds
<1>6. /\ ops'[o].phase = "ready" /\ ops'[o].target = ops[o].target
      /\ ops'[o].sources = ops[o].sources /\ ops'[o].history = ops[o].history
      /\ ops'[o].left = ops[o].left /\ ops'[o].gen = ops[o].gen
      /\ ops'[o].failing = ops[o].failing /\ ops'[o].result = "rejected"
  <2>1. ops'[o] = [[ops[o] EXCEPT !.phase = "ready"] EXCEPT !.result = "rejected"]
    BY <1>1 DEF TypeOK
  <2>2. QED BY <1>2, <2>1 DEF Operation
<1>7. gen[u] <= gen'[u] /\ ops[o].gen <= gen'[u]
  <2>1. gen[u] \in Nat /\ ops[o].gen \in Nat
    BY Rows
  <2>2. QED BY <1>4, <2>1
<1>8. UNCHANGED <<fence, receipts>>
  BY <1>1 DEF ledgerVars
<1>9. ~(Unfinished(o)')
  BY <1>6 DEF Unfinished
<1>10. OperationOK(o)'
  <2>1. Reported(o)'
    BY <1>3, <1>6, <1>8 DEF Reported, Fenced, Target
  <2>2. active'[u] # o
    BY <1>4, OwnerAssumption
  <2>3. QED BY <1>2, <1>6, <1>7, <1>8, <1>9, <2>1, <2>2
            DEF OperationOK, Target, Names
<1>11. Moves(o)
  BY <1>6 DEF Moves
<1>12. RequestOK(u)'
  BY <1>4, IdleIsOK DEF Idle
<1>13. QED BY <1>1, <1>2, <1>4, <1>5, <1>7, <1>9, <1>10, <1>11, <1>12, AccountStep

LEMMA FinishReadyStep ==
  ASSUME TypeOK, TypeOK', SwitchInv, Tame, LedgerStep, NEW u \in Users,
         NEW o \in Ops, run[u].op = o, FinishReady(u)
  PROVE  Kept
<1> DEFINE left == ops[o].left \cup Receipted(ops[o].history, o)
<1>1. /\ run[u].step = "finish"
      /\ UNCHANGED <<ledgerVars, gen, orphans>>
      /\ ops' = [ops EXCEPT ![o].left = left, ![o].phase = "ready",
                            ![o].failing = FALSE, ![o].result = "ready"]
      /\ index' = [index EXCEPT ![u] = (@ \ left) \cup {ops[o].target}]
      /\ active' = [active EXCEPT ![u] = IF @ = o THEN NoOp ELSE @]
      /\ run' = [run EXCEPT ![u] = Idle]
  BY DEF FinishReady, Goto
<1>2. /\ Owner[o] = u /\ RequestOK(u) /\ ops[o] \in Operation
      /\ Unfinished(o) /\ active[u] = o /\ OperationOK(o) /\ Underway(o)
  <2>1. run[u].step # "idle" /\ run[u].step \notin Preparing
    BY <1>1 DEF Preparing
  <2>2. QED BY <2>1, ServedOperation DEF OperationOK
<1>3. /\ ~ops[o].failing /\ ops[o].phase = "joining"
      /\ Joined(o) \/ Fenced(o, Target(o))
  BY <1>1, <1>2 DEF RequestOK, Steps, Writing, Scanning, Preparing
<1>4. /\ \A w \in Users \ {u} : /\ run'[w] = run[w] /\ active'[w] = active[w]
                                /\ index'[w] = index[w]
      /\ active'[u] = NoOp /\ run'[u] = Idle
      /\ \A c \in Ops \ {o} : ops'[c] = ops[c]
  BY <1>1, <1>2 DEF TypeOK
<1>5. /\ ops'[o].phase = "ready" /\ ops'[o].target = ops[o].target
      /\ ops'[o].sources = ops[o].sources /\ ops'[o].history = ops[o].history
      /\ ops'[o].left = left /\ ops'[o].gen = ops[o].gen
      /\ ops'[o].failing = FALSE /\ ops'[o].result = "ready"
  <2>1. ops'[o] = [[[[ops[o] EXCEPT !.left = left] EXCEPT !.phase = "ready"]
                             EXCEPT !.failing = FALSE] EXCEPT !.result = "ready"]
    BY <1>1 DEF TypeOK
  <2>2. QED BY <1>2, <2>1 DEF Operation
<1>6. UNCHANGED <<members, stage, fence, receipts>>
  BY <1>1 DEF ledgerVars
<1>7. ~(Unfinished(o)')
  BY <1>5 DEF Unfinished
<1>8. \A r \in ops[o].history : Away(o, r)
  BY <1>2, <1>3 DEF Underway
<1>9. OperationOK(o)'
  <2>1. Joined(o)' \/ Fenced(o, Target(o))'
    BY <1>3, <1>5, <1>6 DEF Joined, HasJoined, Fenced, Target
  <2>2. \A r \in ops'[o].history : Away(o, r)'
    BY <1>5, <1>6, <1>8 DEF Away, TakesPart, Joinable
  <2>3. Reported(o)'
    BY <1>5, <2>1, <2>2 DEF Reported
  <2>4. active'[u] # o
    BY <1>4, OwnerAssumption
  <2>5. left \subseteq ops[o].history
    BY <1>2 DEF OperationOK, Receipted
  <2>6. gen'[u] = gen[u]
    BY <1>1
  <2>7. QED BY <1>2, <1>5, <1>6, <1>7, <2>3, <2>4, <2>5, <2>6
            DEF OperationOK, Target, Names
<1>10. Moves(o)
  BY <1>3, <1>5 DEF Moves
<1>11. RequestOK(u)'
  BY <1>4, IdleIsOK DEF Idle
<1>12. gen[u] <= gen'[u]
  BY <1>1, Rows
<1>13. QED BY <1>1, <1>2, <1>4, <1>7, <1>9, <1>10, <1>11, <1>12, AccountStep

-----------------------------------------------------------------------------
\* The sources, one after the other.

\* The operation of a request past its preparation.
LEMMA Served ==
  ASSUME TypeOK, SwitchInv, NEW u \in Users, NEW o \in Ops, run[u].op = o,
         run[u].step \notin Preparing \cup {"idle"}
  PROVE  /\ Owner[o] = u /\ RequestOK(u) /\ ops[o] \in Operation
         /\ run[u] \in Request /\ Unfinished(o) /\ active[u] = o
         /\ OperationOK(o) /\ Underway(o)
         /\ ops[o].phase \in {"confirmation", "leaving", "joining"}
         /\ ops[o].failing <=> run[u].step \in {"cancel", "failureScan"}
<1>1. /\ Owner[o] = u /\ RequestOK(u) /\ ops[o] \in Operation
      /\ run[u] \in Request /\ Unfinished(o) /\ active[u] = o
      /\ OperationOK(o) /\ Underway(o)
  BY ServedOperation DEF OperationOK
<1>2. ops[o].phase \in {"confirmation", "leaving", "joining"}
  BY <1>1, Rows DEF Unfinished
<1>3. run[u].step \in Steps \ (Preparing \cup {"idle"})
  BY <1>1 DEF Request
<1>4. QED BY <1>1, <1>2, <1>3 DEF RequestOK

LEMMA ReconcileExitsStep ==
  ASSUME TypeOK, TypeOK', SwitchInv, Tame, LedgerStep, NEW u \in Users,
         NEW o \in Ops, run[u].op = o, ReconcileExits(u)
  PROVE  Kept
<1> DEFINE left == ops[o].left \cup Receipted(ops[o].history, o)
<1>1. /\ run[u].step = "reconcile"
      /\ ops' = [ops EXCEPT ![o].left = left]
      /\ run' = [run EXCEPT ![u] = [run[u] EXCEPT !.step = "leaving"]]
      /\ UNCHANGED <<ledgerVars, gen, active, index, orphans>>
  BY DEF ReconcileExits, Step, Goto
<1>2. /\ Owner[o] = u /\ RequestOK(u) /\ ops[o] \in Operation
      /\ run[u] \in Request /\ Unfinished(o) /\ OperationOK(o) /\ Underway(o)
      /\ ~ops[o].failing
  BY <1>1, Served DEF Preparing
<1>3. ops[o].phase = "leaving"
  BY <1>1, <1>2 DEF RequestOK
<1>4. /\ \A c \in Ops \ {o} : ops'[c] = ops[c]
      /\ ops'[o] = [ops[o] EXCEPT !.left = left]
      /\ \A w \in Users \ {u} : run'[w] = run[w]
      /\ run'[u].step = "leaving" /\ run'[u].op = o
  BY <1>1, <1>2 DEF TypeOK, Request
<1>5. UNCHANGED <<members, stage>>
  BY <1>1 DEF ledgerVars
<1>6. left \subseteq ops[o].history
  BY <1>2 DEF OperationOK, Receipted
<1>7. \A r \in left \ ops[o].left : ~TakesPart(u, r)'
  BY <1>2, <1>5 DEF Underway, Receipted, Away, TakesPart, Joinable
<1>8. RecordMoves(o)
  BY <1>2, <1>3, <1>4, <1>6, <1>7 DEF RecordMoves, Operation, Underway
<1>9. RequestOK(u)'
  <2>1. /\ Unfinished(o)' /\ ops'[o].phase = "leaving" /\ ~ops'[o].failing
    BY <1>2, <1>3, <1>4 DEF Operation, Unfinished
  <2>2. QED BY <1>2, <1>4, <2>1
            DEF RequestOK, Steps, Writing, Scanning, Preparing
<1>10. QED BY <1>1, <1>2, <1>4, <1>8, <1>9, RecordStep

LEMMA NextSourceStep ==
  ASSUME TypeOK, TypeOK', SwitchInv, Tame, LedgerStep, NEW u \in Users,
         NEW o \in Ops, run[u].op = o, NEW s \in Source, NextSource(u, s)
  PROVE  Kept
<1> DEFINE over == o \in receipts[s[1]] \/ ~TakesPart(u, s[1])
           left == ops[o].left \cup {s[1]}
<1>1. /\ run[u].step = "leaving" /\ s \in ops[o].sources
      /\ ops' = IF over THEN [ops EXCEPT ![o].left = left] ELSE ops
      /\ run' = [run EXCEPT ![u] = IF over THEN run[u]
                   ELSE [run[u] EXCEPT !.step = "admission", !.source = s]]
      /\ UNCHANGED <<ledgerVars, gen, active, index, orphans>>
  BY DEF NextSource, Goto
<1>2. /\ Owner[o] = u /\ RequestOK(u) /\ ops[o] \in Operation
      /\ run[u] \in Request /\ Unfinished(o) /\ OperationOK(o) /\ Underway(o)
      /\ ~ops[o].failing
  BY <1>1, Served DEF Preparing
<1>3. ops[o].phase = "leaving"
  BY <1>1, <1>2 DEF RequestOK
<1>4. s[1] \in ops[o].history
  BY <1>1, <1>2 DEF OperationOK, Names
<1>5. CASE over
  <2>1. /\ \A c \in Ops \ {o} : ops'[c] = ops[c]
        /\ ops'[o] = [ops[o] EXCEPT !.left = left]
        /\ \A w \in Users \ {u} : run'[w] = run[w]
        /\ run'[u].step = "leaving" /\ run'[u].op = o
    BY <1>1, <1>2, <1>5 DEF TypeOK, Request
  <2>2. UNCHANGED <<members, stage>>
    BY <1>1 DEF ledgerVars
  <2>3. left \subseteq ops[o].history
    BY <1>2, <1>4 DEF OperationOK
  <2>4. \A r \in left \ ops[o].left : ~TakesPart(u, r)'
    BY <1>2, <1>4, <1>5, <2>2 DEF Underway, Away, TakesPart, Joinable
  <2>5. RecordMoves(o)
    BY <1>2, <1>3, <2>1, <2>3, <2>4 DEF RecordMoves, Operation, Underway
  <2>6. RequestOK(u)'
    <3>1. Unfinished(o)' /\ ops'[o].phase = "leaving" /\ ~ops'[o].failing
      BY <1>2, <1>3, <2>1 DEF Operation, Unfinished
    <3>2. QED BY <1>2, <2>1, <3>1
              DEF RequestOK, Steps, Writing, Scanning, Preparing
  <2>7. QED BY <1>1, <1>2, <2>1, <2>5, <2>6, RecordStep
<1>6. CASE ~over
  <2>1. /\ UNCHANGED ops
        /\ \A w \in Users \ {u} : run'[w] = run[w]
        /\ run'[u] = [run[u] EXCEPT !.step = "admission", !.source = s]
    BY <1>1, <1>6 DEF TypeOK
  <2>2. /\ run'[u].step = "admission" /\ run'[u].op = o /\ run'[u].source = s
    BY <1>2, <2>1 DEF Request
  <2>3. RequestOK(u)'
    <3>1. Unfinished(o)' /\ ops'[o].phase = "leaving" /\ ~ops'[o].failing
      BY <1>2, <1>3, <2>1 DEF Unfinished
    <3>2. QED BY <1>2, <1>4, <2>1, <2>2, <3>1
              DEF RequestOK, Steps, Writing, Scanning, Preparing
  <2>4. QED BY <1>1, <2>1, <2>3, RunStep
<1>7. QED BY <1>5, <1>6

LEMMA AllLeftStep ==
  ASSUME TypeOK, TypeOK', SwitchInv, Tame, LedgerStep, NEW u \in Users,
         NEW o \in Ops, run[u].op = o, AllLeft(u)
  PROVE  Kept
<1>1. /\ run[u].step = "leaving" /\ Names(ops[o].sources) \subseteq ops[o].left
      /\ ops' = [ops EXCEPT ![o].phase = "joining"]
      /\ run' = [run EXCEPT ![u] = [run[u] EXCEPT !.step = "admission"]]
      /\ UNCHANGED <<ledgerVars, gen, active, index, orphans>>
  BY DEF AllLeft, Step, Goto
<1>2. /\ Owner[o] = u /\ RequestOK(u) /\ ops[o] \in Operation
      /\ run[u] \in Request /\ Unfinished(o) /\ OperationOK(o) /\ Underway(o)
      /\ ~ops[o].failing
  BY <1>1, Served DEF Preparing
<1>3. ops[o].phase = "leaving" /\ ops[o].gen # 0
  BY <1>1, <1>2 DEF RequestOK, Underway
<1>4. /\ \A c \in Ops \ {o} : ops'[c] = ops[c]
      /\ ops'[o] = [ops[o] EXCEPT !.phase = "joining"]
      /\ \A w \in Users \ {u} : run'[w] = run[w]
      /\ run'[u].step = "admission" /\ run'[u].op = o
  BY <1>1, <1>2 DEF TypeOK, Request
<1>5. \A r \in ops[o].history : ~TakesPart(u, r)'
  <2>1. UNCHANGED <<members, stage>>
    BY <1>1 DEF ledgerVars
  <2>2. \A r \in ops[o].history : Away(o, r)
    BY <1>1, <1>2, <1>3 DEF Underway
  <2>3. QED BY <1>2, <2>1, <2>2 DEF Away, TakesPart, Joinable
<1>6. RecordMoves(o)
  BY <1>2, <1>3, <1>4, <1>5 DEF RecordMoves, Operation, OperationOK
<1>7. RequestOK(u)'
  <2>1. Unfinished(o)' /\ ops'[o].phase = "joining" /\ ~ops'[o].failing
    BY <1>2, <1>3, <1>4 DEF Operation, Unfinished
  <2>2. QED BY <1>2, <1>4, <2>1
            DEF RequestOK, Steps, Writing, Scanning, Preparing
<1>8. QED BY <1>1, <1>2, <1>4, <1>6, <1>7, RecordStep

LEMMA AdmissionStep ==
  ASSUME TypeOK, TypeOK', SwitchInv, Tame, LedgerStep, NEW u \in Users,
         NEW o \in Ops, run[u].op = o, Admission(u)
  PROVE  Kept
<1>1. /\ run[u].step = "admission"
      /\ \/ run'[u] = [run[u] EXCEPT !.step = "renew"]
         \/ /\ ops[o].phase = "joining"
            /\ run'[u] = [run[u] EXCEPT !.step = "join"]
         \/ run'[u] = Idle
      /\ \A w \in Users \ {u} : run'[w] = run[w]
      /\ UNCHANGED <<gen, active, index, ops, orphans>>
  BY DEF Admission, Goto, TypeOK, acctVars
<1>2. /\ Owner[o] = u /\ RequestOK(u) /\ run[u] \in Request /\ Unfinished(o)
      /\ ~ops[o].failing
  BY <1>1, Served DEF Preparing
<1>3. Unfinished(o)'
  BY <1>1, <1>2 DEF Unfinished
<1>4. CASE run'[u] = [run[u] EXCEPT !.step = "renew"]
  <2>1. /\ run'[u].step = "renew" /\ run'[u].op = o
        /\ run'[u].source = run[u].source
    BY <1>2, <1>4 DEF Request
  <2>2. RequestOK(u)'
    BY <1>1, <1>2, <1>3, <2>1
       DEF RequestOK, Steps, Writing, Scanning, Preparing
  <2>3. QED BY <1>1, <2>2, RunStep
<1>5. CASE /\ ops[o].phase = "joining"
           /\ run'[u] = [run[u] EXCEPT !.step = "join"]
  <2>1. run'[u].step = "join" /\ run'[u].op = o
    BY <1>2, <1>5 DEF Request
  <2>2. RequestOK(u)'
    BY <1>1, <1>2, <1>3, <1>5, <2>1
       DEF RequestOK, Steps, Writing, Scanning, Preparing
  <2>3. QED BY <1>1, <2>2, RunStep
<1>6. CASE run'[u] = Idle
  <2>1. RequestOK(u)'
    BY <1>6, IdleIsOK DEF Idle
  <2>2. QED BY <1>1, <2>1, RunStep
<1>7. QED BY <1>1, <1>4, <1>5, <1>6

-----------------------------------------------------------------------------
\* The calls, with what the account does on the answer.

LEMMA AskSeatStep ==
  ASSUME TypeOK, TypeOK', SwitchInv, Tame, LedgerStep, NEW u \in Users,
         NEW o \in Ops, run[u].op = o, AskSeat(u)
  PROVE  Kept
<1>1. run[u].step = "reserve" /\ orphans' = orphans
  BY DEF AskSeat
<1>2. /\ Owner[o] = u /\ RequestOK(u) /\ ops[o] \in Operation
      /\ run[u] \in Request /\ Unfinished(o) /\ OperationOK(o) /\ Underway(o)
      /\ ~ops[o].failing
  BY <1>1, Served DEF Preparing
<1>3. ops[o].phase = "confirmation" /\ ops[o].gen # 0
  BY <1>1, <1>2 DEF RequestOK
<1>4. CASE Fail(u, o)
  BY <1>1, <1>2, <1>4, FailStep
<1>5. CASE ~Fail(u, o)
  <2>1. /\ ops' = [ops EXCEPT ![o].phase = "leaving"]
        /\ run' = [run EXCEPT ![u] = [run[u] EXCEPT !.step = "reconcile"]]
        /\ UNCHANGED <<gen, active, index>>
    BY <1>5 DEF AskSeat, Step, Goto
  <2>2. /\ \A c \in Ops \ {o} : ops'[c] = ops[c]
        /\ ops'[o] = [ops[o] EXCEPT !.phase = "leaving"]
        /\ \A w \in Users \ {u} : run'[w] = run[w]
        /\ run'[u].step = "reconcile" /\ run'[u].op = o
    BY <1>2, <2>1 DEF TypeOK, Request
  <2>3. RecordMoves(o)
    BY <1>2, <1>3, <2>2 DEF RecordMoves, Operation, OperationOK
  <2>4. RequestOK(u)'
    <3>1. Unfinished(o)' /\ ops'[o].phase = "leaving" /\ ~ops'[o].failing
      BY <1>2, <2>2 DEF Operation, Unfinished
    <3>2. QED BY <1>2, <2>2, <3>1
              DEF RequestOK, Steps, Writing, Scanning, Preparing
  <2>5. QED BY <1>1, <1>2, <2>1, <2>2, <2>3, <2>4, RecordStep
<1>6. QED BY <1>4, <1>5

\* A renewed seat waits for the source that is left next.
LEMMA RenewSeatStep ==
  ASSUME TypeOK, TypeOK', SwitchInv, Tame, LedgerStep, NEW u \in Users,
         NEW o \in Ops, run[u].op = o, RenewSeat(u)
  PROVE  Kept
<1> DEFINE d == ops[o].target
<1>1. /\ run[u].step = "renew" /\ orphans' = orphans
      /\ Reserve(d, o, ops[o].gen)
  BY DEF RenewSeat
<1>2. /\ Owner[o] = u /\ RequestOK(u) /\ ops[o] \in Operation
      /\ run[u] \in Request /\ Unfinished(o) /\ OperationOK(o) /\ Underway(o)
      /\ ~ops[o].failing
  BY <1>1, Served DEF Preparing
<1>3. CASE Fail(u, o)
  BY <1>1, <1>2, <1>3, FailStep
<1>4. CASE ~Fail(u, o)
  <2>1. /\ ReserveReply(d, o, ops[o].gen) = "ok"
        /\ UNCHANGED <<gen, active, index, ops>>
        /\ run' = [run EXCEPT ![u] =
                     IF ops[o].phase = "joining"
                     THEN [run[u] EXCEPT !.step = "join"]
                     ELSE [run[u] EXCEPT !.step = "leave",
                                         !.lease = now + LeaseTime]]
    BY <1>4 DEF RenewSeat, Goto, acctVars
  <2>2. Unfinished(o)' /\ \A w \in Users \ {u} : run'[w] = run[w]
    BY <1>2, <2>1 DEF Unfinished, TypeOK
  <2>3. CASE ops[o].phase = "joining"
    <3>1. run'[u].step = "join" /\ run'[u].op = o
      BY <1>2, <2>1, <2>3 DEF TypeOK, Request
    <3>2. RequestOK(u)'
      BY <1>2, <2>1, <2>2, <2>3, <3>1
         DEF RequestOK, Steps, Writing, Scanning, Preparing
    <3>3. QED BY <1>1, <2>1, <2>2, <3>2, RunStep
  <2>4. CASE ops[o].phase # "joining"
    <3>1. /\ ops[o].phase = "leaving" /\ run[u].source \in Source
          /\ run[u].source[1] \in ops[o].history
      BY <1>1, <1>2, <2>4 DEF RequestOK
    <3>2. /\ run'[u].step = "leave" /\ run'[u].op = o
          /\ run'[u].source = run[u].source /\ run'[u].lease = now + LeaseTime
      BY <1>2, <2>1, <2>4 DEF TypeOK, Request
    <3>3. /\ seat'[d][u] =
               [op |-> o, gen |-> ops[o].gen, expires |-> now + LeaseTime]
          /\ now' = now
      <4>1. d \in Rooms /\ u \in People
        BY <1>2, Rows DEF Target
      <4>2. seat \in [Rooms -> [People -> Seat]]
        BY Rows DEF LedgerTypeOK
      <4>3. QED BY <1>1, <1>2, <2>1, <4>1, <4>2 DEF Reserve
    <3>4. ops[o].gen # 0
      BY <1>2, <3>1 DEF Underway
    <3>5. now + LeaseTime \in Nat
      BY Rows, NumbersAssumption
    <3>6. \A s, l : s = run[u].source /\ l = now + LeaseTime =>
                    SeatWaits(o, s, l)'
      <4> SUFFICES ASSUME NEW s, NEW l, s = run[u].source, l = now + LeaseTime
                   PROVE  SeatWaits(o, s, l)'
        OBVIOUS
      <4>1. seat'[d][u].op = o /\ seat'[d][u].gen = ops[o].gen
            /\ seat'[d][u].expires >= l
        BY <3>3, <3>5
      <4>2. l <= now' + LeaseTime
        BY <3>3, <3>5
      <4>3. QED BY <1>2, <2>1, <3>1, <3>4, <4>1, <4>2
                DEF SeatWaits, Keeps, Target
    <3>7. RequestOK(u)'
      BY <1>2, <2>1, <2>2, <3>1, <3>2, <3>6
         DEF RequestOK, Steps, Writing, Scanning, Preparing, SeatWaits, Keeps,
             Target, Away, Fenced
    <3>8. QED BY <1>1, <2>1, <2>2, <3>7, RunStep
  <2>5. QED BY <2>3, <2>4
<1>5. QED BY <1>3, <1>4

LEMMA LeaveSourceStep ==
  ASSUME TypeOK, TypeOK', SwitchInv, Tame, LedgerStep, NEW u \in Users,
         NEW o \in Ops, run[u].op = o, NEW s, run[u].source = s,
         LeaveSource(u)
  PROVE  Kept
<1> DEFINE reply == LeaveReply(s[1], o, ops[o].gen, run[u].lease, s[2])
           left == ops[o].left \cup {s[1]}
<1>1. /\ run[u].step = "leave" /\ orphans' = orphans
      /\ Leave(s[1], o, ops[o].gen, run[u].lease, s[2])
      /\ ops' = IF reply = "left" THEN [ops EXCEPT ![o].left = left] ELSE ops
      /\ run' = [run EXCEPT ![u] =
                   CASE reply = "left" ->
                          [Idle EXCEPT !.step = "leaving", !.op = o]
                     [] reply = "changed" ->
                          Scan(u, "changedScan", ops[o].target)
                     [] OTHER -> Idle]
      /\ UNCHANGED <<gen, active, index>>
  BY DEF LeaveSource, Goto
<1>2. /\ Owner[o] = u /\ RequestOK(u) /\ ops[o] \in Operation
      /\ run[u] \in Request /\ Unfinished(o) /\ OperationOK(o) /\ Underway(o)
      /\ ~ops[o].failing
  BY <1>1, Served DEF Preparing
<1>3. /\ ops[o].phase = "leaving" /\ s[1] \in ops[o].history
      /\ ops[o].gen # 0 /\ s[1] \in Rooms
  BY <1>1, <1>2 DEF RequestOK, SeatWaits, Source
<1>4. \A w \in Users \ {u} : run'[w] = run[w]
  BY <1>1 DEF TypeOK
<1>5. CASE reply = "left"
  <2>1. /\ \A c \in Ops \ {o} : ops'[c] = ops[c]
        /\ ops'[o] = [ops[o] EXCEPT !.left = left]
        /\ run'[u].step = "leaving" /\ run'[u].op = o
    BY <1>1, <1>5 DEF TypeOK, Idle
  <2>2. left \subseteq ops[o].history
    BY <1>2, <1>3 DEF OperationOK
  <2>3. ~TakesPart(u, s[1])'
    <3>1. CASE Exits(s[1], o, ops[o].gen, run[u].lease, s[2])
      <4>1. TakeOut(s[1], u, TRUE)
        BY <1>1, <1>2, <3>1 DEF Leave, Exit
      <4>2. u \notin members'[s[1]]
        BY <1>3, <4>1 DEF TakeOut, TypeOK, LedgerTypeOK
      <4>3. QED BY <4>2 DEF TakesPart
    <3>2. CASE ~Exits(s[1], o, ops[o].gen, run[u].lease, s[2])
      <4>1. o \in receipts[s[1]] /\ UNCHANGED <<members, stage>>
        BY <1>1, <1>5, <3>2 DEF Leave, Exits, ledgerVars
      <4>2. Away(o, s[1])
        BY <1>2, <1>3, <4>1 DEF Underway
      <4>3. QED BY <1>2, <4>1, <4>2 DEF Away, TakesPart, Joinable
    <3>3. QED BY <3>1, <3>2
  <2>4. RecordMoves(o)
    <3>1. \A r \in left \ ops[o].left : ~TakesPart(u, r)'
      BY <2>3
    <3>2. QED BY <1>2, <1>3, <2>1, <2>2, <3>1 DEF RecordMoves, Operation
  <2>5. RequestOK(u)'
    <3>1. Unfinished(o)' /\ ops'[o].phase = "leaving" /\ ~ops'[o].failing
      BY <1>2, <1>3, <2>1 DEF Operation, Unfinished
    <3>2. QED BY <1>2, <2>1, <3>1
              DEF RequestOK, Steps, Writing, Scanning, Preparing
  <2>6. QED BY <1>1, <1>2, <1>4, <2>4, <2>5, RecordStep
<1>6. CASE reply = "changed"
  <2>1. UNCHANGED ops /\ run'[u] = Scan(u, "changedScan", ops[o].target)
    BY <1>1, <1>6 DEF TypeOK
  <2>2. /\ ScanCovers(u, ops[o].target)' /\ run'[u].step = "changedScan"
        /\ run'[u].op = o
    BY <1>1, <2>1, ScanBegins
  <2>3. RequestOK(u)'
    <3>1. Unfinished(o)' /\ ops'[o].phase = "leaving" /\ ~ops'[o].failing
      BY <1>2, <1>3, <2>1 DEF Unfinished
    <3>2. ScanCovers(u, Target(o))'
      BY <2>2 DEF Target
    <3>3. QED BY <1>2, <2>1, <2>2, <3>1, <3>2
              DEF RequestOK, Steps, Writing, Scanning, Preparing, ScanCovers,
                  Target
  <2>4. QED BY <1>1, <1>4, <2>1, <2>3, RunStep
<1>7. CASE reply \notin {"left", "changed"}
  <2>1. UNCHANGED ops /\ run'[u] = Idle
    BY <1>1, <1>7 DEF TypeOK
  <2>2. RequestOK(u)'
    BY <2>1, IdleIsOK DEF Idle
  <2>3. QED BY <1>1, <1>4, <2>1, <2>2, RunStep
<1>8. QED BY <1>5, <1>6, <1>7

LEMMA JoinDestinationStep ==
  ASSUME TypeOK, TypeOK', SwitchInv, Tame, LedgerStep, NEW u \in Users,
         NEW o \in Ops, run[u].op = o, JoinDestination(u)
  PROVE  Kept
<1> DEFINE d == ops[o].target
           g == ops[o].gen
<1>1. /\ run[u].step = "join" /\ Commit(d, o, g)
      /\ run' = [run EXCEPT ![u] = IF CommitReply(d, o, g) = "ok"
                                   THEN [run[u] EXCEPT !.step = "finish"]
                                   ELSE Idle]
      /\ UNCHANGED <<gen, active, index, ops, orphans>>
  BY DEF JoinDestination, Goto, acctVars
<1>2. /\ Owner[o] = u /\ RequestOK(u) /\ run[u] \in Request /\ Unfinished(o)
      /\ ~ops[o].failing /\ ops[o].phase = "joining"
  <2>1. /\ Owner[o] = u /\ RequestOK(u) /\ run[u] \in Request /\ Unfinished(o)
        /\ ~ops[o].failing
    BY <1>1, Served DEF Preparing
  <2>2. QED BY <1>1, <2>1 DEF RequestOK
<1>3. \A w \in Users \ {u} : run'[w] = run[w]
  BY <1>1 DEF TypeOK
<1>4. CASE CommitReply(d, o, g) = "ok"
  <2>1. run'[u].step = "finish" /\ run'[u].op = o
    BY <1>1, <1>2, <1>4 DEF TypeOK, Request
  <2>2. /\ d \in Rooms /\ u \in People /\ fence \in [Rooms -> [People -> Fence]]
        /\ fence[d][u] \in Fence
    BY <1>2, Rows DEF Target, LedgerTypeOK
  <2>3. fence[d][u].gen = g /\ fence[d][u].op = o
    BY <1>2, <1>4 DEF CommitReply
  <2>4. fence'[d][u] = [gen |-> g, op |-> o, joined |-> TRUE]
    <3>1. CASE Joins(d, o, g)
      <4>1. fence' = [fence EXCEPT ![d][u].joined = TRUE]
        BY <1>1, <1>2, <3>1 DEF Commit, Enter
      <4>2. fence'[d][u] = [fence[d][u] EXCEPT !.joined = TRUE]
        BY <2>2, <4>1
      <4>3. QED BY <2>2, <2>3, <4>2 DEF Fence
    <3>2. CASE ~Joins(d, o, g)
      <4>1. fence' = fence /\ fence[d][u].joined
        <5>1. fence[d][u].joined
          BY <1>2, <1>4, <3>2 DEF Joins
        <5>2. fence' = fence
          BY <1>1, <3>2 DEF Commit, ledgerVars
        <5>3. QED BY <5>1, <5>2
      <4>2. fence[d][u].joined = TRUE
        BY <2>2, <4>1 DEF Fence
      <4>3. QED BY <2>2, <2>3, <4>1, <4>2 DEF Fence
    <3>3. QED BY <3>1, <3>2
  <2>5. Joined(o)'
    BY <1>1, <1>2, <2>4 DEF Joined, HasJoined, Target
  <2>6. RequestOK(u)'
    <3>1. Unfinished(o)' /\ ops'[o].phase = "joining" /\ ~ops'[o].failing
      BY <1>1, <1>2 DEF Unfinished
    <3>2. QED BY <1>2, <2>1, <2>5, <3>1
              DEF RequestOK, Steps, Writing, Scanning, Preparing, Joined,
                  HasJoined, Target
  <2>7. QED BY <1>1, <1>3, <2>6, RunStep
<1>5. CASE CommitReply(d, o, g) # "ok"
  <2>1. RequestOK(u)'
    <3>1. run'[u] = Idle
      BY <1>1, <1>5 DEF TypeOK
    <3>2. QED BY <3>1, IdleIsOK DEF Idle
  <2>2. QED BY <1>1, <1>3, <2>1, RunStep
<1>6. QED BY <1>4, <1>5

\* A room that was told to cancel an operation has turned past it.
LEMMA CancelFences ==
  ASSUME TypeOK, NEW o \in Ops, NEW r \in Rooms, Cancel(r, o, ops[o].gen)
  PROVE  fence'[r][Owner[o]].gen > ops[o].gen
<1> DEFINE u == Owner[o]
           g == ops[o].gen
<1>1. /\ u \in People /\ g \in Nat /\ fence[r][u].gen \in Nat
      /\ fence \in [Rooms -> [People -> Fence]]
  BY Rows DEF LedgerTypeOK, Fence
<1>2. CASE fence[r][u].gen <= g
  <2>1. fence'[r][u] = [gen |-> g + 1, op |-> NoOp, joined |-> FALSE]
    BY <1>1, <1>2 DEF Cancel
  <2>2. fence'[r][u].gen = g + 1
    BY <2>1
  <2>3. QED BY <1>1, <2>2
<1>3. CASE ~(fence[r][u].gen <= g)
  <2>1. fence' = fence
    BY <1>3 DEF Cancel
  <2>2. QED BY <1>1, <1>3, <2>1
<1>4. QED BY <1>2, <1>3

LEMMA CancelNextStep ==
  ASSUME TypeOK, TypeOK', SwitchInv, Tame, LedgerStep, NEW u \in Users,
         NEW o \in Ops, run[u].op = o, CancelNext(u)
  PROVE  Kept
<1> DEFINE todo == run[u].todo
<1>1. run[u].step = "cancel" /\ UNCHANGED <<gen, active, index, ops, orphans>>
  BY DEF CancelNext, acctVars
<1>2. PICK r \in CallTargets(u) :
        /\ Cancel(r, o, ops[o].gen)
        /\ run' = [run EXCEPT ![u] = IF todo = {} THEN Scan(u, "failureScan", NoOp)
                                     ELSE [run[u] EXCEPT !.todo = @ \ {r}]]
  BY DEF CancelNext, Goto
<1>3. /\ Owner[o] = u /\ RequestOK(u) /\ run[u] \in Request /\ Unfinished(o)
      /\ ops[o].failing
  BY <1>1, Served DEF Preparing
<1>4. todo \subseteq ops[o].history /\ FencedBut(o, todo)
  BY <1>1, <1>3 DEF RequestOK
<1>5. IF todo = {} THEN r = Target(o) ELSE r \in todo
  BY <1>1, <1>2 DEF CallTargets, Target
<1>6. /\ r \in Rooms /\ u \in People /\ ops[o].gen \in Nat
      /\ ops[o].history \subseteq Rooms
  BY <1>3, <1>4, <1>5, Rows
<1>7. fence'[r][u].gen > ops[o].gen
  BY <1>2, <1>3, <1>6, CancelFences
<1>8. \A q \in ops[o].history \ todo : fence'[q][u].gen > ops[o].gen
  BY <1>3, <1>4, <1>6, FencedStays DEF FencedBut, Fenced
<1>9. Unfinished(o)' /\ ops'[o].failing /\ \A w \in Users \ {u} : run'[w] = run[w]
  BY <1>1, <1>2, <1>3 DEF Unfinished, TypeOK
<1>10. CASE todo = {}
  <2>1. run'[u] = Scan(u, "failureScan", NoOp)
    BY <1>2, <1>10 DEF TypeOK
  <2>2. ScanCovers(u, NoOp)' /\ run'[u].step = "failureScan" /\ run'[u].op = o
    BY <1>1, <2>1, ScanBegins
  <2>3. FencedBut(o, {})' /\ Fenced(o, Target(o))'
    BY <1>1, <1>3, <1>5, <1>7, <1>8, <1>10 DEF FencedBut, Fenced, Target
  <2>4. RequestOK(u)'
    BY <1>3, <1>9, <2>2, <2>3
       DEF RequestOK, Steps, Writing, Scanning, Preparing, FencedBut, Fenced,
           Target
  <2>5. QED BY <1>1, <1>9, <2>4, RunStep
<1>11. CASE todo # {}
  <2>1. /\ run'[u].step = "cancel" /\ run'[u].op = o
        /\ run'[u].todo = todo \ {r}
    BY <1>1, <1>2, <1>3, <1>11 DEF TypeOK, Request
  <2>2. \A q \in ops[o].history \ (todo \ {r}) : fence'[q][u].gen > ops[o].gen
    BY <1>7, <1>8
  <2>3. RequestOK(u)'
    BY <1>1, <1>3, <1>4, <1>9, <2>1, <2>2
       DEF RequestOK, Steps, Writing, Scanning, Preparing, FencedBut, Fenced
  <2>4. QED BY <1>1, <1>9, <2>3, RunStep
<1>12. QED BY <1>10, <1>11

-----------------------------------------------------------------------------
\* A request that dies leaves a call of its own under way.

LEMMA CallOK ==
  ASSUME TypeOK, SwitchInv, NEW u \in Users, run[u].step \in Writing,
         NEW r \in CallTargets(u)
  PROVE  MessageOK(Call(u, r))
<1> DEFINE o == run[u].op
           m == Call(u, r)
<1>1. /\ run[u].step \notin Preparing \cup {"idle"}
  BY DEF Writing, Preparing
<1>2. /\ o \in Ops /\ Owner[o] = u /\ RequestOK(u) /\ run[u] \in Request
      /\ Unfinished(o) /\ OperationOK(o) /\ Underway(o)
      /\ ops[o].failing <=> run[u].step \in {"cancel", "failureScan"}
  <2>1. o \in Ops
    BY <1>1, ServedOperation
  <2>2. QED BY <1>1, <2>1, Served
<1>3. /\ m.rpc = run[u].step /\ m.op = o /\ m.room = r /\ m.gen = ops[o].gen
      /\ m.source = run[u].source /\ m.lease = run[u].lease
  BY DEF Call
<1>4. ops[o].phase # "none"
  BY <1>2 DEF Unfinished
<1>5. m.rpc \in {"reserve", "renew", "join"} => m.room = Target(o) /\ m.gen # 0
  BY <1>2, <1>3 DEF CallTargets, Target, RequestOK, Underway
<1>6. m.rpc = "join" => ops[o].phase \in {"joining", "ready"}
  BY <1>2, <1>3 DEF RequestOK
<1>7. m.rpc = "leave" =>
        m.room = m.source[1] /\ SeatWaits(o, m.source, m.lease)
  BY <1>2, <1>3 DEF CallTargets, RequestOK
<1>8. m.rpc = "cancel" => /\ ops[o].failing
                          /\ m.room \in ops[o].history \cup {Target(o)}
                          /\ m.room = Target(o) => FencedBut(o, {})
  BY <1>2, <1>3 DEF CallTargets, RequestOK, OperationOK, Target
<1>9. QED BY <1>2, <1>3, <1>4, <1>5, <1>6, <1>7, <1>8 DEF MessageOK

LEMMA AbortStep ==
  ASSUME TypeOK, TypeOK', SwitchInv, Tame, LedgerStep, NEW u \in Users, Abort(u)
  PROVE  Kept
<1>1. /\ run' = [run EXCEPT ![u] = Idle]
      /\ UNCHANGED <<gen, active, index, ops>> /\ UNCHANGED ledgerVars
  BY DEF Abort, Goto, acctVars
<1>2. run'[u] = Idle /\ \A w \in Users \ {u} : run'[w] = run[w]
  BY <1>1 DEF TypeOK
<1>3. RequestOK(u)'
  BY <1>2, IdleIsOK DEF Idle
<1>4. ASSUME NEW m \in orphans', m \notin orphans PROVE MessageOK(m)'
  <2>1. PICK r \in CallTargets(u) : m = Call(u, r)
    BY <1>4 DEF Abort
  <2>2. MessageOK(Call(u, r))
    BY <1>4, CallOK DEF Abort
  <2>3. MessageOK(m)
    BY <2>1, <2>2
  <2>4. UNCHANGED <<members, stage, fence, seat, receipts, now>>
    BY <1>1 DEF ledgerVars
  <2>5. QED BY <1>1, <2>3, <2>4
            DEF MessageOK, SeatWaits, FencedBut, Fenced, Away, TakesPart,
                Joinable, Keeps, Target
<1>5. QED BY <1>1, <1>2, <1>3, <1>4, RunStep

-----------------------------------------------------------------------------
\* Every step keeps the invariant.

LEMMA WorkStep ==
  ASSUME TypeOK, TypeOK', SwitchInv, Tame, LedgerStep, NEW u \in Users, Work(u)
  PROVE  Kept
<1>1. CASE PrepareDestination(u)
  BY <1>1, PrepareDestinationStep
<1>2. CASE ConfirmDestination(u)
  BY <1>2, ConfirmDestinationStep
<1>3. CASE \E r \in Rooms : ScanRoom(u, r)
  BY <1>3, ScanRoomStep
<1>4. CASE \/ InspectDone(u) \/ PrepareDone(u) \/ ConfirmDone(u)
           \/ ChangedDone(u) \/ FailureDone(u)
           \/ AskSeat(u) \/ ReconcileExits(u)
           \/ \E s \in Source : NextSource(u, s)
           \/ AllLeft(u) \/ Admission(u) \/ RenewSeat(u) \/ LeaveSource(u)
           \/ JoinDestination(u) \/ FinishReady(u) \/ CancelNext(u)
  <2>1. run[u].step # "idle"
    BY <1>4 DEF InspectDone, PrepareDone, ConfirmDone, ChangedDone, FailureDone,
                ScanDone, AskSeat, ReconcileExits, NextSource, AllLeft,
                Admission, RenewSeat, LeaveSource, JoinDestination,
                FinishReady, CancelNext
  <2>2. PICK o \in Ops : run[u].op = o
    BY <2>1, ServedOperation
  <2>3. PICK s : run[u].source = s
    OBVIOUS
  <2>4. (\/ InspectDone(u) \/ PrepareDone(u) \/ ConfirmDone(u)
         \/ ChangedDone(u) \/ FailureDone(u)) => Kept
    BY <2>2, InspectDoneStep, PrepareDoneStep, ConfirmDoneStep, ChangedDoneStep,
       FailureDoneStep
  <2>5. ReconcileExits(u) \/ AllLeft(u) \/ Admission(u) => Kept
    BY <2>2, ReconcileExitsStep, AllLeftStep, AdmissionStep
  <2>6. (\E x \in Source : NextSource(u, x)) => Kept
    BY <2>2, NextSourceStep
  <2>7. AskSeat(u) \/ RenewSeat(u) \/ LeaveSource(u) => Kept
    BY <2>2, <2>3, AskSeatStep, RenewSeatStep, LeaveSourceStep
  <2>8. JoinDestination(u) \/ FinishReady(u) \/ CancelNext(u) => Kept
    BY <2>2, JoinDestinationStep, FinishReadyStep, CancelNextStep
  <2>9. QED BY <1>4, <2>4, <2>5, <2>6, <2>7, <2>8
<1>5. QED BY <1>1, <1>2, <1>3, <1>4 DEF Work

LEMMA RequestsStep ==
  ASSUME TypeOK, TypeOK', SwitchInv, Tame, LedgerStep, NEW u \in Users,
         Requests(u)
  PROVE  Kept
<1>1. ASSUME NEW o \in Ops, PrepareBehind(u, o) PROVE Kept
  BY <1>1, RoomsStep DEF PrepareBehind
<1>2. ASSUME NEW o \in Ops, NEW kind \in {"join", "revisit"}, NEW d \in Rooms,
             Prepare(u, o, kind, d)
      PROVE  Kept
  BY <1>2, PrepareStep
<1>3. ASSUME NEW o \in Ops, NEW r \in Rooms, Inspect(u, o, r) PROVE Kept
  BY <1>3, InspectStep
<1>4. ASSUME NEW o \in Ops, Resume(u, o) PROVE Kept
  BY <1>4, ResumeStep
<1>5. QED BY <1>1, <1>2, <1>3, <1>4, Zenon DEF Requests

LEMMA SwitchNext ==
  ASSUME TypeOK, SwitchInv, [Next]_vars
  PROVE  TypeOK' /\ Kept
<1>1. TypeOK' /\ Tame /\ LedgerStep
  BY SwitchTypeNext, NextIsLedgerStep
<1>2. CASE UNCHANGED vars
  BY <1>1, <1>2, RoomsStep DEF vars, acctVars
<1>3. ASSUME NEW r \in Rooms, NEW o \in Ops, OthersReserve(r, o) \/ OthersJoin(r, o)
      PROVE  Kept
  BY <1>1, <1>3, RoomsStep DEF OthersReserve, OthersJoin, acctVars
<1>4. ASSUME NEW u \in Users, Requests(u) \/ Work(u) \/ Abort(u)
      PROVE  Kept
  BY <1>1, <1>4, RequestsStep, WorkStep, AbortStep
<1>5. ASSUME NEW m \in orphans, ArriveLate(m) PROVE Kept
  BY <1>1, <1>5, RoomsStep DEF ArriveLate, acctVars
<1>6. ASSUME NEW u \in Users, NEW r \in Rooms, MayOperate(u, r) \/ Operate(u, r)
      PROVE  Kept
  BY <1>1, <1>6, RoomsStep DEF MayOperate, Operate, acctVars
<1>7. ASSUME Surroundings, Outside PROVE Kept
  BY <1>1, <1>7, RoomsStep DEF Outside, acctVars
<1>8. Kept
  <2>1. (\E r \in Rooms, o \in Ops : OthersReserve(r, o) \/ OthersJoin(r, o))
        => Kept
    BY <1>3
  <2>2. (\E u \in Users : Requests(u) \/ Work(u) \/ Abort(u)) => Kept
    BY <1>4
  <2>3. (\E m \in orphans : ArriveLate(m)) => Kept
    BY <1>5
  <2>4. (\E u \in Users, r \in Rooms : MayOperate(u, r) \/ Operate(u, r))
        => Kept
    BY <1>6
  <2>5. QED BY <1>2, <1>7, <2>1, <2>2, <2>3, <2>4, Zenon DEF Next
<1>9. QED BY <1>1, <1>8

LEMMA SwitchInit == Init => SwitchInv
<1> SUFFICES ASSUME Init PROVE SwitchInv
  OBVIOUS
<1>1. TypeOK
  BY SwitchTypeInit
<1>2. SeatsFollowFences
  BY DEF Init, LedgerInit, SeatsFollowFences, NoSeat
<1>3. \A o \in Ops : /\ ops[o].phase = "none" /\ ops[o].gen = 0
                     /\ ops[o].failing = FALSE /\ ops[o].result = "none"
                     /\ ops[o].history = {} /\ ops[o].left = {}
                     /\ ops[o].sources = {}
  BY DEF Init, NoRecord, NewOp
<1>4. NewestIsActive
  BY <1>3 DEF NewestIsActive, Unfinished
<1>5. ASSUME NEW o \in Ops, Owner[o] \in Users PROVE OperationOK(o)
  <2>1. active[Owner[o]] # o /\ gen[Owner[o]] = 0
    BY <1>5, OwnerAssumption DEF Init
  <2>2. \A r \in Rooms : o \notin receipts[r]
    BY DEF Init, LedgerInit
  <2>3. Names(ops[o].sources) = {}
    BY <1>3 DEF Names
  <2>4. QED BY <1>3, <2>1, <2>2, <2>3
            DEF OperationOK, Unprepared, Unfinished, Target
<1>6. ASSUME NEW u \in Users PROVE RequestOK(u)
  BY DEF Init, Idle, RequestOK, Steps, Writing, Scanning, Preparing
<1>7. now <= MaxTime
  BY NumbersAssumption DEF Init, LedgerInit
<1>8. orphans = {} /\ \A u \in Users : active[u] = NoOp
  BY DEF Init
<1>9. QED BY <1>2, <1>3, <1>4, <1>5, <1>6, <1>7, <1>8 DEF SwitchInv

-----------------------------------------------------------------------------
\* The theorems.

\* Every state keeps the types and every operation, request and orphaned call
\* of AccountDO where SwitchInv says it stands.
THEOREM SwitchInvariant == Spec => []Inv
<1>1. Init => Inv
  BY SwitchTypeInit, SwitchInit DEF Inv
<1>2. Inv /\ [Next]_vars => Inv'
  BY SwitchNext DEF Inv, Kept
<1>3. QED BY <1>1, <1>2, PTL DEF Spec

\* The records of AccountDO and the rows of the rooms keep their types
\* (account-do.ts, ParticipationOperation).
THEOREM SwitchTypeCorrect == Spec => []TypeOK
<1>1. Inv => TypeOK
  BY DEF Inv
<1>2. QED BY <1>1, SwitchInvariant, PTL
=============================================================================
