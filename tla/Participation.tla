---------------------------- MODULE Participation ----------------------------
(***************************************************************************)
(* Switching rooms: the AccountDO of every user                            *)
(* (workers/account/account-do.ts) and the RPCs it makes to the rooms of   *)
(* RoomLedger.                                                             *)
(*                                                                         *)
(* An operation is persisted in AccountDO and driven through the phases    *)
(* confirmation (who is where, hold a seat at the destination), leaving    *)
(* (leave every source), joining (take the seat) and ready (a result).     *)
(* blockConcurrencyWhile lets one request of a user run at a time; run[u]  *)
(* is that request between two RPCs.  A request that dies (crash, reset    *)
(* after 30 s, lost answer) loses run[u], keeps what was persisted, and    *)
(* may leave its last RPC under way: it then reaches the room at any later *)
(* time, or never.  An RPC that only reads cannot be told from a dead      *)
(* request when its answer is lost, so only writes are ever orphaned.      *)
(***************************************************************************)
EXTENDS RoomLedger

CONSTANTS
  Users,        \* the people whose accounts act; the others only take room
  MaxAborts,    \* bound on requests that die
  MaxEvents     \* bound on what happens to rooms outside operations

ASSUME UsersAssumption ==
  Users \subseteq People /\ MaxAborts \in Nat /\ MaxEvents \in Nat
ASSUME RoomsAssumption == Rooms # {} /\ NoOp \notin Rooms

VARIABLES
  gen,          \* "generation" of each account
  active,       \* "active": the operation that holds the account, or NoOp
  index,        \* "participation-index": rooms the user may be in
  ops,          \* "op:..." records
  alias,        \* "request:...": the operation another request was folded into
  run,          \* the request being served, lost when it dies
  orphans,      \* RPCs of dead requests still under way
  grant,        \* the room a positive mayOperate answer is on its way to
  aborts,       \* how many requests died
  events        \* how many outside events happened

acctVars == <<gen, active, index, ops, alias>>
vars == <<ledgerVars, acctVars, run, orphans, grant, aborts, events>>

-----------------------------------------------------------------------------
Source == Rooms \X Titles       \* a room and the name it had when read

Operation ==
  [phase : {"none", "confirmation", "leaving", "joining", "ready"},
   kind : {"join", "revisit"},  \* op.confirmation.target
   target : Rooms,              \* op.destination
   sources : SUBSET Source,     \* op.confirmation.sources
   history : SUBSET Rooms,      \* op.sourceHistory
   left : SUBSET Rooms,
   gen : Nat,                   \* 0 until the confirmation assigns one
   failing : BOOLEAN,           \* op.terminalFailure is set
   result : {"none", "ready", "rejected"}]

NewOp(kind, d, found) ==
  [phase |-> "confirmation", kind |-> kind, target |-> d, sources |-> found,
   history |-> {s[1] : s \in found}, left |-> {}, gen |-> 0,
   failing |-> FALSE, result |-> "none"]

NoRecord == [NewOp("join", CHOOSE d \in Rooms : TRUE, {}) EXCEPT !.phase = "none"]

\* Steps at which a request waits for a room.
Writing == {"reserve", "renew", "leave", "join", "cancel"}
Scanning == {"inspectScan", "prepareScan", "confirmScan", "changedScan",
             "failureScan"}
Steps == {"idle", "prepare", "destination", "reconcile", "leaving",
          "admission", "finish"} \cup Writing \cup Scanning

Request ==
  [step : Steps, op : Ops \cup {NoOp}, kind : {"join", "revisit"},
   target : Rooms \cup {NoOp},
   todo : SUBSET Rooms,         \* rooms a loop has still to ask
   found : SUBSET Source,       \* previews a scan has collected
   source : Source \cup {NoOp}, \* the room being left
   lease : Nat]                 \* expiresAt read back from the destination

Idle == [step |-> "idle", op |-> NoOp, kind |-> "join", target |-> NoOp,
         todo |-> {}, found |-> {}, source |-> NoOp, lease |-> 0]

Message ==
  [rpc : Writing, op : Ops, room : Rooms, gen : Nat,
   source : Source \cup {NoOp}, lease : Nat, id : Nat]

TypeOK ==
  /\ LedgerTypeOK
  /\ gen \in [Users -> Nat]
  /\ active \in [Users -> Ops \cup {NoOp}]
  /\ index \in [Users -> SUBSET Rooms]
  /\ ops \in [Ops -> Operation]
  /\ alias \in [Ops -> Ops \cup {NoOp}]
  /\ run \in [Users -> Request]
  /\ orphans \subseteq Message
  /\ grant \in [Users -> Rooms \cup {NoOp}]
  /\ aborts \in 0 .. MaxAborts
  /\ events \in 0 .. MaxEvents

\* ensureIndex has run for everybody: the index lists the rooms people are in.
Init ==
  /\ LedgerInit
  /\ gen = [u \in Users |-> 0]
  /\ active = [u \in Users |-> NoOp]
  /\ index = [u \in Users |-> {r \in Rooms : u \in members[r]}]
  /\ ops = [o \in Ops |-> NoRecord]
  /\ alias = [o \in Ops |-> NoOp]
  /\ run = [u \in Users |-> Idle]
  /\ orphans = {}
  /\ grant = [u \in Users |-> NoOp]
  /\ aborts = 0
  /\ events = 0

-----------------------------------------------------------------------------
Names(sources) == {s[1] : s \in sources}
Unfinished(o) == ops[o].phase \notin {"none", "ready"}

\* Rooms of S where operation o left a receipt.
Receipted(S, o) == {r \in S : o \in receipts[r]}

\* The write RPC a request is about to make to room r.
Call(u, r) ==
  [rpc |-> run[u].step, op |-> run[u].op, room |-> r,
   gen |-> ops[run[u].op].gen, source |-> run[u].source,
   lease |-> run[u].lease, id |-> aborts]

\* Mutant of CallTargets: the destination is cancelled first.
CallTargetsDestinationFirst(u) ==
  CASE run[u].step = "leave" -> {run[u].source[1]}
    [] OTHER -> {ops[run[u].op].target}

\* cancelParticipation goes to the sources first, to the destination last.
CallTargets(u) ==
  CASE run[u].step = "leave" -> {run[u].source[1]}
    [] run[u].step = "cancel" /\ run[u].todo # {} -> run[u].todo
    [] OTHER -> {ops[run[u].op].target}

\* What the room does when the RPC arrives.
Arrive(m) ==
  \/ m.rpc \in {"reserve", "renew"} /\ Reserve(m.room, m.op, m.gen)
  \/ m.rpc = "join" /\ Commit(m.room, m.op, m.gen)
  \/ m.rpc = "leave" /\ Leave(m.room, m.op, m.gen, m.lease, m.source[2])
  \/ m.rpc = "cancel" /\ Cancel(m.room, m.op, m.gen)

Goto(u, next) == run' = [run EXCEPT ![u] = next]
Step(u, step) == Goto(u, [run[u] EXCEPT !.step = step])

\* sources(except): ask every indexed room but one whether the user takes part.
Scan(u, step, except) ==
  [run[u] EXCEPT !.step = step, !.todo = index[u] \ {except}, !.found = {},
                 !.source = NoOp, !.lease = 0]

\* finishFailure writes the intent down before the first cancel.
Fail(u, o) ==
  /\ ops' = [ops EXCEPT ![o].failing = TRUE]
  /\ Goto(u, [Idle EXCEPT !.step = "cancel", !.op = o,
                          !.todo = ops[o].history])
  /\ UNCHANGED <<gen, active, index, alias>>

-----------------------------------------------------------------------------
\* Requests entering the gate.

\* prepare with an id never seen, for an account without an operation.
Prepare(u, o, kind, d) ==
  /\ run[u] = Idle
  /\ Owner[o] = u /\ ops[o].phase = "none" /\ alias[o] = NoOp
  /\ active[u] = NoOp
  /\ Goto(u, [Idle EXCEPT !.step = "prepare", !.op = o, !.kind = kind,
                          !.target = d])
  /\ UNCHANGED <<ledgerVars, acctVars, orphans, grant, aborts, events>>

\* prepare while another operation holds the account: the id becomes an alias
\* of that operation, so sending it again follows that operation.
PrepareBehind(u, o) ==
  /\ run[u] = Idle
  /\ Owner[o] = u /\ ops[o].phase = "none" /\ alias[o] = NoOp
  /\ active[u] # NoOp
  /\ alias' = [alias EXCEPT ![o] = active[u]]
  /\ UNCHANGED <<ledgerVars, gen, active, index, ops, run, orphans, grant,
                 aborts, events>>

\* GET /api/rooms/:id from a member: inspect lists the room and, when the user
\* takes part elsewhere too, prepares a revisit under a fresh id.
Inspect(u, o, r) ==
  /\ run[u] = Idle
  /\ TakesPart(u, r)
  /\ Owner[o] = u /\ ops[o].phase = "none" /\ alias[o] = NoOp
  /\ active[u] = NoOp
  /\ index' = [index EXCEPT ![u] = @ \cup {r}]
  /\ Goto(u, [Idle EXCEPT !.step = "inspectScan", !.op = o, !.kind = "revisit",
                          !.target = r, !.todo = index[u] \ {r}])
  /\ UNCHANGED <<ledgerVars, gen, active, ops, alias, orphans, grant, aborts, events>>

\* commit, status, or prepare of a known id (or alias): commitInside up to its
\* first RPC, by the phase the operation was left in.
Resume(u, o) ==
  /\ run[u] = Idle
  /\ Owner[o] = u /\ Unfinished(o)
  /\ active[u] \in {o, NoOp} \/ ops[o].failing
  /\ \/ /\ ops[o].failing
        /\ Fail(u, o)
     \/ /\ ~ops[o].failing
        /\ ops[o].gen # 0 /\ ops[o].gen < gen[u]
        /\ ops' = [ops EXCEPT ![o].phase = "ready", ![o].result = "rejected"]
        /\ active' = [active EXCEPT ![u] = IF @ = o THEN NoOp ELSE @]
        /\ UNCHANGED <<gen, index, alias, run>>
     \/ /\ ~ops[o].failing
        /\ ops[o].gen = 0 \/ ops[o].gen >= gen[u]
        /\ Goto(u, [Idle EXCEPT !.op = o, !.step =
                      CASE ops[o].phase = "confirmation" -> "destination"
                        [] ops[o].phase = "leaving" -> "reconcile"
                        [] ops[o].phase = "joining" -> "admission"])
        /\ UNCHANGED acctVars
  /\ UNCHANGED <<ledgerVars, orphans, grant, aborts, events>>

-----------------------------------------------------------------------------
\* destination() and sources().

Refuses(d, u, kind) ==
  (kind = "revisit" /\ u \notin members[d]) \/ CanAccept(d, u) # "ok"

\* prepareInside: the destination must take the user before anything is kept.
PrepareDestination(u) ==
  LET d == run[u].target
  IN /\ run[u].step = "prepare"
     /\ Goto(u, IF Refuses(d, u, run[u].kind) THEN Idle
                ELSE Scan(u, "prepareScan", d))
     /\ UNCHANGED <<ledgerVars, acctVars, orphans, grant, aborts, events>>

\* commitInside, phase confirmation: check the destination again.
ConfirmDestination(u) ==
  LET o == run[u].op
      d == ops[o].target
  IN /\ run[u].step = "destination"
     /\ \/ /\ Refuses(d, u, ops[o].kind)
           /\ Fail(u, o)
        \/ /\ ~Refuses(d, u, ops[o].kind)
           /\ Goto(u, Scan(u, "confirmScan", d))
           /\ UNCHANGED acctVars
     /\ UNCHANGED <<ledgerVars, orphans, grant, aborts, events>>

\* One participationPreview of the loop in sources().
ScanRoom(u, r) ==
  /\ run[u].step \in Scanning
  /\ r \in run[u].todo
  /\ Goto(u, [run[u] EXCEPT !.todo = @ \ {r},
                !.found = IF TakesPart(u, r)
                          THEN @ \cup {<<r, title[r]>>} ELSE @])
  /\ UNCHANGED <<ledgerVars, acctVars, orphans, grant, aborts, events>>

\* Mutant of ScanDone: the excepted room is dropped from the index.
ScanDoneDroppingExcept(u, step, except) ==
  /\ run[u].step = step
  /\ run[u].todo = {}
  /\ index' = [index EXCEPT ![u] = Names(run[u].found)]

\* sources() ends by writing the index back: the rooms that answered, and the
\* excepted one if it was listed.
ScanDone(u, step, except) ==
  /\ run[u].step = step
  /\ run[u].todo = {}
  /\ index' = [index EXCEPT ![u] =
                 (@ \cap {except}) \cup Names(run[u].found)]

InspectDone(u) ==
  /\ ScanDone(u, "inspectScan", run[u].target)
  /\ Goto(u, IF run[u].found = {} THEN Idle
             ELSE [run[u] EXCEPT !.step = "prepare", !.found = {}])
  /\ UNCHANGED <<ledgerVars, gen, active, ops, alias, orphans, grant, aborts, events>>

\* The operation is written down together with the lock on the account.
PrepareDone(u) ==
  LET o == run[u].op
  IN /\ ScanDone(u, "prepareScan", run[u].target)
     /\ ops' = [ops EXCEPT ![o] = NewOp(run[u].kind, run[u].target, run[u].found)]
     /\ active' = [active EXCEPT ![u] = o]
     /\ Goto(u, [Idle EXCEPT !.step = "destination", !.op = o])
     /\ UNCHANGED <<ledgerVars, gen, alias, orphans, grant, aborts, events>>

\* The sources are fixed and the operation gets the next generation.
ConfirmDone(u) ==
  LET o == run[u].op
      g == IF ops[o].gen = 0 THEN gen[u] + 1 ELSE ops[o].gen
  IN /\ ScanDone(u, "confirmScan", ops[o].target)
     /\ ops' = [ops EXCEPT ![o].sources = run[u].found,
                           ![o].history = @ \cup Names(run[u].found),
                           ![o].gen = g]
     /\ gen' = [gen EXCEPT ![u] = g]
     /\ active' = [active EXCEPT ![u] = o]
     /\ Goto(u, [Idle EXCEPT !.step = "reserve", !.op = o])
     /\ UNCHANGED <<ledgerVars, alias, orphans, grant, aborts, events>>

\* A source answered "changed": look again and start over at confirmation.
ChangedDone(u) ==
  LET o == run[u].op
  IN /\ ScanDone(u, "changedScan", ops[o].target)
     /\ ops' = [ops EXCEPT ![o].sources = run[u].found,
                           ![o].history = @ \cup Names(run[u].found),
                           ![o].phase = "confirmation"]
     /\ Goto(u, Idle)
     /\ UNCHANGED <<ledgerVars, gen, active, alias, orphans, grant, aborts, events>>

\* finishFailure: the result, the next generation and the unlock in one write.
FailureDone(u) ==
  LET o == run[u].op
  IN /\ ScanDone(u, "failureScan", NoOp)
     /\ ops' = [ops EXCEPT ![o].phase = "ready", ![o].result = "rejected"]
     /\ gen' = [gen EXCEPT ![u] = IF @ > ops[o].gen THEN @ ELSE ops[o].gen + 1]
     /\ active' = [active EXCEPT ![u] = IF @ = o THEN NoOp ELSE @]
     /\ Goto(u, Idle)
     /\ UNCHANGED <<ledgerVars, alias, orphans, grant, aborts, events>>

-----------------------------------------------------------------------------
\* The write RPCs, with what the account does on the answer.

\* Phase confirmation ends when the destination holds a seat.
AskSeat(u) ==
  LET o == run[u].op
      d == ops[o].target
  IN /\ run[u].step = "reserve"
     /\ Reserve(d, o, ops[o].gen)
     /\ \/ /\ ReserveReply(d, o, ops[o].gen) = "ok"
           /\ ops' = [ops EXCEPT ![o].phase = "leaving"]
           /\ Step(u, "reconcile")
           /\ UNCHANGED <<gen, active, index, alias>>
        \/ /\ ReserveReply(d, o, ops[o].gen) # "ok"
           /\ Fail(u, o)
     /\ UNCHANGED <<orphans, grant, aborts, events>>

\* reconcileExits: receipts written by calls whose answer was lost.
ReconcileExits(u) ==
  LET o == run[u].op
  IN /\ run[u].step = "reconcile"
     /\ ops' = [ops EXCEPT ![o].left = @ \cup Receipted(ops[o].history, o)]
     /\ Step(u, "leaving")
     /\ UNCHANGED <<ledgerVars, gen, active, index, alias, orphans, grant,
                    aborts, events>>

\* The next source: already receipted, no longer the user's, or to be left.
NextSource(u, s) ==
  LET o == run[u].op
      over == o \in receipts[s[1]] \/ ~TakesPart(u, s[1])
  IN /\ run[u].step = "leaving"
     /\ s \in ops[o].sources /\ s[1] \notin ops[o].left
     /\ ops' = IF over THEN [ops EXCEPT ![o].left = @ \cup {s[1]}] ELSE ops
     /\ Goto(u, IF over THEN run[u]
                ELSE [run[u] EXCEPT !.step = "admission", !.source = s])
     /\ UNCHANGED <<ledgerVars, gen, active, index, alias, orphans, grant,
                    aborts, events>>

AllLeft(u) ==
  LET o == run[u].op
  IN /\ run[u].step = "leaving"
     /\ Names(ops[o].sources) \subseteq ops[o].left
     /\ ops' = [ops EXCEPT ![o].phase = "joining"]
     /\ Step(u, "admission")
     /\ UNCHANGED <<ledgerVars, gen, active, index, alias, orphans, grant,
                    aborts, events>>

\* Mutant of Admission: a joined operation is an error in both phases.
AdmissionRejectingJoined(u) ==
  LET o == run[u].op
      joined == HasJoined(ops[o].target, o, ops[o].gen)
  IN /\ run[u].step = "admission"
     /\ Goto(u, IF joined THEN Idle ELSE [run[u] EXCEPT !.step = "renew"])
     /\ UNCHANGED <<ledgerVars, acctVars, orphans, grant, aborts, events>>

\* admission, first RPC: joining goes straight on when the room has already
\* joined the operation; leaving must not go on then.
Admission(u) ==
  LET o == run[u].op
      joined == HasJoined(ops[o].target, o, ops[o].gen)
  IN /\ run[u].step = "admission"
     /\ Goto(u, IF ~joined THEN [run[u] EXCEPT !.step = "renew"]
                ELSE IF ops[o].phase = "joining"
                THEN [run[u] EXCEPT !.step = "join"] ELSE Idle)
     /\ UNCHANGED <<ledgerVars, acctVars, orphans, grant, aborts, events>>

\* admission, second RPC: renew the seat and read its expiry back.
RenewSeat(u) ==
  LET o == run[u].op
      d == ops[o].target
  IN /\ run[u].step = "renew"
     /\ Reserve(d, o, ops[o].gen)
     /\ \/ /\ ReserveReply(d, o, ops[o].gen) = "ok"
           /\ Goto(u, IF ops[o].phase = "joining"
                      THEN [run[u] EXCEPT !.step = "join"]
                      ELSE [run[u] EXCEPT !.step = "leave",
                                          !.lease = now + LeaseTime])
           /\ UNCHANGED acctVars
        \/ /\ ReserveReply(d, o, ops[o].gen) # "ok"
           /\ Fail(u, o)
     /\ UNCHANGED <<orphans, grant, aborts, events>>

\* Mutant of LeaveSource: "changed" is taken for having left.
LeaveSourceTrusting(u) ==
  LET o == run[u].op
      s == run[u].source
  IN /\ run[u].step = "leave"
     /\ Leave(s[1], o, ops[o].gen, run[u].lease, s[2])
     /\ ops' = [ops EXCEPT ![o].left = @ \cup {s[1]}]
     /\ Goto(u, [Idle EXCEPT !.step = "leaving", !.op = o])
     /\ UNCHANGED <<gen, active, index, alias, orphans, grant, aborts, events>>

LeaveSource(u) ==
  LET o == run[u].op
      s == run[u].source
      reply == LeaveReply(s[1], o, ops[o].gen, run[u].lease, s[2])
  IN /\ run[u].step = "leave"
     /\ Leave(s[1], o, ops[o].gen, run[u].lease, s[2])
     /\ ops' = IF reply = "left"
               THEN [ops EXCEPT ![o].left = @ \cup {s[1]}] ELSE ops
     /\ Goto(u, CASE reply = "left" ->
                       [Idle EXCEPT !.step = "leaving", !.op = o]
                  [] reply = "changed" ->
                       Scan(u, "changedScan", ops[o].target)
                  [] OTHER -> Idle)
     /\ UNCHANGED <<gen, active, index, alias, orphans, grant, aborts, events>>

\* Mutant of JoinDestination: the answer of the room is not looked at.
JoinUnchecked(u) ==
  LET o == run[u].op
  IN /\ run[u].step = "join"
     /\ Commit(ops[o].target, o, ops[o].gen)
     /\ Step(u, "finish")
     /\ UNCHANGED <<acctVars, orphans, grant, aborts, events>>

\* Mutant of JoinDestination: the membership is written around the ledger.
JoinAround(u) ==
  LET d == ops[run[u].op].target
  IN /\ run[u].step = "join"
     /\ members' = [members EXCEPT ![d] = @ \cup {u}]
     /\ colors' = [colors EXCEPT ![d] = @ \cup {u}]
     /\ Step(u, "finish")
     /\ UNCHANGED <<retained, stage, title, fence, seat, receipts, now>>
     /\ UNCHANGED <<acctVars, orphans, grant, aborts, events>>

JoinDestination(u) ==
  LET o == run[u].op
      d == ops[o].target
  IN /\ run[u].step = "join"
     /\ Commit(d, o, ops[o].gen)
     /\ Goto(u, IF CommitReply(d, o, ops[o].gen) = "ok"
                THEN [run[u] EXCEPT !.step = "finish"] ELSE Idle)
     /\ UNCHANGED <<acctVars, orphans, grant, aborts, events>>

\* finishReady: result, index and unlock in one write.
FinishReady(u) ==
  LET o == run[u].op
      left == ops[o].left \cup Receipted(ops[o].history, o)
  IN /\ run[u].step = "finish"
     /\ ops' = [ops EXCEPT ![o].left = left, ![o].phase = "ready",
                           ![o].failing = FALSE, ![o].result = "ready"]
     /\ index' = [index EXCEPT ![u] = (@ \ left) \cup {ops[o].target}]
     /\ active' = [active EXCEPT ![u] = IF @ = o THEN NoOp ELSE @]
     /\ Goto(u, Idle)
     /\ UNCHANGED <<ledgerVars, gen, alias, orphans, grant, aborts, events>>

CancelNext(u) ==
  LET o == run[u].op
  IN /\ run[u].step = "cancel"
     /\ \E r \in CallTargets(u) :
          /\ Cancel(r, o, ops[o].gen)
          /\ Goto(u, IF run[u].todo = {} THEN Scan(u, "failureScan", NoOp)
                     ELSE [run[u] EXCEPT !.todo = @ \ {r}])
     /\ UNCHANGED <<acctVars, orphans, grant, aborts, events>>

-----------------------------------------------------------------------------
\* Requests that die, and their calls that arrive all the same.

Abort(u) ==
  /\ run[u] # Idle
  /\ aborts < MaxAborts
  /\ aborts' = aborts + 1
  /\ Goto(u, Idle)
  /\ \/ orphans' = orphans
     \/ /\ run[u].step \in Writing
        /\ \E r \in CallTargets(u) : orphans' = orphans \cup {Call(u, r)}
  /\ UNCHANGED <<ledgerVars, acctVars, grant, events>>

ArriveLate(m) ==
  /\ m \in orphans
  /\ orphans' = orphans \ {m}
  /\ Arrive(m)
  /\ UNCHANGED <<acctVars, run, grant, aborts, events>>

-----------------------------------------------------------------------------
\* Working in a room: RoomDO asks the account first and looks at its own
\* members again when the answer is back (handleClientMessage).

\* Mutant of MayOperate: it is enough that the index lists the room.
MayOperateIfListed(u, r) ==
  /\ TakesPart(u, r)
  /\ run[u] = Idle
  /\ active[u] = NoOp
  /\ r \in index[u]
  /\ grant[u] = NoOp
  /\ grant' = [grant EXCEPT ![u] = r]
  /\ UNCHANGED <<ledgerVars, acctVars, run, orphans, aborts, events>>

\* Nothing reads a grant but the room it goes to, so one at a time will do.
MayOperate(u, r) ==
  /\ TakesPart(u, r)
  /\ run[u] = Idle
  /\ active[u] = NoOp
  /\ index[u] = {r}
  /\ grant[u] = NoOp
  /\ grant' = [grant EXCEPT ![u] = r]
  /\ UNCHANGED <<ledgerVars, acctVars, run, orphans, aborts, events>>

Operate(u, r) ==
  /\ grant[u] = r
  /\ grant' = [grant EXCEPT ![u] = NoOp]
  /\ UNCHANGED <<ledgerVars, acctVars, run, orphans, aborts, events>>

-----------------------------------------------------------------------------
Work(u) ==
  \/ PrepareDestination(u) \/ ConfirmDestination(u)
  \/ \E r \in Rooms : ScanRoom(u, r)
  \/ InspectDone(u) \/ PrepareDone(u) \/ ConfirmDone(u)
  \/ ChangedDone(u) \/ FailureDone(u)
  \/ AskSeat(u) \/ ReconcileExits(u)
  \/ \E s \in Source : NextSource(u, s)
  \/ AllLeft(u) \/ Admission(u) \/ RenewSeat(u) \/ LeaveSource(u)
  \/ JoinDestination(u) \/ FinishReady(u) \/ CancelNext(u)

Requests(u) ==
  \E o \in Ops :
    \/ \E kind \in {"join", "revisit"}, d \in Rooms : Prepare(u, o, kind, d)
    \/ PrepareBehind(u, o)
    \/ \E r \in Rooms : Inspect(u, o, r)
    \/ Resume(u, o)

\* Time passes freely up to MaxTime; other outside events are counted.
Outside ==
  /\ events' = IF now' = now THEN events + 1 ELSE events
  /\ events' <= MaxEvents
  /\ UNCHANGED <<acctVars, run, orphans, grant, aborts>>

\* Somebody whose account is not modelled holds a seat and takes it.
OthersReserve(r, o) ==
  /\ Owner[o] \notin Users
  /\ events < MaxEvents
  /\ events' = events + 1
  /\ Reserve(r, o, 1)
  /\ UNCHANGED <<acctVars, run, orphans, grant, aborts>>

OthersJoin(r, o) ==
  /\ Owner[o] \notin Users
  /\ Commit(r, o, 1)
  /\ UNCHANGED <<acctVars, run, orphans, grant, aborts, events>>

Next ==
  \/ \E r \in Rooms, o \in Ops : OthersReserve(r, o) \/ OthersJoin(r, o)
  \/ \E u \in Users : Requests(u) \/ Work(u) \/ Abort(u)
  \/ \E m \in orphans : ArriveLate(m)
  \/ \E u \in Users, r \in Rooms : MayOperate(u, r) \/ Operate(u, r)
  \/ Surroundings /\ Outside

Spec == Init /\ [][Next]_vars

\* A request being served goes on unless it dies, and somebody comes back to
\* an operation that is not finished: the client sends the same id again,
\* and any GET of a room by its owner resumes it (inspect).
Fairness ==
  \A u \in Users : WF_vars(Work(u)) /\ \A o \in Ops : WF_vars(Resume(u, o))

FairSpec == Spec /\ Fairness

-----------------------------------------------------------------------------
\* Safety.

\* Whoever is added to a room takes part nowhere else at that moment, however
\* late the call arrives (account-do.ts, the promise of the whole operation).
JoinIsExclusive ==
  [][\A u \in Users, r \in Rooms :
       u \in members'[r] \ members[r]
       => \A q \in Rooms \ {r} : ~TakesPart(u, q)]_vars

\* A source is given up only while the destination still holds the seat of
\* this operation: nobody leaves a room for one that no longer waits for them
\* (account-do.ts, admission before each leaveForParticipation).
LeaveHoldsSeat ==
  [][\A o \in Ops, r \in Rooms :
       o \in receipts'[r] \ receipts[r]
       => HoldsSeat(ops[o].target, o, ops[o].gen)]_vars

\* The reported result is what happened at the destination.  ready: the room
\* joined the user for this operation, or a later operation has gone there.
\* Given up (failing): no open room has joined the user for it.  Two calls of
\* the operation, a join and a renewal of its seat, that are late together and
\* arrive before the cancellation at the destination are the exception: with
\* both the user is in a room the operation was refused at and the index does
\* not list (LateCallsApart in ParticipationResults, README).
ResultIsTrue ==
  \A o \in Ops :
    LET d == ops[o].target
    IN /\ ops[o].result = "ready"
          => HasJoined(d, o, ops[o].gen) \/ fence[d][Owner[o]].gen > ops[o].gen
       /\ ops[o].failing
          => ~(HasJoined(d, o, ops[o].gen) /\ Joinable(d))

\* The index never loses a room the user is in: what sources() does not list,
\* no operation would leave (account-do.ts, sources and finishReady).
IndexCoversRooms ==
  \A u \in Users, r \in Rooms : TakesPart(u, r) =>
    \/ r \in index[u]
    \/ active[u] # NoOp /\ ops[active[u]].target = r

\* A permission to work in a room that is still on its way, and that the room
\* would accept, never lets the user work in two rooms (room-do.ts,
\* handleClientMessage awaits mayOperate and then checks its own members).
GrantIsExclusive ==
  \A u \in Users, r \in Rooms :
    grant[u] = r /\ TakesPart(u, r)
    => \A q \in Rooms \ {r} : ~TakesPart(u, q)

-----------------------------------------------------------------------------
\* Liveness.

\* Every operation ends and frees its account, whatever requests died on the
\* way (account-do.ts, resumeInside and finishFailure).
EveryMoveEnds ==
  \A u \in Users : active[u] # NoOp ~> active[u] = NoOp
=============================================================================
