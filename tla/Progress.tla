------------------------------- MODULE Progress -------------------------------
(***************************************************************************)
(* How one room moves through the sprint (workers/room: phase, timer,      *)
(* sharing, progress, phase-rollback, alarms and the handlers of room-do). *)
(*                                                                         *)
(* RoomDO keeps everything in SQLite and runs a handler without letting    *)
(* another event in before it is done, so a handler is one step here and a *)
(* function on the record room.  Every accepted message, a leave and a     *)
(* disconnection go on with advanceAfterExtendedTimer on the state they    *)
(* left, and the one alarm is recomputed by the code that moves deadlines. *)
(*                                                                         *)
(* Deadlines are kept as the time left, which Tick counts down to zero and *)
(* no further: a deadline that is due stays due until somebody acts on it, *)
(* so the alarm may come late and any message may come before it.          *)
(* A message carries the revision of the phase or turn its sender saw and  *)
(* is refused when it changed; only messages that are current act here.    *)
(***************************************************************************)
EXTENDS Naturals, Sequences, FiniteSets, SequencesExt, FiniteSetsExt

CONSTANTS
  People,       \* user ids
  NoTime,       \* no deadline
  TurnTime,     \* durationMs of a timer or a turn
  ExtraTime,    \* EXTENSION_UNIT_MS
  LeadTime,     \* the two seconds a turn is announced
  IdleTime,     \* the day a room may stay without a connection
  Starts,       \* where the model picks a room up
  MaxDepth      \* bound on the rollback checkpoints kept

ASSUME TimesAssumption ==
  /\ {TurnTime, ExtraTime, LeadTime, IdleTime} \subseteq Nat \ {0}
  /\ NoTime \notin Nat
ASSUME DepthAssumption == MaxDepth \in Nat \ {0}
ASSUME PeopleAssumption == IsFiniteSet(People)

VARIABLE room   \* the storage of one RoomDO and its open sockets

-----------------------------------------------------------------------------
\* Phases (contracts/phase.ts).

Lobby == <<0, 0>>
StepCount == <<5, 4, 5>>
VotingStep == <<4, 3, 4>>
Steps == UNION {{p} \X (1 .. StepCount[p]) : p \in 1 .. 3}

IsVoting(ph) == ph # Lobby /\ ph[2] = VotingStep[ph[1]]
IsResult(ph) == ph # Lobby /\ ph[2] = StepCount[ph[1]]
IsSharing(ph) == ph[2] = 2
MayRestart(ph) == ph # Lobby /\ ph[2] >= 2 /\ ph[2] < VotingStep[ph[1]]

\* nextRoomPhase
NextPhase(ph) ==
  IF ph = Lobby THEN <<1, 1>>
  ELSE IF ph[2] < StepCount[ph[1]] THEN <<ph[1], ph[2] + 1>>
  ELSE IF ph[1] < 3 THEN <<ph[1] + 1, 1>> ELSE ph

ASSUME StartsAssumption ==
  Starts \subseteq {Lobby} \cup {ph \in Steps : ph[2] = 1 \/ IsVoting(ph)}

-----------------------------------------------------------------------------
\* The record.

Time == Nat \cup {NoTime}
Orders == UNION {{s \in [1 .. n -> People] : IsInjective(s)} :
                   n \in 0 .. Cardinality(People)}

\* What a room's notes, votes and decisions come to for its progress.
Board ==
  [decided : SUBSET (1 .. 3),   \* table decisions
   cand : BOOLEAN,              \* hasCandidateNotes of the current phase
   voted : SUBSET People]       \* hasCompletedVoting of the current phase

Timer ==
  [status : {"idle", "running", "paused", "ended"}, left : Nat, full : Nat,
   ext : BOOLEAN]               \* extension_used

\* heard is the length of results; the presenter of an active turn is next.
Sharing ==
  [status : {"none", "inactive", "ready", "active", "complete"},
   order : Orders, heard : Nat, startsIn : Time]

Checkpoint ==
  [phase : Steps, board : Board, timer : Timer, sharing : Sharing]

Room ==
  [members : SUBSET People,
   connected : SUBSET People,   \* open sockets of members
   phase : Steps \cup {Lobby},
   ready : SUBSET People,       \* phase_progress_ready of this revision
   board : Board,
   timer : Timer,
   sharing : Sharing,
   checkpoints : Seq(Checkpoint),
   idle : Time,                 \* room_idle_deadline
   alarm : Time,                \* the alarm of the Durable Object
   closed : BOOLEAN]            \* isRoomClosed

NoTimer == [status |-> "idle", left |-> 0, full |-> 0, ext |-> FALSE]
NoSharing ==
  [status |-> "none", order |-> <<>>, heard |-> 0, startsIn |-> NoTime]

\* The drawings of lots: everybody's number, whoever is there to be ordered by it.
Lots == Injection(People, 1 .. Cardinality(People))
\* Outside a rollback lots are drawn only while there is no order.
Draws == IF room.sharing.order = <<>> THEN Lots ELSE {<<>>}
Drawn(lot, S) ==
  [i \in 1 .. Cardinality(S) |->
     CHOOSE u \in S : Cardinality({v \in S : lot[v] <= lot[u]}) = i]

TypeOK == room \in Room

\* A room in the lobby, or where phase:restart-writing or phase:revote has
\* just put it: in step 1 or a voting step, without a checkpoint.
Init ==
  \E ph \in Starts, there \in SUBSET People, lot \in Lots :
    \E here \in SUBSET there :
      /\ here # {}
      /\ room =
           [members |-> there, connected |-> here, phase |-> ph, ready |-> {},
            board |-> [decided |-> 1 .. (ph[1] - 1), cand |-> IsVoting(ph),
                       voted |-> {}],
            timer |-> NoTimer,
            sharing |-> IF ph = Lobby THEN NoSharing
                        ELSE [NoSharing EXCEPT !.status = "inactive",
                                               !.order = Drawn(lot, there)],
            checkpoints |-> <<>>, idle |-> NoTime, alarm |-> NoTime,
            closed |-> FALSE]

-----------------------------------------------------------------------------
\* Reading the room.

\* getTimerState: a running timer that is due reads as ended before the alarm.
TimerEnded(t) == t.status = "ended" \/ (t.status = "running" /\ t.left = 0)
TimerOn(t) == t.status \in {"running", "ended"}

AllReady(r) == r.connected # {} /\ r.connected \subseteq r.ready

VotesAreIn(r) ==
  IsVoting(r.phase) =>
    r.connected # {} /\ r.connected \subseteq r.board.voted

\* Mutant of MayMoveOn: the decision of the phase is not asked for.
MayMoveOnUndecided(r) ==
  /\ r.phase # Lobby
  /\ IsSharing(r.phase) => r.sharing.status \in {"none", "complete"}
  /\ VotesAreIn(r)
  /\ TimerEnded(r.timer) \/ AllReady(r)
  /\ NextPhase(r.phase) # r.phase

\* What phase:next asks for.  Its transaction asks again whether the room is open,
\* the turn over, the votes in and everybody ready, but not for the decision or
\* the candidates; the input gate lets nothing come between.
MayMoveOn(r) ==
  LET next == NextPhase(r.phase)
  IN /\ ~r.closed
     /\ r.phase # Lobby
     /\ IsSharing(r.phase) => r.sharing.status \in {"none", "complete"}
     /\ VotesAreIn(r)
     /\ TimerEnded(r.timer) \/ AllReady(r)
     /\ IsResult(r.phase) => r.board.cand
     /\ IsVoting(next) /\ ~IsSharing(r.phase) => r.board.cand
     /\ next # r.phase
     /\ next[1] # r.phase[1] => r.phase[1] \in r.board.decided

Presenter(s) == s.order[s.heard + 1]

-----------------------------------------------------------------------------
\* Deadlines.

Deadlines(r) ==
  {d \in {IF r.closed THEN NoTime ELSE r.idle,
          r.sharing.startsIn,
          IF r.timer.status = "running" THEN r.timer.left ELSE NoTime} :
     d # NoTime}

\* Mutant of SyncAlarm: an announced turn has no deadline of its own.
SyncAlarmForTimer(r) ==
  LET due == Deadlines([r EXCEPT !.sharing.startsIn = NoTime])
  IN [r EXCEPT !.alarm = IF due = {} THEN NoTime ELSE Min(due)]

\* syncRoomAlarm
SyncAlarm(r) ==
  [r EXCEPT !.alarm = IF Deadlines(r) = {} THEN NoTime ELSE Min(Deadlines(r))]

\* Mutant of SyncIdle: the deadline starts anew at every look.
SyncIdleAnew(r) ==
  [r EXCEPT !.idle =
     IF r.closed \/ r.connected # {} \/ r.members = {} THEN NoTime ELSE IdleTime]

\* syncIdleDeadline: a deadline once set is kept until somebody connects.
SyncIdle(r) ==
  [r EXCEPT !.idle =
     IF r.closed \/ r.connected # {} THEN NoTime
     ELSE IF r.members # {} /\ r.idle = NoTime THEN IdleTime ELSE r.idle]

\* closeRoom
Close(r) ==
  [r EXCEPT !.closed = TRUE, !.members = {}, !.connected = {}, !.idle = NoTime,
            !.timer = NoTimer, !.sharing = NoSharing, !.checkpoints = <<>>,
            !.board = [decided |-> {}, cand |-> FALSE, voted |-> {}]]

\* closeExpiredIdleRoom
IdleIsOver(r) == ~r.closed /\ r.idle = 0 /\ r.connected = {}

-----------------------------------------------------------------------------
\* Moving from phase to phase.

\* resetSharingForPhase: the order is drawn once and kept from then on.
ResetSharing(r, next, lot) ==
  LET s == r.sharing
  IN IF ~IsSharing(next) /\ s.status = "none" THEN s
     ELSE [status |-> IF IsSharing(next) THEN "ready" ELSE "inactive",
           order |-> IF IsSharing(next) /\ s.order = <<>>
                     THEN Drawn(lot, r.members) ELSE s.order,
           heard |-> 0, startsIn |-> NoTime]

\* captureRollbackCheckpoint: a running timer is kept with the time left.
Capture(r) ==
  [phase |-> r.phase, board |-> r.board,
   timer |-> IF TimerEnded(r.timer) THEN [r.timer EXCEPT !.status = "ended"]
             ELSE IF r.timer.status = "running"
             THEN [r.timer EXCEPT !.status = "paused"] ELSE r.timer,
   sharing |-> [r.sharing EXCEPT !.startsIn = NoTime]]

\* The newest MaxDepth checkpoints; the sprint has 14 steps to come back from.
Newest(cps) == IF Len(cps) > MaxDepth THEN Tail(cps) ELSE cps

\* phase:next, its transaction.
MoveOn(r, lot) ==
  LET next == NextPhase(r.phase)
      crossing == next[1] # r.phase[1]
  IN SyncAlarm(
       [r EXCEPT !.phase = next, !.ready = {}, !.timer = NoTimer,
                 !.checkpoints = Newest(Append(@, Capture(r))),
                 !.sharing = ResetSharing(r, next, lot),
                 !.board.cand = @ /\ ~crossing,
                 !.board.voted = IF crossing THEN {} ELSE @])

\* phase:rollback: everything but who is a member goes back; a timer that ran
\* or had ended runs again, and who came since is heard after the others.
Restored(r, cp, lot) ==
  LET t == cp.timer
      s == cp.sharing
      came == Drawn(lot, r.members \ Range(s.order))
  IN [r EXCEPT
        !.phase = cp.phase, !.ready = {}, !.board = cp.board,
        !.timer = IF t.status = "idle" THEN t
                  ELSE [t EXCEPT !.status = "running",
                                 !.left = IF t.status = "paused" THEN t.left
                                          ELSE t.full],
        !.sharing = IF s.status = "none" THEN s
                    ELSE [s EXCEPT !.order = @ \o came,
                            !.status = IF @ = "complete" /\ came # <<>>
                                       THEN "ready" ELSE @]]

\* restartPhase: back to step 1, or to the voting step with the votes gone.
Restarted(r, revote, lot) ==
  LET next == <<r.phase[1], IF revote THEN VotingStep[r.phase[1]] ELSE 1>>
  IN SyncAlarm(
       [r EXCEPT !.phase = next, !.ready = {}, !.timer = NoTimer,
                 !.checkpoints = <<>>,
                 !.sharing = ResetSharing(r, next, lot),
                 !.board.voted = IF revote THEN {} ELSE @])

-----------------------------------------------------------------------------
\* Turns of a sharing step.

\* Mutant of MayControl: a turn that is announced may be ended already.
MayControlAnnounced(r, u) == ~r.closed /\ u \in r.members /\ IsSharing(r.phase)

\* controllableState
MayControl(r, u) ==
  /\ ~r.closed
  /\ u \in r.members
  /\ IsSharing(r.phase)
  /\ r.sharing.startsIn = NoTime

\* commitTurn: announce the next turn, or the end of the round.
CommitTurn(r, heard) ==
  LET over == heard >= Len(r.sharing.order)
  IN SyncAlarm(
       [r EXCEPT
          !.sharing = [@ EXCEPT !.heard = heard,
                         !.status = IF over THEN "complete" ELSE "active",
                         !.startsIn = IF over THEN NoTime ELSE LeadTime],
          !.timer = IF ~over THEN NoTimer
                    ELSE [status |-> "ended", left |-> 0, ext |-> @.ext,
                          full |-> IF @.status = "idle" THEN TurnTime
                                   ELSE @.full]])

MayEndTurn(r, u, outcome) ==
  /\ MayControl(r, u)
  /\ r.sharing.status = "active"
  /\ outcome = "done" => u = Presenter(r.sharing)
  /\ outcome = "passed" => TimerEnded(r.timer)

\* sharing:advance; "done" by the last presenter also moves on.
EndTurn(r, outcome, lot) ==
  LET after == CommitTurn(r, r.sharing.heard + 1)
  IN IF outcome = "done" /\ after.sharing.status = "complete" /\ MayMoveOn(after)
     THEN MoveOn(after, lot) ELSE after

\* Mutant of Advance: only the step is looked at, a turn is left to people.
AdvanceStepOnly(r, lot) ==
  IF TimerEnded(r.timer) /\ r.timer.ext /\ MayMoveOn(r) THEN MoveOn(r, lot)
  ELSE r

\* advanceAfterExtendedTimer: once the extension is over the room ends the
\* turn in the presenter's name, or moves on as phase:next would.
Advance(r, lot) ==
  LET due(q) == ~q.closed /\ q.phase # Lobby /\ TimerEnded(q.timer) /\ q.timer.ext
      handed == IF IsSharing(r.phase) /\ r.sharing.status = "active"
                   /\ MayEndTurn(r, Presenter(r.sharing), "done")
                THEN EndTurn(r, "done", lot) ELSE r
  IN IF ~due(r) THEN r
     ELSE IF handed.phase = r.phase /\ due(handed) /\ MayMoveOn(handed)
     THEN MoveOn(handed, lot) ELSE handed

-----------------------------------------------------------------------------
\* Messages of connected members.

\* handleClientMessage: the handler's effect, then advanceAfterExtendedTimer.
Accept(u, r, lot) ==
  /\ u \in room.connected /\ ~room.closed
  /\ room' = Advance(r, lot)

\* start_phase: the timer of the lobby, if any, runs on.
StartPhase(u) ==
  /\ room.phase = Lobby
  /\ \E lot \in Draws :
       Accept(u, [room EXCEPT !.phase = <<1, 1>>, !.ready = {}], lot)

PhaseReady(u, yes) ==
  /\ room.phase # Lobby
  /\ yes /\ IsVoting(room.phase) => u \in room.board.voted
  /\ \E lot \in Draws :
       Accept(u, [room EXCEPT !.ready = IF yes THEN @ \cup {u} ELSE @ \ {u}], lot)

PhaseNext(u) ==
  /\ MayMoveOn(room)
  /\ \E lot \in Draws : Accept(u, MoveOn(room, lot), lot)

Rollback(u) ==
  /\ room.checkpoints # <<>> /\ room.phase # Lobby
  /\ \E lot \in Lots :
       LET back == Restored(room, Last(room.checkpoints), lot)
       IN Accept(u, SyncAlarm([back EXCEPT !.checkpoints = Front(@)]), lot)

\* phase:restart-writing and phase:revote
Restart(u, revote) ==
  /\ room.phase # Lobby
  /\ room.phase[1] \notin room.board.decided
  /\ IF revote THEN IsResult(room.phase) /\ room.board.cand
     ELSE MayRestart(room.phase)
  /\ \E lot \in Draws : Accept(u, Restarted(room, revote, lot), lot)

SharingStart(u) ==
  /\ MayControl(room, u)
  /\ room.sharing.status \in {"ready", "complete"}
  /\ \E lot \in Draws :
       Accept(u, CommitTurn(room, IF room.sharing.status = "complete" THEN 0
                                  ELSE room.sharing.heard), lot)

SharingAdvance(u, outcome) ==
  /\ MayEndTurn(room, u, outcome)
  /\ \E lot \in Draws : Accept(u, EndTurn(room, outcome, lot), lot)

\* applyTimerAction refuses these while a turn is announced or prepared.
TimerIsFree(kind) ==
  LET s == room.sharing
  IN s.status \notin {"none", "inactive"} =>
       /\ s.startsIn = NoTime
       /\ kind = "extend" => s.status = "active"
       /\ kind = "start" => s.status # "ready"

TimerStart(u) ==
  /\ TimerIsFree("start")
  /\ room.timer.status = "idle"
  /\ \E lot \in Draws :
       Accept(u, SyncAlarm([room EXCEPT !.timer =
         [status |-> "running", left |-> TurnTime, full |-> TurnTime,
          ext |-> FALSE]]), lot)

TimerExtend(u) ==
  /\ TimerIsFree("extend")
  /\ TimerEnded(room.timer) /\ ~room.timer.ext
  /\ \E lot \in Draws :
       Accept(u, SyncAlarm([room EXCEPT !.timer =
         [status |-> "running", left |-> ExtraTime, full |-> ExtraTime,
          ext |-> TRUE]]), lot)

-----------------------------------------------------------------------------
\* Work on the board, as far as the gates of phase:next look at it.  Nothing
\* is changed unless the timer was started, nor after the phase is decided.

MayWork(u) ==
  /\ TimerOn(room.timer)
  /\ room.phase # Lobby
  /\ room.phase[1] \notin room.board.decided

\* Votes are cast, taken back and reset; any of it takes back the ready mark.
Vote(u, all) ==
  /\ MayWork(u)
  /\ IsVoting(room.phase) /\ room.board.cand
  /\ \E lot \in Draws :
       Accept(u, [room EXCEPT !.ready = @ \ {u},
                    !.board.voted = IF all THEN @ \cup {u} ELSE @ \ {u}], lot)

\* Shared notes come and go while they are shared, or excluded and restored.
EditCandidates(u) ==
  /\ MayWork(u)
  /\ IsSharing(room.phase) \/ IsResult(room.phase)
  /\ \E lot \in Draws : Accept(u, [room EXCEPT !.board.cand = ~@], lot)

\* note:decide
Decide(u) ==
  /\ MayWork(u)
  /\ IsResult(room.phase) /\ room.board.cand
  /\ \E lot \in Draws :
       Accept(u, [room EXCEPT !.board.decided = @ \cup {room.phase[1]}], lot)

\* decision:clear
ClearDecision(u) ==
  /\ TimerOn(room.timer)
  /\ IsResult(room.phase)
  /\ \E lot \in Draws :
       Accept(u, [room EXCEPT !.board.decided = @ \ {room.phase[1]}], lot)

\* outcome:publish and fixCompletion: closed for good, the members stay.
Publish(u) ==
  /\ u \in room.connected /\ ~room.closed
  /\ room.phase = <<3, 5>> /\ 3 \in room.board.decided
  /\ TimerEnded(room.timer) \/ AllReady(room)
  /\ room' = SyncAlarm([room EXCEPT !.closed = TRUE, !.timer = NoTimer,
                                    !.sharing = NoSharing])

Message(u) ==
  \/ StartPhase(u) \/ PhaseNext(u) \/ Rollback(u) \/ SharingStart(u)
  \/ TimerStart(u) \/ TimerExtend(u)
  \/ EditCandidates(u) \/ Decide(u) \/ ClearDecision(u) \/ Publish(u)
  \/ \E yes \in BOOLEAN : PhaseReady(u, yes) \/ Vote(u, yes) \/ Restart(u, yes)
  \/ \E outcome \in {"done", "passed"} : SharingAdvance(u, outcome)

-----------------------------------------------------------------------------
\* Sockets and members.

\* fetch: an idle room that is over is closed instead; nothing is advanced.
Connect(u) ==
  /\ ~room.closed
  /\ u \in room.members \ room.connected
  /\ room' = IF IdleIsOver(room) THEN SyncAlarm(Close(room))
             ELSE SyncAlarm(SyncIdle([room EXCEPT !.connected = @ \cup {u}]))

\* Mutant of Disconnect: the connections are looked at, the gates are not.
DisconnectQuietly(u) ==
  /\ ~room.closed
  /\ u \in room.connected
  /\ room' = SyncAlarm(SyncIdle([room EXCEPT !.connected = @ \ {u}]))

\* webSocketClose
Disconnect(u) ==
  /\ ~room.closed
  /\ u \in room.connected
  /\ \E lot \in Draws :
       room' = Advance(SyncAlarm(SyncIdle(
                 [room EXCEPT !.connected = @ \ {u}])), lot)

\* leaveMember and flushLeave; the order of the turns keeps who left.
Left(u, lot) ==
  LET rest == [room EXCEPT !.members = @ \ {u}, !.connected = @ \ {u}]
      r == IF rest.members = {} THEN Close(rest) ELSE rest
  IN SyncAlarm(Advance(SyncIdle(r), lot))

Leave(u) ==
  /\ ~room.closed
  /\ u \in room.members
  /\ \E lot \in Draws : room' = Left(u, lot)

RemoveMember(u, target) ==
  /\ ~room.closed
  /\ u \in room.connected /\ target \in room.members \ {u}
  /\ \E lot \in Draws : room' = Left(target, lot)

\* Mutant of AppendMember: who joins after the round needs no turn.
AppendMemberSilently(s, u) ==
  IF s.status = "none" \/ u \in Range(s.order) THEN s
  ELSE [s EXCEPT !.order = Append(@, u)]

\* Mutant of AppendMember: whoever comes back is put into the order again.
AppendMemberAgain(s, u) ==
  IF s.status = "none" THEN s
  ELSE [s EXCEPT !.order = Append(@, u),
                 !.status = IF @ = "complete" THEN "ready" ELSE @]

\* appendSharingMember: a round that was complete waits for the newcomer.
AppendMember(s, u) ==
  IF s.status = "none" \/ u \in Range(s.order) THEN s
  ELSE [s EXCEPT !.order = Append(@, u),
                 !.status = IF @ = "complete" THEN "ready" ELSE @]

\* commitParticipation; isJoinable first closes a room whose idle day is over.
Join(u) ==
  /\ ~room.closed
  /\ u \notin room.members
  /\ room' = IF IdleIsOver(room) THEN SyncAlarm(Close(room))
             ELSE [room EXCEPT !.members = @ \cup {u},
                               !.sharing = AppendMember(@, u)]

-----------------------------------------------------------------------------
\* Time.

Pass(t) == IF t \in {NoTime, 0} THEN t ELSE t - 1

Tick ==
  /\ \E t \in Deadlines(room) \cup {room.alarm} : t \notin {NoTime, 0}
  /\ room' = [room EXCEPT !.idle = Pass(@), !.alarm = Pass(@),
                          !.timer.left = Pass(@), !.sharing.startsIn = Pass(@)]

\* startPendingSharingTurn, then handleTimerAlarm.
Started(r) ==
  IF r.sharing.startsIn = 0
  THEN [r EXCEPT !.sharing.startsIn = NoTime,
                 !.timer = [status |-> "running", left |-> TurnTime,
                            full |-> TurnTime, ext |-> FALSE]]
  ELSE IF r.timer.status = "running" /\ r.timer.left = 0
  THEN [r EXCEPT !.timer.status = "ended"] ELSE r

\* alarm
Alarm ==
  /\ room.alarm = 0
  /\ LET r == SyncIdle(room)
     IN IF IdleIsOver(r) THEN room' = SyncAlarm(Close(r))
        ELSE \E lot \in Draws : room' = SyncAlarm(Advance(Started(r), lot))

-----------------------------------------------------------------------------
Next ==
  \/ \E u \in People :
       \/ Message(u) \/ Connect(u) \/ Disconnect(u) \/ Leave(u) \/ Join(u)
       \/ \E target \in People : RemoveMember(u, target)
  \/ Tick
  \/ Alarm

Spec == Init /\ [][Next]_room

\* Time passes, and the alarm of a Durable Object is delivered: WF_room(Alarm),
\* with the condition under which Alarm is enabled written out.
Fairness ==
  /\ WF_room(Tick)
  /\ []<>(room.alarm # 0) \/ []<><<Alarm>>_room

FairSpec == Spec /\ Fairness

-----------------------------------------------------------------------------
\* Safety.

\* The one alarm is set no later than anything the room waits for: the day
\* without a connection, the start of a turn, the end of the timer
\* (alarms.ts, syncRoomAlarm, and every handler that moves a deadline).
AlarmCovers ==
  \A d \in Deadlines(room) : room.alarm # NoTime /\ room.alarm <= d

\* Whatever was rolled back, voted again or cleared: exactly the phases before
\* the current one are decided, and the current one only in its last step
\* (decision-handlers.ts, phase.ts, phase-rollback.ts).
DecisionsMatchPhase ==
  LET p == room.phase[1]
  IN ~room.closed =>
       /\ room.board.decided \ {p} = 1 .. (p - 1)
       /\ p \in room.board.decided => IsResult(room.phase)

\* A room leaves a sharing step only when every member has had a turn in this
\* round, those who came late or during a rollback too (sharing-state.ts).
EveryoneIsHeard ==
  [][IsSharing(room.phase) /\ room'.phase = NextPhase(room.phase)
     => LET s == Last(room'.checkpoints).sharing
        IN room'.members \subseteq {s.order[i] : i \in 1 .. s.heard}]_room

\* A turn that is announced is given: nothing ends it, or leaves the step
\* forwards, before its clock has started (sharing.ts, controllableState).
AnnouncedTurnIsGiven ==
  [][room.sharing.startsIn # NoTime /\ ~room'.closed =>
       IF room'.phase = room.phase
       THEN room'.sharing.status = "active"
            /\ room'.sharing.heard = room.sharing.heard
       ELSE room'.phase # NextPhase(room.phase)]_room

\* The extension is over and nothing is missing to hand over or to move on.
GateIsOpen(r) ==
  /\ ~r.closed
  /\ r.timer.status = "ended" /\ r.timer.ext
  /\ \/ MayMoveOn(r)
     \/ r.sharing.status = "active" /\ Presenter(r.sharing) \in r.members

\* Whatever opens the gate of a step whose extension is over also goes through
\* it, but for somebody who comes (room-do.ts calls advanceAfterExtendedTimer
\* after messages, leaves, disconnections and alarms, but neither in fetch nor
\* in commitParticipation).
NoOpenGateIsMissed ==
  [][GateIsOpen(room') => \/ GateIsOpen(room)
                          \/ \E u \in People : Connect(u) \/ Join(u)]_room

-----------------------------------------------------------------------------
\* Liveness.

\* A room nobody is connected to is closed in the end (syncIdleDeadline).
IdleRoomCloses ==
  room.connected = {} /\ ~room.closed ~> room.connected # {} \/ room.closed

\* An extended turn ends without anybody's help, unless the presenter leaves
\* the room during the extension (advanceAfterExtendedTimer).
ExtendedTurnEnds ==
  /\ room.sharing.status = "active"
  /\ room.timer.status = "running" /\ room.timer.ext
  ~> \/ room.sharing.status # "active" \/ ~room.timer.ext
     \/ Presenter(room.sharing) \notin room.members
=============================================================================
