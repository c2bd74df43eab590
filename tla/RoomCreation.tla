----------------------------- MODULE RoomCreation -----------------------------
(***************************************************************************)
(* One request to create a room, from the reservation to the day its last  *)
(* trace is cleaned up (workers/lib/room-creation.ts,                      *)
(* room-creation-cleanup.ts, the creation RPCs of room-do.ts and the       *)
(* operations of account-do.ts that create).                               *)
(*                                                                         *)
(* Three stores take part and none can be written together with another:   *)
(* D1 (control row, details, directory, outcomes, watermark), the object   *)
(* of the room (its creation marker) and the object of the account (the    *)
(* operation).  The account drives the request; an attempt may die at any  *)
(* await and leave its last write under way.  The hourly job closes or     *)
(* publishes what nobody drives any more.  Every clock of the service may  *)
(* be up to Skew behind the latest one, and no two readings need agree.    *)
(***************************************************************************)
EXTENDS Naturals, FiniteSets

CONSTANTS
  Rooms,        \* identifiers crypto.randomUUID may give
  NoRoom,
  Names,        \* what the user may call the room
  NoName,
  Requests,     \* the requests a run may be about
  Window,       \* ROOM_CREATION_WINDOW_MS
  Future,       \* ROOM_CREATION_FUTURE_MS
  Grace,        \* ROOM_CREATION_GC_GRACE_MS
  Skew,         \* how far a clock may be behind
  Backoff,      \* ticks until the job looks at a failed request again
  MaxTime,      \* bound on time; all deadlines are over by then
  MaxAsks,      \* bound on operations of the account for this request
  MaxAborts     \* bound on attempts that die

ASSUME CreationAssumption ==
  /\ NoRoom \notin Rooms /\ NoName \notin Names
  /\ Requests \subseteq [legacy : Rooms \cup {NoRoom}, expiry : Nat,
                          issuedAt : Nat \ {0}]   \* the first watermark is 0
  /\ {Window, Future, Grace, Skew, MaxTime, MaxAsks, MaxAborts} \subseteq Nat
  /\ Backoff \in Nat \ {0}

VARIABLES
  request,      \* issuedAt: the time inside its identifier; legacy: its room, if
                \* it was made before deadlines existed; expiry: the one it was given
  retired,      \* room_creation_policy.retired_before
  control,      \* the request's row of room_creation_control
  retry,        \* ticks until its retry_at
  details,      \* the name in room_creation_requests, or NoName
  dir,          \* creation_visibility of each row of rooms
  outcome,      \* creation_visibility of each row of shared_outcomes
  room,         \* the object of each room
  op,           \* the account's operation for this request
  run,          \* the attempt being served, lost when it dies
  orphans,      \* writes of dead attempts still under way
  cron,         \* the hourly job
  now, asks, aborts,
  shown         \* history: rooms that anybody could find

d1 == <<retired, control, retry, details, dir, outcome>>
acct == <<op, run, asks>>
vars == <<request, d1, room, acct, orphans, cron, now, aborts, shown>>

-----------------------------------------------------------------------------
Visibility == {"none", "hidden", "published", "legacy"}
Visible == {"published", "legacy"}

\* none: untouched.  barred: closed before anybody was put in.  live: the
\* creator is in.  completed and disbanded rooms keep their outcome until they
\* are expired.
RoomState == {"none", "barred", "live", "completed", "disbanded", "expired"}

Control == [status : {"none", "pending", "ready", "closed"},
            room : Rooms \cup {NoRoom}]
NoControl == [status |-> "none", room |-> NoRoom]

\* Failures that end an operation.
Reason == {"none", "expired", "closed", "input_conflict", "update_required"}

Operation ==
  [phase : {"none", "confirmation", "leaving", "joining", "ready", "failed",
            "unsure"},           \* rejected without having closed the request
   name : Names \cup {NoName},
   room : Rooms \cup {NoRoom},
   failure : Reason]             \* op.terminalFailure

\* Awaits whose call writes, so that it may land after its attempt died.
Writing == {"insert", "inspect", "init", "publish", "close", "shut", "drop"}
Awaits == Writing \cup
  {"idle", "committed", "policy", "control", "detail", "accept", "exists",
   "verify", "finish", "recheck", "reread", "recheck2", "confirm", "end"}

Attempt ==
  [at : Awaits,
   name : Names \cup {NoName},   \* of the operation it serves
   policy : Nat,                 \* retired_before as it was read
   room : Rooms \cup {NoRoom},
   status : {"none", "pending", "ready", "closed"},
   sure : BOOLEAN]               \* the result is known to be published

Idle == [at |-> "idle", name |-> NoName, policy |-> 0, room |-> NoRoom, status |-> "none",
         sure |-> FALSE]

Job == [at : {"idle", "due", "inspect", "publish", "remove", "sweep"},
        room : Rooms \cup {NoRoom}]

TypeOK ==
  /\ request \in Requests
  /\ retired \in Nat
  /\ control \in Control
  /\ retry \in 0 .. Backoff
  /\ details \in Names \cup {NoName}
  /\ dir \in [Rooms -> Visibility]
  /\ outcome \in [Rooms -> Visibility]
  /\ room \in [Rooms -> RoomState]
  /\ op \in Operation
  /\ run \in Attempt
  /\ orphans \subseteq Attempt
  /\ cron \in Job
  /\ now \in 0 .. MaxTime
  /\ asks \in 0 .. MaxAsks
  /\ aborts \in 0 .. MaxAborts
  /\ shown \subseteq Rooms

-----------------------------------------------------------------------------
LegacyRoom == request.legacy
IssuedAt == request.issuedAt
Deadline == IssuedAt + Window
ExpiresAt(r) == IF r = LegacyRoom THEN request.expiry ELSE Deadline

\* What a clock of the service may say now.
Clock == {t \in 0 .. now : now <= t + Skew}

Taken(r) == control.room = r \/ dir[r] # "none" \/ outcome[r] # "none"
            \/ room[r] # "none"

\* getCreationStatus: kind "ready".
IsReady == control.status = "ready" /\ dir[control.room] \in Visible

\* committedCreation: the published result belongs to this operation.
Committed ==
  /\ IsReady
  /\ IF details = NoName THEN op.phase = "joining" ELSE details = op.name

Init ==
  /\ request \in Requests
  /\ retired = 0 /\ retry = 0 /\ now = 0 /\ asks = 0 /\ aborts = 0
  /\ op = [phase |-> "none", name |-> NoName, room |-> NoRoom,
           failure |-> "none"]
  /\ run = Idle /\ orphans = {}
  /\ cron = [at |-> "idle", room |-> NoRoom]
  /\ IF LegacyRoom = NoRoom
     THEN /\ control = NoControl /\ details = NoName
          /\ dir = [r \in Rooms |-> "none"] /\ outcome = dir
          /\ room = [r \in Rooms |-> "none"]
     ELSE \E ready \in BOOLEAN, begun \in {"none", "live"} :
          /\ ready => begun = "live"
          /\ control = [status |-> IF ready THEN "ready" ELSE "pending",
                        room |-> LegacyRoom]
          /\ details \in Names
          /\ dir = [r \in Rooms |->
                      IF r # LegacyRoom THEN "none"
                      ELSE IF ready THEN "legacy" ELSE "hidden"]
          /\ outcome = dir
          /\ room = [r \in Rooms |-> IF r = LegacyRoom THEN begun ELSE "none"]
  /\ shown = {r \in Rooms : dir[r] \in Visible}

-----------------------------------------------------------------------------
(* The object of a room *)

\* decideCreation: what it answers at its own time t, and what it keeps.
Decision(r, closeOnly, t) ==
  CASE r # LegacyRoom /\ IssuedAt > t + Future -> "error"
    [] room[r] \in {"live", "completed"} -> "ready"
    [] room[r] \in {"barred", "disbanded", "expired"} -> "closed"
    [] room[r] = "none" /\ t >= ExpiresAt(r) -> "closed"
    [] OTHER -> IF closeOnly THEN "pending" ELSE "ready"

Decide(r, decision) ==
  room' = [room EXCEPT ![r] =
             CASE room[r] = "none" /\ decision = "closed" -> "barred"
               [] room[r] = "none" /\ decision = "ready" -> "live"
               [] OTHER -> @]

\* closeCreationForParticipation: the marker, then disband.  (A completed room
\* was public, so that its request is not closed.)
CloseRoom(r) ==
  room' = [room EXCEPT ![r] = CASE @ = "none" -> "barred"
                                [] @ = "live" -> "disbanded"
                                [] OTHER -> @]

\* The room is left by everybody or idle for a day, or it reaches its end,
\* which takes people who found it.
RoomEnds(r) ==
  /\ room[r] = "live"
  /\ \E end \in {"disbanded", "completed"} :
       /\ end = "completed" => r \in shown
       /\ room' = [room EXCEPT ![r] = end]
  /\ UNCHANGED <<request, d1, acct, orphans, cron, now, aborts, shown>>

\* The outbox of the room writes its outcome; the row's visibility survives
\* an update and is only chosen when the row is new.
FlushOutcome(r) ==
  /\ room[r] \in {"live", "completed", "disbanded"} /\ outcome[r] = "none"
  /\ outcome' = [outcome EXCEPT ![r] =
                   IF dir[r] = "legacy" THEN "legacy" ELSE "hidden"]
  /\ shown' = IF dir[r] = "legacy" THEN shown \cup {r} ELSE shown
  /\ UNCHANGED <<request, retired, control, retry, details, dir, room, acct, orphans,
                 cron, now, aborts>>

\* The outcome expires and is deleted; a completed room leaves the directory.
RetentionEnds(r) ==
  /\ room[r] \in {"completed", "disbanded"}
  /\ room' = [room EXCEPT ![r] = "expired"]
  /\ outcome' = [outcome EXCEPT ![r] = "none"]
  /\ dir' = IF room[r] = "completed" THEN [dir EXCEPT ![r] = "none"] ELSE dir
  /\ UNCHANGED <<request, retired, control, retry, details, acct, orphans, cron, now,
                 aborts, shown>>

-----------------------------------------------------------------------------
(* Batches of D1; each runs as one transaction *)

\* reserveRoomCreation, the row that may be inserted at D1's time t.
Accepts(t) == retired < IssuedAt /\ t < Deadline /\ IssuedAt <= t + Future

Insert(r, name) ==
  /\ control' = [status |-> "pending", room |-> r]
  /\ details' = name
  /\ dir' = [dir EXCEPT ![r] = "hidden"]
  /\ outcome' = [outcome EXCEPT ![r] = "hidden"]
  /\ retry' = 0
  /\ UNCHANGED <<retired, shown>>

\* publishRoomCreation: outcome, directory and control, each on condition of
\* the one before.
Publish(r) ==
  LET pending == control = [status |-> "pending", room |-> r]
      o == IF pending /\ dir[r] = "hidden" /\ outcome[r] = "hidden"
           THEN "published" ELSE outcome[r]
      d == IF pending /\ dir[r] = "hidden" /\ o = "published"
           THEN "published" ELSE dir[r]
  IN /\ outcome' = [outcome EXCEPT ![r] = o]
     /\ dir' = [dir EXCEPT ![r] = d]
     /\ control' = IF control.status = "pending" /\ d = "published"
                   THEN [control EXCEPT !.status = "ready"] ELSE control
     /\ shown' = IF {o, d} \cap Visible # {} THEN shown \cup {r} ELSE shown
     /\ UNCHANGED <<retired, retry, details>>

ClosePending ==
  control' = IF control.status = "pending"
             THEN [control EXCEPT !.status = "closed"] ELSE control

\* Mutant of Remove: the request stays pending.
RemoveRowsOnly(r) ==
  /\ UNCHANGED control
  /\ LET gone == control' = [status |-> "closed", room |-> r]
     IN /\ dir' = IF gone /\ dir[r] = "hidden"
                  THEN [dir EXCEPT ![r] = "none"] ELSE dir
        /\ outcome' = IF gone /\ outcome[r] = "hidden"
                      THEN [outcome EXCEPT ![r] = "none"] ELSE outcome
  /\ UNCHANGED <<retired, retry, details, shown>>

\* reconcileCreation, decision "closed".
Remove(r) ==
  /\ ClosePending
  /\ LET gone == control' = [status |-> "closed", room |-> r]
     IN /\ dir' = IF gone /\ dir[r] = "hidden"
                  THEN [dir EXCEPT ![r] = "none"] ELSE dir
        /\ outcome' = IF gone /\ outcome[r] = "hidden"
                      THEN [outcome EXCEPT ![r] = "none"] ELSE outcome
  /\ UNCHANGED <<retired, retry, details, shown>>

\* What a write does in its store, for a live attempt as for an orphan.
Effect(m) ==
  CASE m.at = "insert" ->
         /\ \E t \in Clock, r \in Rooms :
              /\ ~Taken(r)
              /\ IF Accepts(t) /\ control = NoControl
                 THEN Insert(r, m.name) ELSE UNCHANGED <<d1, shown>>
         /\ UNCHANGED room
    [] m.at \in {"inspect", "init"} ->
         /\ \E t \in Clock :
              Decide(m.room, Decision(m.room, m.at = "inspect", t))
         /\ UNCHANGED <<d1, shown>>
    [] m.at = "publish" -> Publish(m.room) /\ UNCHANGED room
    [] m.at = "close" ->
         /\ ClosePending
         /\ UNCHANGED <<retired, retry, details, dir, outcome, room, shown>>
    [] m.at = "shut" -> CloseRoom(m.room) /\ UNCHANGED <<d1, shown>>
    [] m.at = "drop" ->          \* deleteRoom
         /\ dir' = [dir EXCEPT ![m.room] = "none"]
         /\ UNCHANGED <<retired, control, retry, details, outcome, room, shown>>

-----------------------------------------------------------------------------
(* The attempt of the account *)

Stores == <<d1, room, shown>>
Rest == <<request, orphans, cron, now, aborts, asks>>

Goto(at) == run' = [run EXCEPT !.at = at]
Go(at) == Goto(at) /\ UNCHANGED <<Stores, op, Rest>>

\* finishFailure: a request that got past its confirmation is closed.
AfterFailure(reason) ==
  IF op.phase # "confirmation" /\ reason \in {"expired", "closed"}
  THEN "recheck" ELSE "end"

\* It begins by writing the failure down.
Fails(reason) ==
  /\ op' = [op EXCEPT !.failure = reason]
  /\ Goto(AfterFailure(reason))
FailsFor(reason) == Fails(reason) /\ UNCHANGED <<Stores, Rest>>

\* prepareInside: an operation for the request, unless its end is known.
Ask(n) ==
  /\ run = Idle /\ op.phase \in {"none", "ready", "failed", "unsure"}
  /\ asks < MaxAsks
  /\ ~IsReady /\ control.status # "closed"
  /\ asks' = asks + 1
  /\ op' = [phase |-> "confirmation", name |-> n, room |-> NoRoom,
            failure |-> "none"]
  /\ UNCHANGED <<request, Stores, run, orphans, cron, now, aborts>>

Unfinished == op.phase \in {"confirmation", "leaving", "joining"}

\* commitInside, first for a result that is out already.
Resume ==
  /\ run = Idle /\ Unfinished
  /\ run' = [Idle EXCEPT !.name = op.name, !.at =
               IF op.failure # "none" THEN AfterFailure(op.failure)
               ELSE IF op.phase = "leaving" THEN "policy" ELSE "committed"]
  /\ UNCHANGED <<Stores, op, Rest>>

CheckCommitted ==
  /\ run.at = "committed"
  /\ run' = IF ~Committed THEN [run EXCEPT !.at = "policy"]
            ELSE [run EXCEPT !.room = control.room, !.sure = TRUE,
                    !.at = IF op.phase = "joining" THEN "finish" ELSE "policy"]
  /\ UNCHANGED <<Stores, op, Rest>>

\* reserveRoomCreation: the watermark is read once, the control row again
\* after every lost race.
ReadPolicy ==
  /\ run.at = "policy"
  /\ run' = [run EXCEPT !.at = "control", !.policy = retired]
  /\ UNCHANGED <<Stores, op, Rest>>

ReadControl ==
  /\ run.at = "control"
  /\ \E t \in Clock :
       IF control = NoControl
       THEN IF IssuedAt > t + Future THEN FailsFor("update_required")
            ELSE IF t >= Deadline THEN FailsFor("expired")
            ELSE Go("insert")
       ELSE LET e == ExpiresAt(control.room)
            IN IF t >= e \/ e <= run.policy + Window THEN FailsFor("expired")
               ELSE IF control.status = "closed" THEN FailsFor("closed")
               ELSE Go("detail")

ReadDetail ==
  /\ run.at = "detail"
  /\ IF control = NoControl \/ details = NoName THEN FailsFor("expired")
     ELSE IF details # op.name THEN FailsFor("input_conflict")
     ELSE /\ run' = [run EXCEPT !.at = "accept", !.room = control.room,
                                !.status = control.status]
          /\ UNCHANGED <<Stores, op, Rest>>

\* Where the caller of reserveRoomCreation goes on.
Reserved == IF run.sure THEN "finish" ELSE "exists"

StillAccepted ==
  /\ run.at = "accept"
  /\ \E t \in Clock :
       LET e == ExpiresAt(run.room)
       IN IF retired + Window < e /\ t < e THEN Go(Reserved)
          ELSE FailsFor("expired")

InsertRoom ==
  /\ run.at = "insert"
  /\ \E t \in Clock, r \in Rooms :
       /\ ~Taken(r)
       /\ IF ~Accepts(t) THEN FailsFor("expired")
          ELSE IF control # NoControl THEN Go("control")
          ELSE /\ Insert(r, run.name)
               /\ run' = [run EXCEPT !.at = Reserved, !.room = r,
                                     !.status = "pending"]
               /\ UNCHANGED <<room, op, Rest>>

\* Mutant of RowExists: the room is published without being initialised.
RowExistsSkippingInit ==
  /\ run.at = "exists"
  /\ IF dir[run.room] = "none" THEN FailsFor("closed")
     ELSE CASE op.phase = "confirmation" ->
                 /\ \E next \in {"leaving", "joining"} :
                      op' = [op EXCEPT !.phase = next, !.room = run.room]
                 /\ Goto("policy")
                 /\ UNCHANGED <<Stores, Rest>>
            [] op.phase = "leaving" -> Go("inspect")
            [] op.phase = "joining" ->
                 Go(IF run.status = "ready" THEN "finish" ELSE "publish")

\* The row of the directory is there.  The operation moves on: there may be
\* rooms to leave first or not.
RowExists ==
  /\ run.at = "exists"
  /\ IF dir[run.room] = "none" THEN FailsFor("closed")
     ELSE CASE op.phase = "confirmation" ->
                 /\ \E next \in {"leaving", "joining"} :
                      op' = [op EXCEPT !.phase = next, !.room = run.room]
                 /\ Goto("policy")
                 /\ UNCHANGED <<Stores, Rest>>
            [] op.phase = "leaving" -> Go("inspect")
            [] op.phase = "joining" ->
                 Go(IF run.status = "ready" THEN "finish" ELSE "init")

\* admission: the new room must not be closed when another one is left; that
\* one may have changed, which takes the operation back to its confirmation.
InspectRoom ==
  /\ run.at = "inspect"
  /\ \E t \in Clock :
       LET d == Decision(run.room, TRUE, t)
       IN /\ d # "error"
          /\ Decide(run.room, d)
          /\ IF d = "closed" THEN Fails("closed")
             ELSE \/ /\ op' = [op EXCEPT !.phase = "joining"]
                     /\ Goto("policy")
                  \/ /\ op' = [op EXCEPT !.phase = "confirmation"]
                     /\ run' = Idle
  /\ UNCHANGED <<d1, shown, Rest>>

\* initializeCreation.  A second look at the clock inside the transaction
\* undoes it when the deadline has come meanwhile: t is the last look.
InitRoom ==
  /\ run.at = "init"
  /\ \E t \in Clock :
       LET d == Decision(run.room, FALSE, t)
       IN /\ d # "error"
          /\ Decide(run.room, d)
          /\ IF d = "closed" THEN Fails("closed")
             ELSE Goto("publish") /\ UNCHANGED op
  /\ UNCHANGED <<d1, shown, Rest>>

PublishRoom ==
  /\ run.at = "publish"
  /\ Publish(run.room)
  /\ Goto(IF control' # control THEN "finish" ELSE "verify")
  /\ UNCHANGED <<room, op, Rest>>

\* Mutant of VerifyPublished: the result is taken for public.
VerifyNothing ==
  /\ run.at = "verify"
  /\ Go("finish")

VerifyPublished ==
  /\ run.at = "verify"
  /\ IF control.status = "ready" /\ dir[run.room] \in Visible
     THEN Go("finish") ELSE FailsFor("closed")

FinishReady ==
  /\ run.at = "finish"
  /\ op' = [op EXCEPT !.phase = "ready", !.room = run.room, !.failure = "none"]
  /\ run' = Idle
  /\ UNCHANGED <<Stores, Rest>>

\* finishFailure: a result that is public after all is reported; otherwise
\* the request is closed in D1, then in the room, then forgotten.
Recheck(at, next) ==
  /\ run.at = at
  /\ IF Committed /\ op.phase = "joining"
     THEN /\ run' = [run EXCEPT !.at = "finish", !.room = control.room]
          /\ UNCHANGED <<Stores, op, Rest>>
     ELSE Go(next)

\* Mutant of RereadControl: the room is closed before the request.
RereadClosingRoomFirst ==
  /\ run.at = "reread"
  /\ run' = IF control.status \in {"none", "ready"}
            THEN [run EXCEPT !.at = "end"]
            ELSE [run EXCEPT !.at = "shut", !.room = control.room]
  /\ UNCHANGED <<Stores, op, Rest>>

RereadControl ==
  /\ run.at = "reread"
  /\ run' = IF control.status \in {"none", "ready"}
            THEN [run EXCEPT !.at = "end"]
            ELSE [run EXCEPT !.at = "close", !.room = control.room]
  /\ UNCHANGED <<Stores, op, Rest>>

ConfirmClosed ==
  /\ run.at = "confirm"
  /\ Go(IF control.status = "closed" THEN "shut" ELSE "end")

CloseStep(at, next) ==
  /\ run.at = at
  /\ Effect(run)
  /\ Goto(next)
  /\ UNCHANGED <<op, Rest>>

EndFailure ==
  /\ run.at = "end"
  /\ op' = [op EXCEPT !.phase = IF op.phase = "confirmation"
                                  /\ op.failure = "expired"
                               THEN "unsure" ELSE "failed"]
  /\ run' = Idle
  /\ UNCHANGED <<Stores, Rest>>

\* The attempt dies, or an answer is lost, or a store cannot be reached.
Abort ==
  /\ run # Idle /\ aborts < MaxAborts
  /\ aborts' = aborts + 1
  /\ orphans' = IF run.at \in Writing THEN orphans \cup {run} ELSE orphans
  /\ run' = Idle
  /\ UNCHANGED <<request, Stores, op, cron, now, asks>>

Land(m) ==
  /\ orphans' = orphans \ {m}
  /\ Effect(m) \/ UNCHANGED Stores
  /\ UNCHANGED <<request, acct, cron, now, aborts>>

-----------------------------------------------------------------------------
(* The hourly job, cleanupRoomCreations *)

Other == <<request, room, acct, orphans, now, aborts>>

\* Mutant of Retire: the lower of the two watermarks is kept.
RetireToTheLower ==
  /\ cron.at = "idle"
  /\ \E t \in Clock :
       LET w == IF t >= Window + Grace THEN t - (Window + Grace) ELSE 0
           new == IF w < retired THEN w ELSE retired
       IN /\ retired' = new
          /\ details' = IF control # NoControl
                           /\ ExpiresAt(control.room) <= new + Window
                        THEN NoName ELSE details
  /\ cron' = [cron EXCEPT !.at = "due"]
  /\ UNCHANGED <<control, retry, dir, outcome, Other, shown>>

\* The watermark only rises; details below it go in the same batch.
Retire ==
  /\ cron.at = "idle"
  /\ \E t \in Clock :
       LET w == IF t >= Window + Grace THEN t - (Window + Grace) ELSE 0
           new == IF w > retired THEN w ELSE retired
       IN /\ retired' = new
          /\ details' = IF control # NoControl
                           /\ ExpiresAt(control.room) <= new + Window
                        THEN NoName ELSE details
  /\ cron' = [cron EXCEPT !.at = "due"]
  /\ UNCHANGED <<control, retry, dir, outcome, Other, shown>>

\* The request is due and claimed by a compare-and-set on retry_at.
Claim ==
  /\ cron.at = "due"
  /\ control.status = "pending" /\ retry = 0
  /\ \E t \in Clock : ExpiresAt(control.room) <= t
  /\ retry' = 1
  /\ cron' = [at |-> "inspect", room |-> control.room]
  /\ UNCHANGED <<retired, control, details, dir, outcome, Other, shown>>

NothingDue ==
  /\ cron.at = "due"
  /\ \/ control.status # "pending" \/ retry # 0
     \/ \E t \in Clock : ExpiresAt(control.room) > t
  /\ cron' = [cron EXCEPT !.at = "sweep"]
  /\ UNCHANGED <<d1, Other, shown>>

CronInspect ==
  /\ cron.at = "inspect"
  /\ \E t \in Clock :
       LET d == Decision(cron.room, TRUE, t)
       IN /\ d # "error"
          /\ Decide(cron.room, d)
          /\ cron' = [cron EXCEPT !.at = CASE d = "ready" -> "publish"
                                           [] d = "closed" -> "remove"
                                           [] OTHER -> "sweep"]
  /\ UNCHANGED <<request, d1, acct, orphans, now, aborts, shown>>

CronPublish ==
  /\ cron.at = "publish"
  /\ Publish(cron.room)
  /\ cron' = [cron EXCEPT !.at = "sweep"]
  /\ UNCHANGED Other

CronRemove ==
  /\ cron.at = "remove"
  /\ Remove(cron.room)
  /\ cron' = [cron EXCEPT !.at = "sweep"]
  /\ UNCHANGED Other

\* Mutant of CronFails: every failure adds to the wait.
CronFailsAdding ==
  /\ cron.at \in {"inspect", "publish", "remove"}
  /\ retry' \in {retry, IF control.status = "pending" THEN retry + Backoff ELSE retry}
  /\ cron' = [cron EXCEPT !.at = "sweep"]
  /\ UNCHANGED <<retired, control, details, dir, outcome, Other, shown>>

\* A store does not answer (back off), or the job itself dies (it does not).
CronFails ==
  /\ cron.at \in {"inspect", "publish", "remove"}
  /\ retry' \in {retry, IF control.status = "pending" THEN Backoff ELSE retry}
  /\ cron' = [cron EXCEPT !.at = "sweep"]
  /\ UNCHANGED <<retired, control, details, dir, outcome, Other, shown>>

\* The control row goes when nothing can come of the identifier any more and
\* its outcome is gone, or past its own retention.
Forgettable ==
  /\ control.status \in {"ready", "closed"}
  /\ ExpiresAt(control.room) <= retired + Window
  /\ IssuedAt <= retired
  /\ dir[control.room] = "none"

Sweep ==
  /\ cron.at = "sweep"
  /\ \E old \in BOOLEAN :
       control' = IF Forgettable /\ (old \/ outcome[control.room] = "none")
                  THEN NoControl ELSE control
  /\ cron' = [at |-> "idle", room |-> NoRoom]
  /\ UNCHANGED <<retired, retry, details, dir, outcome, Other, shown>>

Tick ==
  /\ now < MaxTime \/ retry > 0
  /\ now' = IF now < MaxTime THEN now + 1 ELSE now
  /\ retry' = IF retry > 0 THEN retry - 1 ELSE 0
  /\ UNCHANGED <<request, retired, control, details, dir, outcome, room, acct, orphans,
                 cron, aborts, shown>>

-----------------------------------------------------------------------------
Account ==
  \/ Resume \/ CheckCommitted \/ ReadPolicy \/ ReadControl \/ ReadDetail
  \/ StillAccepted \/ InsertRoom \/ RowExists \/ InspectRoom \/ InitRoom
  \/ PublishRoom \/ VerifyPublished \/ FinishReady
  \/ Recheck("recheck", "reread") \/ RereadControl
  \/ CloseStep("close", "recheck2") \/ Recheck("recheck2", "confirm")
  \/ ConfirmClosed \/ CloseStep("shut", "drop") \/ CloseStep("drop", "end")
  \/ EndFailure

Cron == Retire \/ Claim \/ NothingDue \/ CronInspect \/ CronPublish
        \/ CronRemove \/ Sweep

Next ==
  \/ Account \/ Cron \/ CronFails \/ Tick \/ Abort
  \/ \E n \in Names : Ask(n)
  \/ \E m \in orphans : Land(m)
  \/ \E r \in Rooms : RoomEnds(r) \/ FlushOutcome(r) \/ RetentionEnds(r)

Spec == Init /\ [][Next]_vars

-----------------------------------------------------------------------------
Visited == {r \in Rooms : dir[r] \in Visible \/ outcome[r] \in Visible}

\* A room can be found only after its creator was put into it
\* (room-creation.ts, publishRoomCreation).
FoundRoomsExist == \A r \in Visited : room[r] \notin {"none", "barred"}

\* Nobody but the room itself ends a room that could be found, or takes it
\* out of the directory: no failed retry of the request does
\* (account-do.ts, finishFailure).
FoundRoomsAreKept ==
  [][\A r \in shown :
       \/ room[r] = "live" /\ room'[r] # "live"
       \/ dir[r] \in Visible /\ dir'[r] \notin Visible
       => UNCHANGED <<run, orphans, cron>>]_vars

\* What became of the request, and what the person was told.
Verdict ==
  IF shown # {} THEN CHOOSE r \in shown : TRUE
  ELSE IF control.status = "closed" \/ (control = NoControl /\ retired >= IssuedAt)
  THEN "closed" ELSE "open"

\* "expired" while it is confirmed only asks to look up the result; the room of
\* an older operation may still be on its way to the directory.
Answer ==
  IF op.phase = "ready" THEN op.room
  ELSE IF op.phase = "failed" /\ op.failure \in {"expired", "closed"}
  THEN "refused" ELSE "none"

Promise == INSTANCE CreationPromise WITH verdict <- Verdict, answer <- Answer

\* The request is decided once, whichever of the attempt, its orphans and the
\* job decides it and whatever is cleaned up afterwards; "ready" names the room
\* that could be found, and after a final failure none turns up
\* (account-do.ts, commitInside and finishFailure).
PromiseSpec == Promise!Spec

-----------------------------------------------------------------------------
(* Liveness *)

\* The hourly job comes again and its calls succeed if they are made often
\* enough; time passes.  Nothing is asked of the account.
FairJob ==
  /\ WF_vars(Tick) /\ WF_vars(Retire) /\ WF_vars(Claim)
  /\ WF_vars(NothingDue) /\ WF_vars(Sweep)
  /\ SF_vars(CronInspect) /\ SF_vars(CronPublish) /\ SF_vars(CronRemove)

FairSpec == Spec /\ FairJob

\* A request nobody drives any more is decided all the same
\* (room-creation-cleanup.ts, cleanupRoomCreations).
DecidedInTheEnd == control.status = "pending" ~> control.status # "pending"

\* The second copy of the room's name does not outlive the request by more
\* than the grace, whether it was decided or not
\* (room-creation-cleanup.ts, the details deleted below the watermark).
NameIsForgotten == <>[](details = NoName)

=============================================================================
