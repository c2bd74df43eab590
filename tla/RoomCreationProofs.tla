-------------------------- MODULE RoomCreationProofs --------------------------
(***************************************************************************)
(* Theorems about RoomCreation, for any rooms, names, clocks, deadlines    *)
(* and numbers of attempts.                                                *)
(*                                                                         *)
(* The argument: whatever a store is told, by a live attempt, by the write *)
(* of a dead one or by the job, some facts about a request only ever       *)
(* become true (Onward): a room has begun, a request is decided, its row   *)
(* is bound to one room, a closed room can no longer be found.  What an    *)
(* attempt, an orphan or the job may still do rests on such facts alone    *)
(* (AttemptOK, JobOK), so that it does not matter when the write lands.    *)
(***************************************************************************)
EXTENDS RoomCreation, TLAPS

-----------------------------------------------------------------------------
(* Facts that stay true once they are. *)

\* The request has left no row and none will be accepted any more.
Gone == control = NoControl /\ IssuedAt <= retired

\* The creator was put into the room.
Begun(r) == room[r] \notin {"none", "barred"}

\* The request's row names this room, now and until nothing is left of it.
Bound(r) == r \in Rooms /\ (control.room = r \/ Gone)

\* The request was inserted once.
Known == control # NoControl \/ Gone

\* It has come to one room or to none.
Decided == shown # {} \/ control.status = "closed" \/ Gone

\* Nobody found the room and nobody will.
Doomed(r) == r \in Rooms \ shown /\ (control.status = "closed" \/ Gone)

Onward ==
  /\ \A r \in Rooms : /\ Begun(r) => Begun(r)'
                      /\ Bound(r) => Bound(r)'
                      /\ Doomed(r) => Doomed(r)'
  /\ Known => Known'
  /\ Decided => Decided' /\ shown' = shown
  /\ shown \subseteq shown'

\* A step that ends no room that could be found, nor takes it out of the directory.
KeepsFound ==
  \A r \in shown : /\ room[r] = "live" => room'[r] = "live"
                   /\ dir[r] \in Visible => dir'[r] \in Visible

-----------------------------------------------------------------------------
(* The inductive invariant. *)

StoreTypes ==
  /\ request \in Requests
  /\ retired \in Nat
  /\ control \in Control
  /\ retry \in 0 .. Backoff
  /\ details \in Names \cup {NoName}
  /\ dir \in [Rooms -> Visibility]
  /\ outcome \in [Rooms -> Visibility]
  /\ room \in [Rooms -> RoomState]
  /\ shown \subseteq Rooms

\* A control row names a room.  What can be found was shown, one room at most,
\* which had begun; the row is ready exactly for that room, until it is gone.
StoreInv ==
  /\ StoreTypes
  /\ control = NoControl \/ (control.status # "none" /\ control.room \in Rooms)
  /\ Visited \subseteq shown
  /\ \A r \in shown : Begun(r)
  /\ \A r, q \in shown : r = q
  /\ shown # {} => control.status = "ready" \/ Gone
  /\ control.status = "ready" => control.room \in shown
  /\ control.status = "pending" => dir[control.room] = "hidden"
  /\ \A r \in Rooms : room[r] = "completed" => r \in shown

\* What a live or a dead attempt has learnt.
AttemptOK(a) ==
  /\ a \in Attempt
  /\ a.at \in {"accept", "exists", "inspect", "init", "publish", "verify",
               "close", "recheck2", "confirm"} => Bound(a.room)
  /\ a.at = "publish" => Begun(a.room)
  /\ a.at \in {"shut", "drop"} => Doomed(a.room)
  /\ a.at = "finish" => a.room \in shown
  /\ a.at \in {"accept", "exists"} /\ (a.sure \/ a.status = "ready")
       => a.room \in shown
  /\ a.sure => shown # {}
  /\ a.at \in {"recheck2", "confirm"} => Decided

JobOK ==
  /\ cron \in Job
  /\ cron.at \in {"inspect", "publish", "remove"} => cron.room \in Rooms
  /\ cron.at = "publish" => Begun(cron.room)

Driving == {"committed", "policy", "control", "detail", "accept", "exists",
            "insert", "inspect", "init", "publish", "verify"}
Failing == {"recheck", "reread", "close", "recheck2", "confirm", "shut", "drop"}

\* A final refusal: the person is told that nothing came of the request.
Final == {"expired", "closed"}

OperationOK ==
  /\ op \in Operation
  /\ op.phase \in {"leaving", "joining"} => Known
  /\ op.phase = "confirmation" /\ op.failure = "closed" => Decided
  /\ op.phase = "failed" /\ op.failure \in Final => Decided
  /\ op.phase = "ready" => op.room \in shown

\* Where an attempt may be, given its operation.
Serves(at, o) ==
  /\ at \in Driving => o.failure = "none"
  /\ at = "inspect" => o.phase = "leaving"
  /\ at \in {"init", "publish", "verify"} => o.phase = "joining"
  /\ at \in Failing => o.phase # "confirmation"
  /\ at = "end" /\ o.failure \in Final
       => Decided \/ (o.phase = "confirmation" /\ o.failure = "expired")

RunOK ==
  /\ AttemptOK(run)
  /\ run.at = "idle" <=> run = Idle
  /\ run # Idle => Unfinished
  /\ Serves(run.at, op)

CreationInv ==
  /\ StoreInv
  /\ OperationOK /\ RunOK
  /\ \A m \in orphans : m.at \in Writing /\ AttemptOK(m)
  /\ JobOK
  /\ now \in 0 .. MaxTime /\ asks \in 0 .. MaxAsks /\ aborts \in 0 .. MaxAborts

-----------------------------------------------------------------------------
(* What the operations of the stores do to these facts. *)

USE CreationAssumption

LEMMA StoresOnly ==
  ASSUME StoreInv, UNCHANGED <<request, d1, room, shown>>
  PROVE  StoreInv' /\ Onward /\ KeepsFound
BY DEF StoreInv, StoreTypes, Onward, KeepsFound, Begun, Bound, Gone, Known, Decided, Doomed, Visited,
       IssuedAt, d1

LEMMA InsertKeeps ==
  ASSUME StoreInv, NEW r \in Rooms, NEW n \in Names \cup {NoName}, NEW t \in Nat,
         ~Taken(r), Accepts(t), control = NoControl,
         Insert(r, n), UNCHANGED <<request, room>>
  PROVE  StoreInv' /\ Onward /\ KeepsFound /\ Bound(r)'
<1>1. ~Gone /\ shown = {} /\ control.status = "none"
  BY DEF StoreInv, StoreTypes, Gone, Accepts, NoControl, IssuedAt
<1>2. QED BY <1>1 DEF StoreInv, StoreTypes, Onward, KeepsFound, Begun, Bound, Gone, Known, Decided, Doomed,
       Visited, IssuedAt, Insert, Control, Visibility, Visible, NoControl

LEMMA DecideKeeps ==
  ASSUME StoreInv, NEW r \in Rooms, NEW closeOnly \in BOOLEAN, NEW t \in Nat,
         Decide(r, Decision(r, closeOnly, t)), UNCHANGED <<request, d1, shown>>
  PROVE  /\ StoreInv' /\ Onward /\ KeepsFound
         /\ Decision(r, closeOnly, t) = "ready" => Begun(r)'
BY DEF StoreInv, StoreTypes, Onward, KeepsFound, Begun, Bound, Gone, Known, Decided, Doomed, Visited,
       IssuedAt, d1, Decide, Decision, RoomState

\* A row is published as one step: the outcome, the directory and the control
\* row, or none of them.
LEMMA PublishCases ==
  ASSUME StoreInv, NEW r \in Rooms, Publish(r)
  PROVE  \/ UNCHANGED <<d1, shown>>
         \/ /\ control = [status |-> "pending", room |-> r]
            /\ control' = [status |-> "ready", room |-> r]
            /\ dir' = [dir EXCEPT ![r] = "published"]
            /\ outcome' = [outcome EXCEPT ![r] = "published"]
            /\ shown = {} /\ shown' = {r}
            /\ UNCHANGED <<retired, retry, details>>
<1>1. CASE control = [status |-> "pending", room |-> r]
  <2>1. /\ control.status = "pending" /\ control.room = r /\ dir[r] = "hidden"
        /\ shown = {} /\ outcome[r] \notin Visible
    BY <1>1 DEF StoreInv, StoreTypes, Gone, NoControl, Visited
  <2>2. CASE outcome[r] = "hidden"
    BY <1>1, <2>1, <2>2 DEF Publish, StoreInv, StoreTypes, Visible
  <2>3. CASE outcome[r] # "hidden"
    <3>1. UNCHANGED <<outcome, dir, control, shown>>
      BY <1>1, <2>1, <2>3 DEF Publish, StoreInv, StoreTypes, Visible
    <3>2. QED BY <3>1 DEF Publish, d1
  <2>4. QED BY <2>2, <2>3
<1>2. CASE control # [status |-> "pending", room |-> r]
  <2>1. control.status = "pending" => shown = {}
    BY DEF StoreInv, Gone, NoControl
  <2>2. dir[r] \in Visible \/ outcome[r] \in Visible => r \in shown
    BY DEF StoreInv, Visited
  <2>3. UNCHANGED <<outcome, dir>>
    BY <1>2 DEF Publish, StoreInv, StoreTypes
  <2>4. UNCHANGED <<control, shown>>
    BY <1>2, <2>1, <2>2 DEF Publish, Visible
  <2>5. QED BY <2>3, <2>4 DEF Publish, d1
<1>3. QED BY <1>1, <1>2

LEMMA PublishKeeps ==
  ASSUME StoreInv, NEW r \in Rooms, Begun(r), Publish(r), UNCHANGED <<request, room>>
  PROVE  /\ StoreInv' /\ Onward /\ KeepsFound
         /\ control' # control => r \in shown'
<1>1. CASE UNCHANGED <<d1, shown>>
  BY <1>1, StoresOnly DEF d1
<1>2. CASE /\ control = [status |-> "pending", room |-> r]
           /\ control' = [status |-> "ready", room |-> r]
           /\ dir' = [dir EXCEPT ![r] = "published"]
           /\ outcome' = [outcome EXCEPT ![r] = "published"]
           /\ shown = {} /\ shown' = {r}
           /\ UNCHANGED <<retired, retry, details>>
  BY <1>2 DEF StoreInv, StoreTypes, Onward, KeepsFound, Begun, Bound, Gone, Known, Decided, Doomed,
       Visited, IssuedAt, Visible, Visibility, Control, NoControl
<1>3. QED BY <1>1, <1>2, PublishCases

LEMMA CloseKeeps ==
  ASSUME StoreInv, ClosePending,
         UNCHANGED <<request, retired, retry, details, dir, outcome, room, shown>>
  PROVE  /\ StoreInv' /\ Onward /\ KeepsFound
         /\ Known => Decided'
BY DEF StoreInv, StoreTypes, Onward, KeepsFound, Begun, Bound, Gone, Known, Decided, Doomed, Visited,
       IssuedAt, ClosePending, Control, NoControl, Visible

LEMMA RemoveKeeps ==
  ASSUME StoreInv, NEW r \in Rooms, Remove(r), UNCHANGED <<request, room>>
  PROVE  /\ StoreInv' /\ Onward /\ KeepsFound
BY DEF StoreInv, StoreTypes, Onward, KeepsFound, Begun, Bound, Gone, Known, Decided, Doomed, Visited,
       IssuedAt, Remove, ClosePending, Control, NoControl, Visible, Visibility

LEMMA ShutKeeps ==
  ASSUME StoreInv, NEW r, Doomed(r), CloseRoom(r), UNCHANGED <<request, d1, shown>>
  PROVE  StoreInv' /\ Onward /\ KeepsFound
BY DEF StoreInv, StoreTypes, Onward, KeepsFound, Begun, Bound, Gone, Known, Decided, Doomed, Visited,
       IssuedAt, CloseRoom, RoomState, d1

LEMMA DropKeeps ==
  ASSUME StoreInv, NEW r, Doomed(r), dir' = [dir EXCEPT ![r] = "none"],
         UNCHANGED <<request, retired, control, retry, details, outcome, room, shown>>
  PROVE  StoreInv' /\ Onward /\ KeepsFound
BY DEF StoreInv, StoreTypes, Onward, KeepsFound, Begun, Bound, Gone, Known, Decided, Doomed, Visited,
       IssuedAt, Visibility, Visible, NoControl

\* Land or live, a write does no harm.
LEMMA EffectKeeps ==
  ASSUME StoreInv, NEW m, m.at \in Writing, AttemptOK(m), Effect(m), UNCHANGED request,
         now \in Nat
  PROVE  /\ StoreInv' /\ Onward /\ KeepsFound
         /\ m.at = "close" => Decided'
<1> USE DEF Writing
<1>1. CASE m.at = "insert"
  <2>1. PICK t \in Clock, r \in Rooms :
          /\ ~Taken(r)
          /\ IF Accepts(t) /\ control = NoControl
             THEN Insert(r, m.name) ELSE UNCHANGED <<d1, shown>>
    BY <1>1 DEF Effect
  <2>2. UNCHANGED room
    BY <1>1 DEF Effect
  <2>3. t \in Nat /\ m.name \in Names \cup {NoName}
    BY <2>1 DEF Clock, AttemptOK, Attempt
  <2>4. QED BY <1>1, <2>1, <2>2, <2>3, InsertKeeps, StoresOnly
<1>2. CASE m.at \in {"inspect", "init"}
  <2>1. PICK t \in Clock : Decide(m.room, Decision(m.room, m.at = "inspect", t))
    BY <1>2 DEF Effect
  <2>2. UNCHANGED <<d1, shown>>
    BY <1>2 DEF Effect
  <2>3. t \in Nat /\ m.room \in Rooms
    BY <1>2, <2>1 DEF Clock, AttemptOK, Bound
  <2>4. (m.at = "inspect") \in BOOLEAN
    OBVIOUS
  <2>5. QED BY <1>2, <2>1, <2>2, <2>3, <2>4, DecideKeeps
<1>3. CASE m.at = "publish"
  <2>1. m.room \in Rooms /\ Begun(m.room)
    BY <1>3 DEF AttemptOK, Bound
  <2>2. Publish(m.room) /\ UNCHANGED room
    BY <1>3 DEF Effect
  <2>3. QED BY <1>3, <2>1, <2>2, PublishKeeps
<1>4. CASE m.at = "close"
  <2>1. ClosePending /\ UNCHANGED <<retired, retry, details, dir, outcome, room, shown>>
    BY <1>4 DEF Effect
  <2>2. Known
    BY <1>4 DEF AttemptOK, Bound, Known, NoControl
  <2>3. QED BY <1>4, <2>1, <2>2, CloseKeeps
<1>5. CASE m.at = "shut"
  <2>1. Doomed(m.room) /\ CloseRoom(m.room) /\ UNCHANGED <<d1, shown>>
    BY <1>5 DEF AttemptOK, Effect
  <2>2. QED BY <1>5, <2>1, ShutKeeps
<1>6. CASE m.at = "drop"
  <2>1. Doomed(m.room)
    BY <1>6 DEF AttemptOK
  <2>2. /\ dir' = [dir EXCEPT ![m.room] = "none"]
        /\ UNCHANGED <<retired, control, retry, details, outcome, room, shown>>
    BY <1>6 DEF Effect
  <2>3. QED BY <1>6, <2>1, <2>2, DropKeeps
<1>7. QED BY <1>1, <1>2, <1>3, <1>4, <1>5, <1>6

-----------------------------------------------------------------------------
(* What attempts, the job and the operation rest on stays true. *)

LEMMA AttemptKeeps ==
  ASSUME NEW a, AttemptOK(a), Onward
  PROVE  AttemptOK(a)'
BY DEF AttemptOK, Onward, Bound, Doomed

LEMMA JobKeeps ==
  ASSUME JobOK, Onward, UNCHANGED cron
  PROVE  JobOK'
BY DEF JobOK, Onward

LEMMA OperationKeeps ==
  ASSUME OperationOK, Onward, UNCHANGED op
  PROVE  OperationOK'
BY DEF OperationOK, Onward

LEMMA RunKeeps ==
  ASSUME RunOK, Onward, UNCHANGED <<run, op>>
  PROVE  RunOK'
<1>1. AttemptOK(run)'
  BY AttemptKeeps DEF RunOK
<1>2. QED BY <1>1 DEF RunOK, Serves, Onward, Unfinished

LEMMA OrphansKeep ==
  ASSUME \A m \in orphans : m.at \in Writing /\ AttemptOK(m), Onward,
         orphans' \subseteq orphans
  PROVE  (\A m \in orphans : m.at \in Writing /\ AttemptOK(m))'
BY AttemptKeeps

-----------------------------------------------------------------------------
(* The steps. *)

\* What a step tells the person: nothing, or, while nothing else changes, a
\* question opens again, is refused, or is answered by the room that was found.
AnswerStep ==
  \/ Answer' = Answer
  \/ /\ UNCHANGED <<request, d1, shown>>
     /\ \/ Answer' = "none"
        \/ Answer = "none" /\ Answer' \in shown \cup {"refused"}

StepOK == CreationInv' /\ Onward /\ KeepsFound /\ AnswerStep

LEMMA SilentWork ==
  ASSUME Unfinished, Unfinished'
  PROVE  AnswerStep
BY DEF AnswerStep, Answer, Unfinished

LEMMA AccountFrame ==
  ASSUME CreationInv, StoreInv', Onward, KeepsFound, AnswerStep,
         OperationOK', RunOK', asks' \in 0 .. MaxAsks,
         UNCHANGED <<orphans, cron, now, aborts>>
  PROVE  StepOK
<1>1. JobOK' /\ (\A m \in orphans : m.at \in Writing /\ AttemptOK(m))'
  BY JobKeeps, OrphansKeep DEF CreationInv
<1>2. QED BY <1>1 DEF CreationInv, StepOK

\* A step of the attempt that writes nothing: it only has to be where it may be.
LEMMA Quiet ==
  ASSUME CreationInv, UNCHANGED <<Stores, Rest>>
  PROVE  /\ UNCHANGED <<request, d1, room, shown, orphans, cron, now, aborts, asks>>
         /\ StoreInv' /\ Onward /\ KeepsFound
<1>1. UNCHANGED <<request, d1, room, shown, orphans, cron, now, aborts, asks>>
  BY DEF Stores, Rest
<1>2. QED BY <1>1, StoresOnly DEF CreationInv

LEMMA ReadingStep ==
  ASSUME CreationInv, UNCHANGED <<Stores, op, Rest>>, run # Idle \/ Unfinished,
         RunOK'
  PROVE  StepOK
<1>1. /\ UNCHANGED <<request, d1, room, shown, orphans, cron, now, aborts, asks, op>>
      /\ StoreInv' /\ Onward /\ KeepsFound
  BY Quiet
<1>2. Unfinished /\ Unfinished'
  BY <1>1 DEF CreationInv, RunOK, Unfinished
<1>3. OperationOK'
  BY <1>1, OperationKeeps DEF CreationInv
<1>4. QED BY <1>1, <1>2, <1>3, SilentWork, AccountFrame DEF CreationInv

LEMMA ResumeStep == ASSUME CreationInv, Resume PROVE StepOK
<1>1. run = Idle /\ Unfinished /\ UNCHANGED <<Stores, op, Rest>>
  BY DEF Resume
<1>2. OperationOK' /\ UNCHANGED op
  BY <1>1, Quiet, OperationKeeps DEF CreationInv
<1>3. run'.at \in {"recheck", "end", "policy", "committed"}
  BY DEF Resume, AfterFailure, Idle
<1>4. AttemptOK(run)'
  BY <1>1, <1>3 DEF Resume, AttemptOK, Attempt, Awaits, Writing, Idle, CreationInv,
     OperationOK, Operation
<1>5. RunOK'
  BY <1>1, <1>2, <1>3, <1>4 DEF RunOK, Serves, Resume, Idle, AfterFailure, Unfinished, Driving,
     Failing, OperationOK, Final, Operation
<1>6. QED BY <1>1, <1>4, <1>5, ReadingStep

\* The attempt has learnt something or moved on, without writing.
LEMMA MoveStep ==
  ASSUME CreationInv, NEW a, run' = a, UNCHANGED <<Stores, op, Rest>>,
         AttemptOK(a), Serves(a.at, op), a.at # "idle", run # Idle
  PROVE  StepOK
<1>1. Onward /\ UNCHANGED op
  BY Quiet
<1>2. AttemptOK(run)'
  BY <1>1, AttemptKeeps
<1>3. run'.at # "idle" /\ run' # Idle
  BY DEF Idle
<1>4. Unfinished'
  BY <1>1 DEF CreationInv, RunOK, Unfinished
<1>5. RunOK'
  BY <1>1, <1>2, <1>3, <1>4 DEF RunOK, Serves, Onward
<1>6. QED BY <1>5, ReadingStep

LEMMA GoStep ==
  ASSUME CreationInv, NEW at \in Awaits \ {"idle"}, Go(at), run # Idle,
         AttemptOK([run EXCEPT !.at = at]), Serves(at, op)
  PROVE  StepOK
<1>1. UNCHANGED <<Stores, op, Rest>> /\ run' = [run EXCEPT !.at = at]
  BY DEF Go, Goto
<1>2. [run EXCEPT !.at = at].at = at
  BY DEF CreationInv, RunOK, AttemptOK, Attempt
<1>3. QED BY <1>1, <1>2, MoveStep

LEMMA CheckCommittedStep == ASSUME CreationInv, CheckCommitted PROVE StepOK
<1>1. run.at = "committed" /\ UNCHANGED <<Stores, op, Rest>>
  BY DEF CheckCommitted
<1>2. run # Idle /\ AttemptOK(run) /\ Serves(run.at, op)
  BY <1>1 DEF CreationInv, RunOK, Idle
<1>3. IsReady => control.room \in shown /\ control.room \in Rooms
  BY DEF CreationInv, StoreInv, StoreTypes, IsReady
<1>4. AttemptOK(run') /\ run'.at \in {"policy", "finish"}
  BY <1>1, <1>2, <1>3 DEF CheckCommitted, Committed, AttemptOK, Attempt, Awaits
<1>5. Serves(run'.at, op)
  BY <1>1, <1>2, <1>4 DEF Serves, Driving, Failing
<1>6. QED BY <1>1, <1>2, <1>4, <1>5, MoveStep

LEMMA ReadPolicyStep == ASSUME CreationInv, ReadPolicy PROVE StepOK
<1>1. run.at = "policy" /\ UNCHANGED <<Stores, op, Rest>>
  BY DEF ReadPolicy
<1>2. run # Idle /\ AttemptOK(run) /\ Serves(run.at, op) /\ retired \in Nat
  BY <1>1 DEF CreationInv, RunOK, Idle, StoreInv, StoreTypes
<1>3. AttemptOK(run') /\ run'.at = "control"
  BY <1>1, <1>2 DEF ReadPolicy, AttemptOK, Attempt, Awaits
<1>4. Serves(run'.at, op)
  BY <1>1, <1>2, <1>3 DEF Serves, Driving, Failing
<1>5. QED BY <1>1, <1>2, <1>3, <1>4, MoveStep

\* A failure that may end the operation is written down: in its confirmation
\* only a request that is decided is said to be closed.
LEMMA FailureWork ==
  ASSUME CreationInv, NEW reason \in Reason \ {"none"}, Fails(reason), run # Idle,
         UNCHANGED Rest, StoreInv', Onward, KeepsFound,
         op.phase = "confirmation" /\ reason = "closed" => Decided
  PROVE  StepOK
<1>1. /\ UNCHANGED <<request, orphans, cron, now, aborts, asks>>
      /\ op' = [op EXCEPT !.failure = reason]
      /\ run' = [run EXCEPT !.at = AfterFailure(reason)]
  BY DEF Fails, Goto, Rest
<1>2. AttemptOK(run) /\ Unfinished
  BY DEF CreationInv, RunOK
<1>3. Unfinished' /\ op' \in Operation /\ op'.phase = op.phase /\ op'.failure = reason
  BY <1>1, <1>2 DEF CreationInv, OperationOK, Operation, Unfinished
<1>4. OperationOK'
  BY <1>2, <1>3 DEF CreationInv, OperationOK, Onward, Unfinished
<1>5. AttemptOK(run)'
  BY <1>1, <1>2 DEF AttemptOK, Attempt, Awaits, AfterFailure, Onward
<1>6. RunOK'
  BY <1>1, <1>3, <1>5 DEF RunOK, Serves, Idle, AfterFailure, Driving, Failing, Final, Onward,
     AttemptOK, Attempt, Reason
<1>7. QED BY <1>1, <1>2, <1>3, <1>4, <1>6, SilentWork, AccountFrame DEF CreationInv

LEMMA FailureStep ==
  ASSUME CreationInv, NEW reason \in Reason \ {"none"}, FailsFor(reason), run # Idle,
         op.phase = "confirmation" /\ reason = "closed" => Decided
  PROVE  StepOK
<1>1. Fails(reason) /\ UNCHANGED <<Stores, Rest>>
  BY DEF FailsFor
<1>2. QED BY <1>1, Quiet, FailureWork

LEMMA ReadControlStep == ASSUME CreationInv, ReadControl PROVE StepOK
<1>1. run.at = "control" /\ run # Idle /\ AttemptOK(run) /\ Serves(run.at, op)
  BY DEF ReadControl, CreationInv, RunOK, Idle
<1>2. CASE FailsFor("update_required") \/ FailsFor("expired")
  BY <1>1, <1>2, FailureStep DEF Reason
<1>3. CASE control.status = "closed" /\ FailsFor("closed")
  BY <1>1, <1>3, FailureStep DEF Reason, Decided
<1>4. CASE Go("insert") \/ Go("detail")
  <2>1. AttemptOK([run EXCEPT !.at = "insert"]) /\ AttemptOK([run EXCEPT !.at = "detail"])
    BY <1>1 DEF AttemptOK, Attempt, Awaits, Writing
  <2>2. Serves("insert", op) /\ Serves("detail", op)
    BY <1>1 DEF Serves, Driving, Failing
  <2>3. {"insert", "detail"} \subseteq Awaits \ {"idle"}
    BY DEF Awaits, Writing
  <2>4. QED BY <1>1, <1>4, <2>1, <2>2, <2>3, GoStep
<1>5. QED BY <1>2, <1>3, <1>4 DEF ReadControl

LEMMA ReadDetailStep == ASSUME CreationInv, ReadDetail PROVE StepOK
<1>1. run.at = "detail" /\ run # Idle /\ AttemptOK(run) /\ Serves(run.at, op)
  BY DEF ReadDetail, CreationInv, RunOK, Idle
<1>2. CASE FailsFor("expired") \/ FailsFor("input_conflict")
  BY <1>1, <1>2, FailureStep DEF Reason
<1>3. CASE /\ control # NoControl
           /\ run' = [run EXCEPT !.at = "accept", !.room = control.room,
                                 !.status = control.status]
           /\ UNCHANGED <<Stores, op, Rest>>
  <2>1. /\ Bound(control.room) /\ control \in Control
        /\ control.status = "ready" \/ shown # {} => control.room \in shown
    BY <1>3 DEF CreationInv, StoreInv, StoreTypes, Bound, Gone
  <2>2. AttemptOK(run') /\ run'.at = "accept"
    BY <1>1, <1>3, <2>1 DEF AttemptOK, Attempt, Awaits, Control, Bound
  <2>3. Serves(run'.at, op)
    BY <1>1, <2>2 DEF Serves, Driving, Failing
  <2>4. QED BY <1>1, <1>3, <2>2, <2>3, MoveStep
<1>4. QED BY <1>2, <1>3 DEF ReadDetail

LEMMA StillAcceptedStep == ASSUME CreationInv, StillAccepted PROVE StepOK
<1>1. run.at = "accept" /\ run # Idle /\ AttemptOK(run) /\ Serves(run.at, op)
  BY DEF StillAccepted, CreationInv, RunOK, Idle
<1>2. CASE FailsFor("expired")
  BY <1>1, <1>2, FailureStep DEF Reason
<1>3. CASE Go(Reserved)
  <2>1. Reserved \in Awaits \ {"idle"} /\ AttemptOK([run EXCEPT !.at = Reserved])
    BY <1>1 DEF AttemptOK, Attempt, Awaits, Reserved
  <2>2. Serves(Reserved, op)
    BY <1>1 DEF Serves, Driving, Failing, Reserved
  <2>3. QED BY <1>1, <1>3, <2>1, <2>2, GoStep
<1>4. QED BY <1>2, <1>3 DEF StillAccepted

LEMMA InsertRoomStep == ASSUME CreationInv, InsertRoom PROVE StepOK
<1>1. run.at = "insert" /\ run # Idle /\ AttemptOK(run) /\ Serves(run.at, op)
  BY DEF InsertRoom, CreationInv, RunOK, Idle
<1>2. CASE FailsFor("expired")
  BY <1>1, <1>2, FailureStep DEF Reason
<1>3. CASE Go("control")
  <2>1. AttemptOK([run EXCEPT !.at = "control"]) /\ "control" \in Awaits \ {"idle"}
    BY <1>1 DEF AttemptOK, Attempt, Awaits
  <2>2. Serves("control", op)
    BY <1>1 DEF Serves, Driving, Failing
  <2>3. QED BY <1>1, <1>3, <2>1, <2>2, GoStep
<1>4. ASSUME NEW t \in Clock, NEW r \in Rooms, ~Taken(r), Accepts(t), control = NoControl,
             Insert(r, run.name),
             run' = [run EXCEPT !.at = Reserved, !.room = r, !.status = "pending"],
             UNCHANGED <<room, op, Rest>>
      PROVE  StepOK
  <2>1. UNCHANGED <<request, room, op, orphans, cron, now, aborts, asks>>
    BY <1>4 DEF Rest
  <2>2. t \in Nat /\ run.name \in Names \cup {NoName}
    BY <1>1 DEF Clock, AttemptOK, Attempt
  <2>3. StoreInv' /\ Onward /\ KeepsFound /\ Bound(r)'
    BY <1>4, <2>1, <2>2, InsertKeeps DEF CreationInv
  <2>4. run'.at = "exists" /\ run'.status = "pending" /\ run'.room = r /\ ~run'.sure
        /\ run' \in Attempt
    <3>1. shown = {}                       \* the request was still accepted
      BY <1>4 DEF CreationInv, StoreInv, StoreTypes, Gone, Accepts, NoControl, IssuedAt
    <3>2. ~run.sure
      BY <1>1, <3>1 DEF AttemptOK
    <3>3. QED BY <1>1, <1>4, <3>2 DEF AttemptOK, Attempt, Awaits, Reserved
  <2>5. AttemptOK(run)'
    BY <2>3, <2>4 DEF AttemptOK
  <2>6. Unfinished /\ Unfinished'
    BY <1>1, <2>1 DEF CreationInv, RunOK, Unfinished
  <2>7. RunOK'
    BY <1>1, <2>1, <2>4, <2>5, <2>6 DEF RunOK, Serves, Driving, Failing, Idle
  <2>8. OperationOK'
    BY <2>1, <2>3, OperationKeeps DEF CreationInv
  <2>9. QED BY <2>1, <2>3, <2>6, <2>7, <2>8, SilentWork, AccountFrame DEF CreationInv
<1>5. QED BY <1>2, <1>3, <1>4 DEF InsertRoom

\* The operation moves to another phase and the attempt goes on or stops; the
\* room may have been asked in the same step.
LEMMA PhaseWork ==
  ASSUME CreationInv, run # Idle, UNCHANGED Rest, StoreInv', Onward, KeepsFound,
         NEW phase \in {"confirmation", "leaving", "joining"},
         op'.phase = phase, op' \in Operation, op'.failure = "none",
         phase # "confirmation" => Known,
         AttemptOK(run)', run' = Idle \/ run'.at = "policy"
  PROVE  StepOK
<1>1. UNCHANGED <<request, orphans, cron, now, aborts, asks>>
  BY DEF Rest
<1>2. Unfinished /\ Unfinished'
  BY DEF CreationInv, RunOK, Unfinished
<1>3. OperationOK'
  BY DEF OperationOK, Onward, Final
<1>4. RunOK'
  BY <1>2 DEF RunOK, Serves, Idle, Driving, Failing, Final
<1>5. QED BY <1>1, <1>2, <1>3, <1>4, SilentWork, AccountFrame DEF CreationInv

LEMMA RowExistsStep == ASSUME CreationInv, RowExists PROVE StepOK
<1>1. run.at = "exists" /\ run # Idle /\ AttemptOK(run) /\ Serves(run.at, op)
  BY DEF RowExists, CreationInv, RunOK, Idle
<1>2. Bound(run.room) /\ op.failure = "none" /\ Unfinished
  BY <1>1 DEF AttemptOK, Serves, Driving, CreationInv, RunOK
<1>3. CASE dir[run.room] = "none" /\ FailsFor("closed")
  <2>1. Decided
    BY <1>2, <1>3 DEF CreationInv, StoreInv, StoreTypes, Bound, Decided, Control, NoControl
  <2>2. QED BY <1>1, <1>3, <2>1, FailureStep DEF Reason
<1>4. ASSUME NEW next \in {"leaving", "joining"},
             op' = [op EXCEPT !.phase = next, !.room = run.room],
             Goto("policy"), UNCHANGED <<Stores, Rest>>
      PROVE  StepOK
  <2>1. StoreInv' /\ Onward /\ KeepsFound
    BY <1>4, Quiet
  <2>2. Known
    BY <1>2 DEF Bound, Known, NoControl
  <2>3. AttemptOK(run)' /\ run'.at = "policy"
    BY <1>1, <1>4, <2>1 DEF Goto, AttemptOK, Attempt, Awaits, Onward
  <2>4. op' \in Operation /\ op'.phase = next /\ op'.failure = "none"
    BY <1>2, <1>4 DEF CreationInv, OperationOK, Operation, Bound
  <2>5. QED BY <1>1, <1>4, <2>1, <2>2, <2>3, <2>4, PhaseWork
<1>5. CASE op.phase = "leaving" /\ Go("inspect")
  <2>1. AttemptOK([run EXCEPT !.at = "inspect"]) /\ "inspect" \in Awaits \ {"idle"}
    BY <1>1 DEF AttemptOK, Attempt, Awaits, Writing
  <2>2. Serves("inspect", op)
    BY <1>2, <1>5 DEF Serves, Failing
  <2>3. QED BY <1>1, <1>5, <2>1, <2>2, GoStep
<1>6. CASE op.phase = "joining" /\ Go(IF run.status = "ready" THEN "finish" ELSE "init")
  <2> DEFINE at == IF run.status = "ready" THEN "finish" ELSE "init"
  <2>1. AttemptOK([run EXCEPT !.at = at]) /\ at \in Awaits \ {"idle"}
    BY <1>1 DEF AttemptOK, Attempt, Awaits, Writing
  <2>2. Serves(at, op)
    BY <1>2, <1>6 DEF Serves, Failing, Driving
  <2>3. QED BY <1>1, <1>6, <2>1, <2>2, GoStep
<1>7. QED BY <1>2, <1>3, <1>4, <1>5, <1>6 DEF RowExists, Unfinished

LEMMA IdleOK == AttemptOK(Idle)'
BY DEF AttemptOK, Attempt, Awaits, Idle

LEMMA InspectRoomStep == ASSUME CreationInv, InspectRoom PROVE StepOK
<1>1. run.at = "inspect" /\ run # Idle /\ AttemptOK(run) /\ Serves(run.at, op)
  BY DEF InspectRoom, CreationInv, RunOK, Idle
<1>2. run.room \in Rooms /\ op.failure = "none" /\ op.phase = "leaving"
  BY <1>1 DEF AttemptOK, Bound, Serves, Driving
<1>3. PICK t \in Clock :
        LET d == Decision(run.room, TRUE, t)
        IN /\ Decide(run.room, d)
           /\ IF d = "closed" THEN Fails("closed")
              ELSE \/ /\ op' = [op EXCEPT !.phase = "joining"]
                      /\ Goto("policy")
                   \/ /\ op' = [op EXCEPT !.phase = "confirmation"]
                      /\ run' = Idle
  BY DEF InspectRoom
<1>4. UNCHANGED <<request, d1, shown, Rest>> /\ t \in Nat
  BY DEF InspectRoom, Rest, Clock
<1>5. StoreInv' /\ Onward /\ KeepsFound
  BY <1>2, <1>3, <1>4, DecideKeeps DEF CreationInv
<1>6. CASE Fails("closed")
  BY <1>1, <1>2, <1>4, <1>5, <1>6, FailureWork DEF Reason
<1>7. CASE op' = [op EXCEPT !.phase = "joining"] /\ Goto("policy")
  <2>1. op' \in Operation /\ op'.phase = "joining" /\ op'.failure = "none" /\ Known
    BY <1>2, <1>7 DEF CreationInv, OperationOK, Operation
  <2>2. AttemptOK(run)' /\ run'.at = "policy"
    BY <1>1, <1>5, <1>7 DEF Goto, AttemptOK, Attempt, Awaits, Onward
  <2>3. QED BY <1>1, <1>4, <1>5, <2>1, <2>2, PhaseWork
<1>8. CASE op' = [op EXCEPT !.phase = "confirmation"] /\ run' = Idle
  <2>1. op' \in Operation /\ op'.phase = "confirmation" /\ op'.failure = "none"
    BY <1>2, <1>8 DEF CreationInv, OperationOK, Operation
  <2>2. AttemptOK(run)'
    BY <1>8 DEF AttemptOK, Attempt, Awaits, Idle
  <2>3. QED BY <1>1, <1>4, <1>5, <1>8, <2>1, <2>2, PhaseWork
<1>9. QED BY <1>3, <1>6, <1>7, <1>8

LEMMA InitRoomStep == ASSUME CreationInv, InitRoom PROVE StepOK
<1>1. run.at = "init" /\ run # Idle /\ AttemptOK(run) /\ Serves(run.at, op)
  BY DEF InitRoom, CreationInv, RunOK, Idle
<1>2. Bound(run.room) /\ run.room \in Rooms /\ op.failure = "none" /\ op.phase = "joining"
      /\ Unfinished
  BY <1>1 DEF AttemptOK, Bound, Serves, Driving, CreationInv, RunOK
<1>0. PICK r \in Rooms : r = run.room
  BY <1>2
<1>3. PICK t \in Clock :
        LET d == Decision(r, FALSE, t)
        IN /\ d # "error"
           /\ Decide(r, d)
           /\ IF d = "closed" THEN Fails("closed")
              ELSE Goto("publish") /\ UNCHANGED op
  BY <1>0 DEF InitRoom
<1>4. UNCHANGED <<request, d1, shown, Rest, orphans, cron, now, aborts, asks>> /\ t \in Nat
  BY DEF InitRoom, Rest, Clock
<1>5. /\ StoreInv' /\ Onward /\ KeepsFound
      /\ Decision(r, FALSE, t) = "ready" => Begun(r)'
  BY <1>3, <1>4, DecideKeeps DEF CreationInv
<1>6. CASE Fails("closed")
  BY <1>1, <1>2, <1>4, <1>5, <1>6, FailureWork DEF Reason
<1>7. CASE Decision(r, FALSE, t) # "closed" /\ Goto("publish") /\ UNCHANGED op
  <2>1. Decision(r, FALSE, t) = "ready"
    BY <1>3, <1>7 DEF Decision, CreationInv, StoreInv, StoreTypes, RoomState
  <2>2. run' = [run EXCEPT !.at = "publish"]
    BY <1>7 DEF Goto
  <2>3. AttemptOK(run)' /\ run'.at = "publish"
    BY <1>1, <1>2, <1>0, <1>5, <2>1, <2>2 DEF AttemptOK, Attempt, Awaits, Writing, Onward, Begun
  <2>4. Unfinished'
    BY <1>2, <1>7 DEF Unfinished
  <2>5. RunOK'
    BY <1>2, <1>7, <2>3, <2>4 DEF RunOK, Serves, Idle, Failing, Driving
  <2>6. OperationOK'
    BY <1>5, <1>7, OperationKeeps DEF CreationInv
  <2>7. QED BY <1>2, <1>4, <1>5, <2>4, <2>5, <2>6, SilentWork, AccountFrame DEF CreationInv
<1>8. QED BY <1>3, <1>6, <1>7

\* The attempt writes and goes on.
LEMMA WriteStep ==
  ASSUME CreationInv, run # Idle, UNCHANGED <<op, Rest>>, StoreInv', Onward, KeepsFound,
         AttemptOK(run)', run'.at # "idle", Serves(run.at, op)'
  PROVE  StepOK
<1>1. UNCHANGED <<request, op, orphans, cron, now, aborts, asks>>
  BY DEF Rest
<1>2. Unfinished /\ Unfinished'
  BY <1>1 DEF CreationInv, RunOK, Unfinished
<1>3. RunOK'
  BY <1>2 DEF RunOK, Idle
<1>4. OperationOK'
  BY <1>1, OperationKeeps DEF CreationInv
<1>5. QED BY <1>1, <1>2, <1>3, <1>4, SilentWork, AccountFrame DEF CreationInv

LEMMA PublishRoomStep == ASSUME CreationInv, PublishRoom PROVE StepOK
<1>1. run.at = "publish" /\ run # Idle /\ AttemptOK(run) /\ Serves(run.at, op)
  BY DEF PublishRoom, CreationInv, RunOK, Idle
<1>2. /\ Publish(run.room) /\ UNCHANGED <<request, room, op, Rest>>
      /\ run' = [run EXCEPT !.at = IF control' # control THEN "finish" ELSE "verify"]
  BY DEF PublishRoom, Rest, Goto
<1>3. Bound(run.room) /\ run.room \in Rooms /\ Begun(run.room)
  BY <1>1 DEF AttemptOK, Bound
<1>4. StoreInv' /\ Onward /\ KeepsFound /\ (control' # control => run.room \in shown')
  BY <1>2, <1>3, PublishKeeps DEF CreationInv
<1>5. AttemptOK(run)' /\ run'.at \in {"finish", "verify"}
  BY <1>1, <1>2, <1>3, <1>4 DEF AttemptOK, Attempt, Awaits, Onward
<1>6. Serves(run.at, op)'
  BY <1>1, <1>2, <1>5 DEF Serves, Failing, Driving
<1>7. QED BY <1>1, <1>2, <1>4, <1>5, <1>6, WriteStep

LEMMA VerifyPublishedStep == ASSUME CreationInv, VerifyPublished PROVE StepOK
<1>1. run.at = "verify" /\ run # Idle /\ AttemptOK(run) /\ Serves(run.at, op)
  BY DEF VerifyPublished, CreationInv, RunOK, Idle
<1>2. op.phase = "joining" /\ run.room \in Rooms
  BY <1>1 DEF Serves, AttemptOK, Bound
<1>3. CASE FailsFor("closed")
  BY <1>1, <1>2, <1>3, FailureStep DEF Reason
<1>4. CASE dir[run.room] \in Visible /\ Go("finish")
  <2>1. run.room \in shown
    BY <1>2, <1>4 DEF CreationInv, StoreInv, Visited
  <2>2. AttemptOK([run EXCEPT !.at = "finish"]) /\ "finish" \in Awaits \ {"idle"}
    BY <1>1, <2>1 DEF AttemptOK, Attempt, Awaits
  <2>3. Serves("finish", op)
    BY DEF Serves, Failing, Driving
  <2>4. QED BY <1>1, <1>4, <2>2, <2>3, GoStep
<1>5. QED BY <1>3, <1>4 DEF VerifyPublished

\* The operation ends and the person is told: the attempt is over.
LEMMA EndStep ==
  ASSUME CreationInv, run # Idle, UNCHANGED <<Stores, Rest>>, run' = Idle, OperationOK',
         Answer' \in shown \cup {"none", "refused"}
  PROVE  StepOK
<1>1. /\ UNCHANGED <<request, d1, room, shown, orphans, cron, now, aborts, asks>>
      /\ StoreInv' /\ Onward /\ KeepsFound
  BY Quiet
<1>2. Answer = "none"
  BY DEF CreationInv, RunOK, Unfinished, Answer
<1>3. AnswerStep
  BY <1>1, <1>2 DEF AnswerStep
<1>4. RunOK'
  BY IdleOK DEF RunOK, Serves, Idle, Driving, Failing
<1>5. QED BY <1>1, <1>3, <1>4, AccountFrame DEF CreationInv

LEMMA FinishReadyStep == ASSUME CreationInv, FinishReady PROVE StepOK
<1>1. run.at = "finish" /\ run # Idle /\ run.room \in shown /\ run.room \in Rooms
  BY DEF FinishReady, CreationInv, RunOK, Idle, AttemptOK, StoreInv, StoreTypes
<1>2. /\ op' = [op EXCEPT !.phase = "ready", !.room = run.room, !.failure = "none"]
      /\ run' = Idle /\ UNCHANGED <<Stores, Rest>>
  BY DEF FinishReady
<1>3. op' \in Operation /\ op'.phase = "ready" /\ op'.room = run.room
  BY <1>1, <1>2 DEF CreationInv, OperationOK, Operation, Reason
<1>4. OperationOK'
  BY <1>1, <1>2, <1>3 DEF OperationOK, Stores
<1>5. Answer' = run.room
  BY <1>3 DEF Answer
<1>6. QED BY <1>1, <1>2, <1>4, <1>5, EndStep

LEMMA EndFailureStep == ASSUME CreationInv, EndFailure PROVE StepOK
<1>1. run.at = "end" /\ run # Idle /\ Serves(run.at, op)
  BY DEF EndFailure, CreationInv, RunOK, Idle
<1>2. run' = Idle /\ UNCHANGED <<Stores, Rest>>
      /\ Onward /\ StoreInv'
  BY Quiet DEF EndFailure
<1>3. /\ op' \in Operation /\ op'.phase \in {"failed", "unsure"}
      /\ op'.phase = "failed" /\ op'.failure \in Final => Decided
  BY <1>1 DEF EndFailure, CreationInv, OperationOK, Operation, Serves
<1>4. OperationOK'
  BY <1>2, <1>3 DEF OperationOK, Onward
<1>5. Answer' \in {"none", "refused"}
  BY <1>3 DEF Answer
<1>6. QED BY <1>1, <1>2, <1>4, <1>5, EndStep

LEMMA RecheckStep ==
  ASSUME CreationInv, NEW at, NEW next,
         <<at, next>> \in {<<"recheck", "reread">>, <<"recheck2", "confirm">>},
         Recheck(at, next)
  PROVE  StepOK
<1>1. run.at = at /\ run # Idle /\ AttemptOK(run) /\ Serves(run.at, op)
      /\ at \in Failing /\ next \in Failing /\ next \in Awaits \ {"idle"}
  BY DEF Recheck, CreationInv, RunOK, Idle, Failing, Awaits
<1>2. CASE /\ Committed /\ run' = [run EXCEPT !.at = "finish", !.room = control.room]
           /\ UNCHANGED <<Stores, op, Rest>>
  <2>1. control.room \in shown /\ control.room \in Rooms
    BY <1>2 DEF CreationInv, StoreInv, StoreTypes, Committed, IsReady
  <2>2. AttemptOK(run') /\ run'.at = "finish"
    BY <1>1, <1>2, <2>1 DEF AttemptOK, Attempt, Awaits
  <2>3. Serves(run'.at, op)
    BY <2>2 DEF Serves, Driving, Failing
  <2>4. QED BY <1>1, <1>2, <2>2, <2>3, MoveStep
<1>3. CASE Go(next)
  <2>1. AttemptOK([run EXCEPT !.at = next])
    BY <1>1 DEF AttemptOK, Attempt
  <2>2. Serves(next, op)
    BY <1>1 DEF Serves, Driving, Failing
  <2>3. QED BY <1>1, <1>3, <2>1, <2>2, GoStep
<1>4. QED BY <1>2, <1>3 DEF Recheck

LEMMA RereadControlStep == ASSUME CreationInv, RereadControl PROVE StepOK
<1>1. run.at = "reread" /\ run # Idle /\ AttemptOK(run) /\ Serves(run.at, op)
      /\ UNCHANGED <<Stores, op, Rest>>
  BY DEF RereadControl, CreationInv, RunOK, Idle
<1>2. op.phase # "confirmation" /\ Known
  BY <1>1 DEF Serves, Failing, CreationInv, RunOK, Unfinished, OperationOK
<1>3. CASE control.status \in {"none", "ready"} /\ run' = [run EXCEPT !.at = "end"]
  <2>1. Decided
    BY <1>2, <1>3 DEF Decided, Known, CreationInv, StoreInv
  <2>2. AttemptOK(run') /\ run'.at = "end"
    BY <1>1, <1>3 DEF AttemptOK, Attempt, Awaits
  <2>3. Serves(run'.at, op)
    BY <2>1, <2>2 DEF Serves, Driving, Failing
  <2>4. QED BY <1>1, <2>2, <2>3, MoveStep
<1>4. CASE /\ control.status \notin {"none", "ready"}
           /\ run' = [run EXCEPT !.at = "close", !.room = control.room]
  <2>1. Bound(control.room) /\ control.room \in Rooms
    BY <1>4 DEF CreationInv, StoreInv, Bound, NoControl
  <2>2. AttemptOK(run') /\ run'.at = "close"
    BY <1>1, <1>4, <2>1 DEF AttemptOK, Attempt, Awaits, Writing
  <2>3. Serves(run'.at, op)
    BY <1>2, <2>2 DEF Serves, Driving, Failing
  <2>4. QED BY <1>1, <2>2, <2>3, MoveStep
<1>5. QED BY <1>3, <1>4 DEF RereadControl

LEMMA ConfirmClosedStep == ASSUME CreationInv, ConfirmClosed PROVE StepOK
<1>1. run.at = "confirm" /\ run # Idle /\ AttemptOK(run) /\ Serves(run.at, op)
  BY DEF ConfirmClosed, CreationInv, RunOK, Idle
<1>2. Bound(run.room) /\ Decided /\ op.phase # "confirmation"
  BY <1>1 DEF AttemptOK, Serves, Failing
<1>3. CASE control.status = "closed" /\ Go("shut")
  <2>1. Doomed(run.room)
    BY <1>2, <1>3 DEF Bound, Doomed, CreationInv, StoreInv, Gone, NoControl
  <2>2. AttemptOK([run EXCEPT !.at = "shut"]) /\ "shut" \in Awaits \ {"idle"}
    BY <1>1, <2>1 DEF AttemptOK, Attempt, Awaits, Writing
  <2>3. Serves("shut", op)
    BY <1>2 DEF Serves, Driving
  <2>4. QED BY <1>1, <1>3, <2>2, <2>3, GoStep
<1>4. CASE Go("end")
  <2>1. AttemptOK([run EXCEPT !.at = "end"]) /\ "end" \in Awaits \ {"idle"}
    BY <1>1 DEF AttemptOK, Attempt, Awaits
  <2>2. Serves("end", op)
    BY <1>2 DEF Serves, Driving, Failing
  <2>3. QED BY <1>1, <1>4, <2>1, <2>2, GoStep
<1>5. QED BY <1>3, <1>4 DEF ConfirmClosed

LEMMA CloseStepOK ==
  ASSUME CreationInv, NEW at, NEW next,
         <<at, next>> \in {<<"close", "recheck2">>, <<"shut", "drop">>, <<"drop", "end">>},
         CloseStep(at, next)
  PROVE  StepOK
<1>1. run.at = at /\ run # Idle /\ AttemptOK(run) /\ Serves(run.at, op) /\ at \in Writing
  BY DEF CloseStep, CreationInv, RunOK, Idle, Writing
<1>2. /\ Effect(run) /\ UNCHANGED <<request, op, Rest>>
      /\ run' = [run EXCEPT !.at = next]
  BY DEF CloseStep, Rest, Goto
<1>3. /\ StoreInv' /\ Onward /\ KeepsFound
      /\ at = "close" => Decided'
  BY <1>1, <1>2, EffectKeeps DEF CreationInv
<1>4. op.phase # "confirmation" /\ run'.at = next /\ next # "idle" /\ run.room \in Rooms
  BY <1>1, <1>2 DEF Serves, Failing, AttemptOK, Attempt, Bound, Doomed
<1>5. CASE at = "close"
  <2>1. AttemptOK(run)' /\ Decided'
    BY <1>1, <1>2, <1>3, <1>4, <1>5 DEF AttemptOK, Attempt, Awaits, Onward
  <2>2. Serves(run.at, op)'
    BY <1>2, <1>4, <1>5, <2>1 DEF Serves, Driving
  <2>3. QED BY <1>1, <1>2, <1>3, <1>4, <2>1, <2>2, WriteStep
<1>6. CASE at \in {"shut", "drop"}
  <2>1. AttemptOK(run)' /\ Decided'
    BY <1>1, <1>2, <1>3, <1>6 DEF AttemptOK, Attempt, Awaits, Writing, Onward, Doomed, Decided
  <2>2. Serves(run.at, op)'
    BY <1>2, <1>4, <1>6, <2>1 DEF Serves, Driving
  <2>3. QED BY <1>1, <1>2, <1>3, <1>4, <2>1, <2>2, WriteStep
<1>7. QED BY <1>5, <1>6

LEMMA AbortStep == ASSUME CreationInv, Abort PROVE StepOK
<1>1. /\ UNCHANGED <<request, d1, room, shown, op, cron, now, asks>>
      /\ run' = Idle /\ aborts' \in 0 .. MaxAborts
      /\ orphans' \subseteq orphans \cup {run}
      /\ run \in orphans' => run.at \in Writing \/ run \in orphans
  BY DEF Abort, Stores, CreationInv
<1>2. StoreInv' /\ Onward /\ KeepsFound
  BY <1>1, StoresOnly DEF CreationInv
<1>3. (\A m \in orphans : m.at \in Writing /\ AttemptOK(m))'
  BY <1>1, <1>2, AttemptKeeps DEF CreationInv, RunOK
<1>4. RunOK'
  BY <1>1, IdleOK DEF RunOK, Serves, Idle, Driving, Failing
<1>5. JobOK' /\ OperationOK'
  BY <1>1, <1>2, JobKeeps, OperationKeeps DEF CreationInv
<1>6. AnswerStep
  BY <1>1 DEF AnswerStep, Answer
<1>7. QED BY <1>1, <1>2, <1>3, <1>4, <1>5, <1>6 DEF StepOK, CreationInv

LEMMA LandStep ==
  ASSUME CreationInv, NEW m \in orphans, Land(m)
  PROVE  StepOK
<1>1. /\ Effect(m) \/ UNCHANGED Stores
      /\ orphans' \subseteq orphans
      /\ UNCHANGED <<request, op, run, asks, cron, now, aborts>>
  BY DEF Land, acct
<1>2. StoreInv' /\ Onward /\ KeepsFound
  BY <1>1, EffectKeeps, StoresOnly DEF CreationInv, Stores
<1>3. JobOK' /\ OperationOK' /\ RunOK'
      /\ (\A n \in orphans : n.at \in Writing /\ AttemptOK(n))'
  BY <1>1, <1>2, JobKeeps, OperationKeeps, RunKeeps, OrphansKeep DEF CreationInv
<1>4. AnswerStep
  BY <1>1 DEF AnswerStep, Answer
<1>5. QED BY <1>1, <1>2, <1>3, <1>4 DEF StepOK, CreationInv

LEMMA AskStep ==
  ASSUME CreationInv, NEW n \in Names, Ask(n)
  PROVE  StepOK
<1>1. /\ UNCHANGED <<request, d1, room, shown, run, orphans, cron, now, aborts>>
      /\ run = Idle /\ asks' \in 0 .. MaxAsks
      /\ op' = [phase |-> "confirmation", name |-> n, room |-> NoRoom,
                failure |-> "none"]
  BY DEF Ask, Stores, CreationInv
<1>2. StoreInv' /\ Onward /\ KeepsFound
  BY <1>1, StoresOnly DEF CreationInv
<1>3. OperationOK'
  BY <1>1 DEF OperationOK, Operation, Reason, Final
<1>4. RunOK'
  BY <1>1, <1>2, AttemptKeeps DEF RunOK, Serves, Idle, Driving, Failing, CreationInv
<1>5. AnswerStep
  BY <1>1 DEF AnswerStep, Answer
<1>6. QED BY <1>1, <1>2, <1>3, <1>4, <1>5, AccountFrame DEF CreationInv

-----------------------------------------------------------------------------
(* The hourly job, time, and the room itself. *)

LEMMA CronFrame ==
  ASSUME CreationInv, StoreInv', Onward, JobOK', now' \in 0 .. MaxTime,
         UNCHANGED <<acct, orphans, aborts>>
  PROVE  CreationInv' /\ AnswerStep
<1>1. OperationOK' /\ RunOK' /\ (\A m \in orphans : m.at \in Writing /\ AttemptOK(m))'
  BY OperationKeeps, RunKeeps, OrphansKeep DEF CreationInv, acct
<1>2. QED BY <1>1 DEF CreationInv, acct, AnswerStep, Answer

LEMMA RetireStep == ASSUME CreationInv, Retire PROVE StepOK
<1>1. UNCHANGED <<request, control, retry, dir, outcome, room, shown, acct, orphans, now, aborts>>
      /\ cron' = [cron EXCEPT !.at = "due"]
  BY DEF Retire, Other
<1>2. retired' \in Nat /\ retired' >= retired /\ details' \in Names \cup {NoName}
  BY DEF Retire, Clock, CreationInv, StoreInv, StoreTypes
<1>3. StoreInv' /\ Onward /\ KeepsFound
  BY <1>1, <1>2 DEF CreationInv, StoreInv, StoreTypes, Onward, KeepsFound, Begun, Bound, Gone,
     Known, Decided, Doomed, Visited, IssuedAt
<1>4. JobOK'
  BY <1>1 DEF CreationInv, JobOK, Job
<1>5. QED BY <1>1, <1>3, <1>4, CronFrame DEF CreationInv, StepOK

LEMMA ClaimStep == ASSUME CreationInv, Claim PROVE StepOK
<1>1. UNCHANGED <<request, retired, control, details, dir, outcome, room, shown, acct,
                  orphans, now, aborts>>
      /\ retry' = 1 /\ cron' = [at |-> "inspect", room |-> control.room]
      /\ control.room \in Rooms
  BY DEF Claim, Other, CreationInv, StoreInv, NoControl
<1>2. StoreInv' /\ Onward /\ KeepsFound
  BY <1>1 DEF CreationInv, StoreInv, StoreTypes, Onward, KeepsFound, Begun, Bound, Gone,
     Known, Decided, Doomed, Visited, IssuedAt
<1>3. JobOK'
  BY <1>1 DEF CreationInv, JobOK, Job
<1>4. QED BY <1>1, <1>2, <1>3, CronFrame DEF CreationInv, StepOK

LEMMA NothingDueStep == ASSUME CreationInv, NothingDue PROVE StepOK
<1>1. UNCHANGED <<request, d1, room, shown, acct, orphans, now, aborts>>
      /\ cron' = [cron EXCEPT !.at = "sweep"]
  BY DEF NothingDue, Other
<1>2. StoreInv' /\ Onward /\ KeepsFound
  BY <1>1, StoresOnly DEF CreationInv
<1>3. JobOK'
  BY <1>1 DEF CreationInv, JobOK, Job
<1>4. QED BY <1>1, <1>2, <1>3, CronFrame DEF CreationInv, StepOK

LEMMA CronInspectStep == ASSUME CreationInv, CronInspect PROVE StepOK
<1>0. PICK r \in Rooms : r = cron.room
  BY DEF CronInspect, CreationInv, JobOK
<1>1. PICK t \in Clock :
        /\ Decide(r, Decision(r, TRUE, t))
        /\ cron' = [cron EXCEPT !.at = CASE Decision(r, TRUE, t) = "ready" -> "publish"
                                         [] Decision(r, TRUE, t) = "closed" -> "remove"
                                         [] OTHER -> "sweep"]
  BY <1>0 DEF CronInspect
<1>2. UNCHANGED <<request, d1, shown, acct, orphans, now, aborts>> /\ t \in Nat
  BY DEF CronInspect, Clock
<1>3. /\ StoreInv' /\ Onward /\ KeepsFound
      /\ Decision(r, TRUE, t) = "ready" => Begun(r)'
  BY <1>1, <1>2, DecideKeeps DEF CreationInv
<1>4. cron' \in Job /\ cron'.room = r
      /\ (cron'.at = "publish" => Begun(r)') /\ cron'.at \in {"publish", "remove", "sweep"}
  BY <1>0, <1>1, <1>3 DEF CreationInv, JobOK, Job
<1>5. JobOK'
  BY <1>4 DEF JobOK, Begun
<1>6. QED BY <1>2, <1>3, <1>5, CronFrame DEF CreationInv, StepOK

LEMMA CronPublishStep == ASSUME CreationInv, CronPublish PROVE StepOK
<1>1. /\ UNCHANGED <<request, room, acct, orphans, now, aborts>>
      /\ Publish(cron.room) /\ cron.room \in Rooms /\ Begun(cron.room)
      /\ cron' = [cron EXCEPT !.at = "sweep"]
  BY DEF CronPublish, Other, CreationInv, JobOK
<1>2. StoreInv' /\ Onward /\ KeepsFound
  BY <1>1, PublishKeeps DEF CreationInv
<1>3. JobOK'
  BY <1>1 DEF CreationInv, JobOK, Job
<1>4. QED BY <1>1, <1>2, <1>3, CronFrame DEF CreationInv, StepOK

LEMMA CronRemoveStep == ASSUME CreationInv, CronRemove PROVE StepOK
<1>1. /\ UNCHANGED <<request, room, acct, orphans, now, aborts>>
      /\ Remove(cron.room) /\ cron.room \in Rooms
      /\ cron' = [cron EXCEPT !.at = "sweep"]
  BY DEF CronRemove, Other, CreationInv, JobOK
<1>2. StoreInv' /\ Onward /\ KeepsFound
  BY <1>1, RemoveKeeps DEF CreationInv
<1>3. JobOK'
  BY <1>1 DEF CreationInv, JobOK, Job
<1>4. QED BY <1>1, <1>2, <1>3, CronFrame DEF CreationInv, StepOK

LEMMA CronFailsStep == ASSUME CreationInv, CronFails PROVE StepOK
<1>1. UNCHANGED <<request, retired, control, details, dir, outcome, room, shown, acct,
                  orphans, now, aborts>>
      /\ retry' \in {retry, Backoff} /\ cron' = [cron EXCEPT !.at = "sweep"]
  BY DEF CronFails, Other
<1>2. StoreInv' /\ Onward /\ KeepsFound
  BY <1>1 DEF CreationInv, StoreInv, StoreTypes, Onward, KeepsFound, Begun, Bound, Gone,
     Known, Decided, Doomed, Visited, IssuedAt
<1>3. JobOK'
  BY <1>1 DEF CreationInv, JobOK, Job
<1>4. QED BY <1>1, <1>2, <1>3, CronFrame DEF CreationInv, StepOK

\* The row goes only when nothing of the request will be accepted any more.
LEMMA SweepStep == ASSUME CreationInv, Sweep PROVE StepOK
<1>1. /\ UNCHANGED <<request, retired, retry, details, dir, outcome, room, shown, acct,
                     orphans, now, aborts>>
      /\ cron' = [at |-> "idle", room |-> NoRoom]
      /\ control' = control \/ (Forgettable /\ control' = NoControl)
  BY DEF Sweep, Other
<1>2. CASE control' = control
  BY <1>1, <1>2, StoresOnly, CronFrame DEF CreationInv, StepOK, JobOK, Job, d1
<1>3. CASE Forgettable /\ control' = NoControl
  <2>1. Gone' /\ control.status \in {"ready", "closed"}
    BY <1>1, <1>3 DEF Gone, Forgettable, IssuedAt
  <2>2. StoreInv' /\ Onward /\ KeepsFound
    BY <1>1, <1>3, <2>1 DEF CreationInv, StoreInv, StoreTypes, Onward, KeepsFound, Begun, Bound,
       Gone, Known, Decided, Doomed, Visited, IssuedAt, Control, NoControl
  <2>3. JobOK'
    BY <1>1 DEF JobOK, Job
  <2>4. QED BY <1>1, <2>2, <2>3, CronFrame DEF CreationInv, StepOK
<1>4. QED BY <1>1, <1>2, <1>3

LEMMA TickStep == ASSUME CreationInv, Tick PROVE StepOK
<1>1. UNCHANGED <<request, retired, control, details, dir, outcome, room, shown, acct,
                  orphans, cron, aborts>>
      /\ now' \in 0 .. MaxTime /\ retry' \in 0 .. Backoff
  BY DEF Tick, CreationInv, StoreInv, StoreTypes
<1>2. StoreInv' /\ Onward /\ KeepsFound
  BY <1>1 DEF CreationInv, StoreInv, StoreTypes, Onward, KeepsFound, Begun, Bound, Gone,
     Known, Decided, Doomed, Visited, IssuedAt
<1>3. JobOK'
  BY <1>1, <1>2, JobKeeps DEF CreationInv
<1>4. QED BY <1>1, <1>2, <1>3, CronFrame DEF CreationInv, StepOK

\* What the room does by itself.  It may end a room that could be found.
LEMMA RoomStep ==
  ASSUME CreationInv, NEW r \in Rooms, RoomEnds(r) \/ FlushOutcome(r) \/ RetentionEnds(r)
  PROVE  CreationInv' /\ Onward /\ AnswerStep /\ UNCHANGED <<run, orphans, cron>>
<1>1. UNCHANGED <<request, acct, orphans, cron, now, aborts>>
  BY DEF RoomEnds, FlushOutcome, RetentionEnds
<1>2. CASE RoomEnds(r)
  <2>1. StoreInv' /\ Onward
    BY <1>2 DEF RoomEnds, d1, CreationInv, StoreInv, StoreTypes, Onward, Begun, Bound, Gone,
       Known, Decided, Doomed, Visited, IssuedAt, RoomState
  <2>2. QED BY <1>1, <2>1, JobKeeps, CronFrame DEF CreationInv, acct
<1>3. CASE FlushOutcome(r)
  <2>1. dir[r] = "legacy" => r \in shown
    BY DEF CreationInv, StoreInv, Visited, Visible
  <2>2. StoreInv' /\ Onward
    BY <1>3, <2>1 DEF FlushOutcome, CreationInv, StoreInv, StoreTypes, Onward, Begun, Bound, Gone,
       Known, Decided, Doomed, Visited, IssuedAt, Visibility, Visible
  <2>3. QED BY <1>1, <2>2, JobKeeps, CronFrame DEF CreationInv, acct
<1>4. CASE RetentionEnds(r)
  <2>1. /\ UNCHANGED <<request, retired, control, retry, details, shown>>
        /\ room[r] \in {"completed", "disbanded"}
        /\ room' = [room EXCEPT ![r] = "expired"]
        /\ outcome' = [outcome EXCEPT ![r] = "none"]
        /\ dir' = dir \/ (room[r] = "completed" /\ dir' = [dir EXCEPT ![r] = "none"])
    BY <1>4 DEF RetentionEnds
  <2>2. room[r] = "completed" => control.status # "pending"
    BY DEF CreationInv, StoreInv, Gone, NoControl
  <2>3. StoreTypes' /\ Visited' \subseteq Visited
    BY <2>1 DEF CreationInv, StoreInv, StoreTypes, Visited, Visibility, RoomState, Visible
  <2>4. \A q \in Rooms : Begun(q) => Begun(q)'
    BY <2>1 DEF Begun, CreationInv, StoreInv, StoreTypes
  <2>5. StoreInv'
    BY <2>1, <2>2, <2>3, <2>4 DEF CreationInv, StoreInv, StoreTypes, Gone, IssuedAt
  <2>6. Onward
    BY <2>1, <2>4 DEF Onward, Bound, Gone, Known, Decided, Doomed, IssuedAt
  <2>7. QED BY <1>1, <2>5, <2>6, JobKeeps, CronFrame DEF CreationInv, acct
<1>5. QED BY <1>1, <1>2, <1>3, <1>4 DEF acct

-----------------------------------------------------------------------------
(* The theorems. *)

\* A step of anybody, or of nobody.
Keeping ==
  /\ Onward /\ AnswerStep
  /\ KeepsFound \/ UNCHANGED <<run, orphans, cron>>

LEMMA InitOK == Init => CreationInv
<1> SUFFICES ASSUME Init PROVE CreationInv
  OBVIOUS
<1>1. StoreTypes
  BY DEF Init, StoreTypes, Control, NoControl, Visibility, RoomState, LegacyRoom
<1>2. StoreInv
  BY <1>1 DEF Init, StoreInv, StoreTypes, NoControl, Visited, Visible, LegacyRoom, Begun, Gone
<1>3. OperationOK /\ RunOK /\ JobOK
  BY DEF Init, OperationOK, Operation, RunOK, Serves, Driving, Failing, Final, AttemptOK, Attempt,
     Awaits, Idle, JobOK, Job, Reason
<1>4. QED BY <1>2, <1>3 DEF Init, CreationInv

LEMMA StepKeeps == ASSUME CreationInv, [Next]_vars PROVE CreationInv' /\ Keeping
<1>1. CASE Account
  BY <1>1, ResumeStep, CheckCommittedStep, ReadPolicyStep, ReadControlStep, ReadDetailStep,
     StillAcceptedStep, InsertRoomStep, RowExistsStep, InspectRoomStep, InitRoomStep,
     PublishRoomStep, VerifyPublishedStep, FinishReadyStep, RecheckStep, RereadControlStep,
     CloseStepOK, ConfirmClosedStep, EndFailureStep DEF Account, StepOK, Keeping
<1>2. CASE Cron \/ CronFails \/ Tick
  BY <1>2, RetireStep, ClaimStep, NothingDueStep, CronInspectStep, CronPublishStep,
     CronRemoveStep, SweepStep, CronFailsStep, TickStep DEF Cron, StepOK, Keeping
<1>3. CASE Abort \/ (\E n \in Names : Ask(n)) \/ (\E m \in orphans : Land(m))
  BY <1>3, AbortStep, AskStep, LandStep DEF StepOK, Keeping
<1>4. CASE \E r \in Rooms : RoomEnds(r) \/ FlushOutcome(r) \/ RetentionEnds(r)
  BY <1>4, RoomStep DEF Keeping
<1>5. CASE UNCHANGED vars
  <2>1. UNCHANGED <<request, d1, room, acct, orphans, cron, now, aborts, shown>>
    BY <1>5 DEF vars
  <2>2. StoreInv' /\ Onward /\ KeepsFound
    BY <2>1, StoresOnly DEF CreationInv
  <2>3. QED BY <2>1, <2>2, JobKeeps, CronFrame DEF CreationInv, Keeping
<1>6. QED BY <1>1, <1>2, <1>3, <1>4, <1>5 DEF Next

\* The inductive invariant holds of every request.
THEOREM CreationInvariant == Spec => []CreationInv
<1>1. CreationInv /\ [Next]_vars => CreationInv'
  BY StepKeeps
<1>2. QED BY <1>1, InitOK, PTL DEF Spec

\* Every variable keeps its type.
THEOREM CreationTypeCorrect == Spec => []TypeOK
<1>1. CreationInv => TypeOK
  BY DEF CreationInv, StoreInv, StoreTypes, OperationOK, RunOK, AttemptOK, JobOK, TypeOK
<1>2. QED BY <1>1, CreationInvariant, PTL

\* A room can be found only after its creator was put into it, whatever died
\* on the way and whenever its last write lands.
THEOREM CreatorIsInFoundRoom == Spec => []FoundRoomsExist
<1>1. CreationInv => FoundRoomsExist
  BY DEF CreationInv, StoreInv, Begun, FoundRoomsExist, Visited
<1>2. QED BY <1>1, CreationInvariant, PTL

\* No attempt, orphaned write or run of the hourly job ends a room that could
\* be found or takes it out of the directory.
THEOREM FoundRoomsStay == Spec => FoundRoomsAreKept
<1> DEFINE Kept == \A r \in shown :
       \/ room[r] = "live" /\ room'[r] # "live"
       \/ dir[r] \in Visible /\ dir'[r] \notin Visible
       => UNCHANGED <<run, orphans, cron>>
<1>1. CreationInv /\ [Next]_vars => [Kept]_vars
  BY StepKeeps DEF Keeping, KeepsFound
<1>2. QED BY <1>1, CreationInvariant, PTL DEF Spec, FoundRoomsAreKept

-----------------------------------------------------------------------------
(* The promise is kept. *)

LEMMA VerdictIs ==
  ASSUME StoreInv
  PROVE  /\ ~Decided => Verdict = "open"
         /\ Decided => Verdict = "closed" \/ Verdict \in Rooms
         /\ shown # {} => Verdict \in shown /\ Verdict \in Rooms
         /\ shown = {} /\ Decided => Verdict = "closed"
         /\ \A r \in shown : Verdict = r
BY DEF StoreInv, StoreTypes, Verdict, Decided, Gone, IssuedAt

\* Who is told something final is told it after the decision.
LEMMA AnswerIs ==
  ASSUME CreationInv, ~Decided
  PROVE  Answer = "none" /\ shown = {}
BY DEF CreationInv, OperationOK, Operation, Answer, Decided, Final

LEMMA PromiseStep ==
  ASSUME CreationInv, CreationInv', Keeping
  PROVE  [Promise!Next]_<<Verdict, Answer>>
<1> USE DEF Promise!Next
<1>1. StoreInv /\ StoreInv'
  BY DEF CreationInv
<1>2. CASE Decided
  <2>1. Decided' /\ shown' = shown
    BY <1>2 DEF Keeping, Onward
  <2>2. Verdict' = Verdict
    BY <1>1, <1>2, <2>1 DEF Verdict, Decided, Gone, IssuedAt
  <2>3. CASE Answer' = Answer
    BY <2>2, <2>3
  <2>4. CASE Answer' = "none"
    BY <2>2, <2>4 DEF Promise!AskAgain
  <2>5. CASE Answer = "none" /\ Answer' = "refused"
    BY <2>2, <2>5 DEF Promise!Refuse
  <2>6. CASE Answer = "none" /\ Answer' \in shown
    BY <1>1, <2>2, <2>6, VerdictIs DEF Promise!Accept
  <2>7. QED BY <2>3, <2>4, <2>5, <2>6 DEF Keeping, AnswerStep
<1>3. CASE ~Decided
  <2>1. Verdict = "open" /\ Answer = "none" /\ shown = {}
    BY <1>1, <1>3, VerdictIs, AnswerIs
  <2>2. CASE Answer' = Answer
    <3>1. CASE ~Decided'
      <4>1. Verdict' = "open"
        BY <1>1, <3>1 DEF Verdict, Decided, Gone, IssuedAt
      <4>2. QED BY <2>1, <2>2, <4>1
    <3>2. CASE Decided' /\ shown' = {}
      <4>1. Verdict' = "closed"
        BY <3>2 DEF Verdict, Decided, Gone, IssuedAt
      <4>2. QED BY <2>1, <2>2, <4>1 DEF Promise!Close
    <3>3. CASE shown' # {}
      <4>1. Verdict' \in Rooms
        BY <1>1, <3>3 DEF Verdict, StoreInv, StoreTypes
      <4>2. QED BY <2>1, <2>2, <4>1 DEF Promise!Open
    <3>4. QED BY <3>1, <3>2, <3>3
  <2>3. CASE UNCHANGED <<request, d1, shown>> /\ Answer' # Answer
    <3>1. Answer' = "refused"
      BY <2>1, <2>3 DEF Keeping, AnswerStep
    <3>2. Verdict' = Verdict
      BY <2>3 DEF Verdict, d1, IssuedAt
    <3>3. QED BY <2>1, <3>1, <3>2 DEF Promise!Refuse
  <2>4. QED BY <2>2, <2>3 DEF Keeping, AnswerStep
<1>4. QED BY <1>2, <1>3

\* A request is decided once, for one room or for none, "ready" names that
\* room, and after a final refusal none turns up: RoomCreation implements
\* CreationPromise.
THEOREM CreationKeepsPromise == Spec => PromiseSpec
<1>1. Init => Promise!Init
  <2> SUFFICES ASSUME Init PROVE Promise!Init
    OBVIOUS
  <2>1. StoreInv /\ Answer = "none"
    BY InitOK DEF CreationInv, Init, Answer
  <2>2. ~Gone /\ control.status # "closed"
    BY DEF Init, Gone, IssuedAt, NoControl
  <2>3. Verdict \in {"open"} \cup Rooms
    BY <2>1, <2>2, VerdictIs DEF Decided
  <2>4. QED BY <2>1, <2>3 DEF Promise!Init
<1>2. CreationInv /\ CreationInv' /\ [Next]_vars => [Promise!Next]_<<Verdict, Answer>>
  BY StepKeeps, PromiseStep
<1>3. QED BY <1>1, <1>2, CreationInvariant, PTL DEF Spec, PromiseSpec, Promise!Spec
=============================================================================
