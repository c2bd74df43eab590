-------------------------- MODULE OutcomeProjection ---------------------------
(***************************************************************************)
(* What a room leaves behind, and its way from the object of the room to   *)
(* D1 and out of it again (workers/room/shared-outcome-storage.ts,         *)
(* progress-history.ts, completed-rooms.ts, alarms.ts and their callers in *)
(* room-do.ts).                                                            *)
(*                                                                         *)
(* The object first keeps everything itself: the outcome with the version  *)
(* still to be sent, an outbox of recorded steps, the list of viewers of a *)
(* completed room.  Three writers, one flight each, copy them to D1; the   *)
(* one alarm of the object is all that brings them back after a failure or *)
(* a crash.  Thirty days after the last use the same writers delete it     *)
(* all.  A snapshot is told from another by the use it was taken at.       *)
(***************************************************************************)
EXTENDS Naturals, Sequences, FiniteSets

CONSTANTS
  Records,      \* steps the history can record
  MaxUses,      \* bound on uses of the room
  MaxVisits,    \* bound on people who look or leave
  MaxErrors,    \* bound on calls to D1 that fail
  MaxCrashes    \* bound on crashes of the object

ASSUME ProjectionAssumption ==
  /\ Records \subseteq Nat /\ IsFiniteSet(Records)
  /\ {MaxUses, MaxVisits, MaxErrors, MaxCrashes} \subseteq Nat
  /\ MaxUses > 0

VARIABLES
  room,         \* what the object keeps in its storage
  expired,      \* thirty days without use are over
  alarm,        \* the object's alarm
  d1,           \* what D1 holds of the room
  todo,         \* what the handler of a message has still to do
  writer,       \* the three writers
  sent,         \* the version the outcome's writer sends
  batch,        \* the records the history's writer still has to send
  at,           \* the writer each of their callers waits for
  sweep,        \* the alarm's handler is in processExpiredTransition
  visits, errors, crashes,
  lost          \* history: a fault struck after the completed room was erased

vars == <<room, expired, alarm, d1, todo, writer, sent, batch, at, sweep,
          visits, errors, crashes, lost>>

-----------------------------------------------------------------------------
Writers == {"outcome", "history", "viewers"}
Callers == {"alarm", "visit", "leave"}

Nothing == 0    \* NULL, where a version is expected
Uses == 1..MaxUses
Version == Uses \cup {Nothing}

Room ==
  [life : {"open", "completed", "disbanded"},
   used : Uses,                           \* last_used_at
   pending : Version, saved : Version,
   status : {"pending", "saved", "failed"},
   retry : BOOLEAN,                       \* retry_at is set
   outbox : [Records -> {"none", "due", "kept"}],
   rows : BOOLEAN,                        \* progress_history has rows
   completion : {"none", "fixed", "deleted"},
   viewersDue : BOOLEAN]                  \* its retry_at is set

D1 == [content : Version, used : Uses \cup {0}, history : SUBSET Records,
       viewers : BOOLEAN]
NoVersion == [content |-> Nothing, used |-> 0]
Empty == [content |-> Nothing, used |-> 0, history |-> {}, viewers |-> FALSE]

\* send: a projection.  clean: what is deleted because the room expired during
\* the projection.  wipe: the deletion of an expired room.
Idle == [pc |-> "idle", landed |-> FALSE]
Writer == [pc : {"idle", "send", "clean", "wipe"}, landed : BOOLEAN]

Steps == {"arm", "record", "preserve"}

\* Nobody waits for a flight that is over (the promise shared by the callers of
\* flush is settled for all of them), and a batch is under way as long as it has
\* records left.
TypeOK ==
  /\ room \in Room /\ d1 \in D1
  /\ expired \in BOOLEAN /\ sweep \in BOOLEAN /\ lost \in BOOLEAN
  /\ alarm \in {"none", "soon", "expiry", "ringing"}
  /\ todo \in Seq(Steps)
  /\ writer \in [Writers -> Writer]
  /\ sent \in [content : Version, used : Uses \cup {0}]
  /\ batch \subseteq Records
  /\ at \in [Callers -> Writers \cup {"none", "end"}]
  /\ visits \in 0..MaxVisits /\ errors \in 0..MaxErrors /\ crashes \in 0..MaxCrashes
  /\ \A k \in Callers : at[k] \in Writers => writer[at[k]].pc # "idle"
  /\ batch # {} <=> writer["history"].pc \in {"send", "clean"}

\* blockConcurrencyWhile: nothing else reaches the object.
Frozen == writer["outcome"].pc = "wipe"

HasContent(r) == r.pending # Nothing \/ r.saved # Nothing
Due(r) == {h \in Records : r.outbox[h] = "due"}

(***************************************************************************)
(* The one alarm of the object, chosen anew from what its storage says.    *)
(* "soon" may ring at any time, "expiry" once the thirty days are over.    *)
(***************************************************************************)
\* Mutant of NeedsAlarm: records due are left to the outcome's alarm
NeedsAlarmForOutcome(r) ==
  \/ r.retry
  \/ expired /\ ~r.retry /\ (HasContent(r) \/ r.rows)
  \/ r.completion = "fixed" /\ (r.viewersDue \/ expired)

\* Mutant of NeedsAlarm: the expiry is taken for the end of all deadlines
NeedsAlarmUntilExpiry(r) ==
  \/ r.retry
  \/ ~expired /\ Due(r) # {}
  \/ r.completion = "fixed" /\ (r.viewersDue \/ expired)

NeedsAlarm(r) ==
  \/ r.retry
  \/ ~expired /\ Due(r) # {}
  \/ expired /\ ~r.retry /\ (HasContent(r) \/ r.rows)
  \/ r.completion = "fixed" /\ (r.viewersDue \/ expired)

SyncAlarm(r) ==
  IF NeedsAlarm(r) THEN "soon" ELSE IF ~expired THEN "expiry" ELSE "none"

-----------------------------------------------------------------------------
(***************************************************************************)
(* The room in use.  A use puts the expiry off: an alarm set for the old   *)
(* expiry now rings before the new one.                                    *)
(***************************************************************************)
Used(r, n) == [r EXCEPT !.used = n, !.retry = TRUE]
Preserved(r, n) == [Used(r, n) EXCEPT !.pending = n, !.status = "pending"]
Recorded(r, n, h) == [Used(r, n) EXCEPT !.outbox[h] = "due", !.rows = TRUE]
Completed(r, n) ==
  [Preserved(r, n) EXCEPT !.life = "completed", !.rows = TRUE,
                          !.completion = "fixed", !.viewersDue = TRUE]

PutOff == alarm' = IF alarm = "expiry" THEN "soon" ELSE alarm

Usable ==
  /\ ~Frozen /\ ~expired /\ room.life = "open" /\ todo = <<>>
  /\ room.used < MaxUses

Later == room.used + 1

Elsewhere == <<expired, d1, writer, sent, batch, at, sweep, visits, errors, crashes, lost>>

\* A shared note, a group, the map... changes: preserveSharedOutcome.
ChangeBoard ==
  /\ Usable
  /\ room' = Preserved(room, Later)
  /\ todo' = <<"arm">>
  /\ PutOff /\ UNCHANGED Elsewhere

\* The timer or the turns move on: recordSharedActivity.
ChangeTimer ==
  /\ Usable
  /\ room' = Used(room, Later)
  /\ todo' = <<"arm">>
  /\ PutOff /\ UNCHANGED Elsewhere

\* A step ends: recordProgressTransition in the transaction of the phase, then
\* the activity and the board as it is now.
EndStep ==
  /\ Usable
  /\ \E h \in Records :
       /\ room.outbox[h] = "none" /\ \A g \in Records : g < h => room.outbox[g] # "none"
       /\ room' = Recorded(room, Later, h)
  /\ todo' = <<"record", "preserve">>
  /\ PutOff /\ UNCHANGED Elsewhere

\* The last result is published: outcome:publish, fixCompletion.
Complete ==
  /\ Usable
  /\ room' = Completed(room, Later)
  /\ todo' = <<"arm">>
  /\ PutOff /\ UNCHANGED Elsewhere

\* disband, closeRoom: the outcome and the outbox stay.
Disband ==
  /\ ~Frozen /\ room.life = "open"
  /\ room' = [room EXCEPT !.life = "disbanded"]
  /\ todo' = Append(todo, "arm")
  /\ UNCHANGED alarm /\ UNCHANGED Elsewhere

\* The handler of a message goes on after an await, perhaps still in the same
\* millisecond.  What it would still preserve of a room closed meanwhile is left.
GoOn ==
  /\ ~Frozen /\ todo # <<>>
  /\ \/ /\ Head(todo) = "arm"
        /\ alarm' = SyncAlarm(room)
        /\ todo' = Tail(todo)
        /\ UNCHANGED room
     \/ /\ Head(todo) # "arm" /\ room.life = "open"
        /\ \E n \in {room.used, Later} \cap Uses :
             room' = IF Head(todo) = "record" THEN Used(room, n) ELSE Preserved(room, n)
        /\ todo' = <<"arm">> \o Tail(todo)
        /\ PutOff
     \/ /\ Head(todo) # "arm" /\ room.life # "open"
        /\ todo' = Tail(todo)
        /\ UNCHANGED <<room, alarm>>
  /\ UNCHANGED Elsewhere

\* Thirty days pass; the handlers of the last message are long done.
Expire ==
  /\ ~expired /\ todo = <<>>
  /\ expired' = TRUE
  /\ UNCHANGED <<room, alarm, d1, todo, writer, sent, batch, at, sweep,
                 visits, errors, crashes, lost>>

-----------------------------------------------------------------------------
(***************************************************************************)
(* The writers.  A caller joins the flight under way or starts one; the    *)
(* start reads what it will send.                                          *)
(***************************************************************************)
Work(w, r) ==
  CASE w = "outcome" -> IF expired THEN "wipe" ELSE IF r.retry THEN "send" ELSE "idle"
    [] w = "history" -> IF expired THEN "wipe" ELSE IF Due(r) # {} THEN "send" ELSE "idle"
    [] w = "viewers" -> IF r.completion # "fixed" THEN "idle"
                        ELSE IF expired THEN "wipe" ELSE IF r.viewersDue THEN "send" ELSE "idle"

\* flushSharedOutcome of room-do.ts calls all three, those of one of them the rest.
Route(w) ==
  CASE w = "outcome" -> <<"outcome", "history", "viewers">>
    [] w = "history" -> <<"history", "viewers">>
    [] w = "viewers" -> <<"viewers">>
    [] w = "end" -> <<>>

\* The first call on the way that has to be waited for.
Stop(route, r, flights) ==
  LET Waits(w) == flights[w].pc # "idle" \/ Work(w, r) # "idle"
      stops == {i \in DOMAIN route : Waits(route[i])}
  IN IF stops = {} THEN "end"
     ELSE route[CHOOSE i \in stops : \A j \in stops : i <= j]

\* The callers ks go on along the route, with the storage and the flights as given.
Advance(ks, route, r, flights) ==
  LET w == IF ks = {} THEN "end" ELSE Stop(route, r, flights)
      starts == w # "end" /\ flights[w].pc = "idle"
      now == IF starts THEN [flights EXCEPT ![w].pc = Work(w, r)] ELSE flights
  IN /\ at' = [k \in Callers |-> IF k \in ks THEN w ELSE at[k]]
     /\ writer' = now
     /\ sent' = IF now["outcome"].pc # "send" THEN NoVersion
                ELSE IF starts /\ w = "outcome" THEN [content |-> r.pending, used |-> r.used]
                ELSE sent
     /\ batch' = IF now["history"].pc \in {"idle", "wipe"} THEN {}
                 ELSE IF starts /\ w = "history" THEN Due(r) ELSE batch

\* The one the history's writer is at: the outbox is read in order.
Current == CHOOSE h \in batch : \A g \in batch : h <= g

Landing(w) ==
  LET send == writer[w].pc = "send" IN
  CASE w = "outcome" /\ send ->
         [d1 EXCEPT !.content = IF sent.content = Nothing THEN @ ELSE sent.content,
                    !.used = sent.used]
    [] w = "outcome" /\ ~send -> [d1 EXCEPT !.content = Nothing, !.used = 0]
    [] w = "history" /\ send -> [d1 EXCEPT !.history = @ \cup {Current}]
    [] w = "history" /\ ~send -> [d1 EXCEPT !.history = {}]
    [] w = "viewers" /\ send -> [d1 EXCEPT !.viewers = TRUE]
    [] w = "viewers" /\ ~send -> Empty

\* D1 carries the call out; the answer is still on its way.
Land(w) ==
  /\ writer[w].pc # "idle" /\ ~writer[w].landed
  /\ d1' = Landing(w)
  /\ writer' = [writer EXCEPT ![w].landed = TRUE]
  /\ UNCHANGED <<room, expired, alarm, todo, sent, batch, at, sweep,
                 visits, errors, crashes, lost>>

\* D1 has erased the completed room, which does not know it yet.
Erasing == writer["viewers"] = [pc |-> "wipe", landed |-> TRUE]

\* An answer, good or bad.  A call that fails may have been carried out.
Answered(w, ok) ==
  /\ writer[w].pc # "idle"
  /\ IF ok THEN writer[w].landed /\ UNCHANGED errors
           ELSE errors < MaxErrors /\ errors' = errors + 1
  /\ UNCHANGED <<expired, d1, todo, sweep, visits, crashes>>

Proceed(w, pc) ==
  /\ writer' = [writer EXCEPT ![w] = [pc |-> pc, landed |-> FALSE]]
  /\ UNCHANGED <<at, alarm, sent>>

\* Mutant of Finish: only one of the callers hears that the flight is over
FinishForOne(w) ==
  LET waiting == {k \in Callers : at[k] = w}
      heard == IF waiting = {} THEN {} ELSE {CHOOSE k \in waiting : TRUE}
  IN /\ Advance(heard, Tail(Route(w)), room', [writer EXCEPT ![w] = Idle])
     /\ alarm' = IF w = "viewers" THEN alarm ELSE SyncAlarm(room')

\* The flight is over for all who wait for it; outcome and history then choose
\* the alarm anew.
Finish(w) ==
  /\ Advance({k \in Callers : at[k] = w}, Tail(Route(w)), room', [writer EXCEPT ![w] = Idle])
  /\ alarm' = IF w = "viewers" THEN alarm ELSE SyncAlarm(room')

\* Mutant of Acknowledged: whatever is pending by now is taken for sent
AcknowledgedWhole(r) ==
  [r EXCEPT !.saved = IF sent.content = Nothing THEN @ ELSE sent.content,
            !.status = "saved", !.retry = FALSE, !.pending = Nothing]

\* Only the version sent is acknowledged.
Acknowledged(r) ==
  LET same == r.pending = sent.content IN
  [r EXCEPT !.saved = IF sent.content = Nothing THEN @ ELSE sent.content,
            !.status = IF same THEN "saved" ELSE "pending",
            !.retry = ~(same /\ r.used = sent.used),
            !.pending = IF same THEN Nothing ELSE @]
OutcomeGone(r) ==
  [r EXCEPT !.pending = Nothing, !.saved = Nothing, !.retry = FALSE]
HistoryGone(r) ==
  [r EXCEPT !.outbox = [h \in Records |-> "none"], !.rows = FALSE]
Erased(r) ==
  [HistoryGone(OutcomeGone(r)) EXCEPT
     !.life = "disbanded", !.completion = "deleted", !.viewersDue = FALSE]

\* flushSharedOutcomeOnce after its awaits.
AnswerOutcome(ok) ==
  LET pc == writer["outcome"].pc IN
  /\ Answered("outcome", ok)
  /\ lost' = (lost \/ (~ok /\ Erasing /\ d1 # Empty))
  /\ IF ok /\ pc = "send" /\ expired
     THEN Proceed("outcome", "clean") /\ UNCHANGED <<room, batch>>
     ELSE /\ room' = IF ok
                     THEN IF pc = "send" THEN Acknowledged(room) ELSE OutcomeGone(room)
                     ELSE IF pc = "wipe" THEN [room EXCEPT !.retry = TRUE]
                          ELSE [room EXCEPT !.status = "failed", !.retry = TRUE]
          /\ Finish("outcome")

\* The next record of the batch; what would be written of an expired room is not.
NextRecord ==
  IF batch = {Current}
  THEN Finish("history")
  ELSE /\ batch' = batch \ {Current}
       /\ Proceed("history", IF expired THEN "clean" ELSE "send")

\* UPDATE of rows that an erased room no longer has changes nothing.
Mark(r, h, state) ==
  [r EXCEPT !.outbox[h] = IF @ = "none" THEN "none" ELSE state]

\* flushOnce of the history after its awaits.
AnswerHistory(ok) ==
  LET pc == writer["history"].pc IN
  /\ Answered("history", ok)
  /\ lost' = (lost \/ (~ok /\ (Erasing \/ room.completion = "deleted") /\ d1 # Empty))
  /\ \/ /\ ok /\ pc = "send" /\ expired
        /\ Proceed("history", "clean")
        /\ UNCHANGED <<room, batch>>
     \/ /\ ok /\ pc = "send" /\ ~expired
        /\ room' = Mark(room, Current, "kept")
        /\ NextRecord
     \/ /\ ok /\ pc # "send"
        /\ room' = HistoryGone(room)
        /\ Finish("history")
     \/ /\ ~ok /\ pc # "wipe"
        /\ room' = Mark(room, Current, "due")
        /\ NextRecord
     \/ /\ ~ok /\ pc = "wipe"
        /\ room' = [room EXCEPT !.retry = TRUE]
        /\ Finish("history")

\* flushOnce and expire of the completed room after their awaits.
AnswerViewers(ok) ==
  LET pc == writer["viewers"].pc IN
  /\ Answered("viewers", ok)
  /\ UNCHANGED lost
  /\ IF ok /\ pc = "send" /\ expired
     THEN Proceed("viewers", "wipe") /\ UNCHANGED <<room, batch>>
     ELSE /\ room' = IF ok /\ pc = "wipe" THEN Erased(room)
                     ELSE [room EXCEPT !.viewersDue = ~ok]
          /\ Finish("viewers")

-----------------------------------------------------------------------------
(***************************************************************************)
(* Those who call the writers.                                             *)
(***************************************************************************)
Enter(k, route) ==
  /\ ~Frozen /\ at[k] = "none"
  /\ Advance({k}, route, room, writer)
  /\ UNCHANGED <<room, expired, d1, todo, errors, crashes, lost>>

\* An expired room's records are deleted first, and everything is done again
\* if that succeeds.  The history's flush chooses the alarm even with nothing due.
Ring ==
  /\ alarm = "soon" \/ (alarm = "expiry" /\ expired)
  /\ Enter("alarm", Route("outcome"))
  /\ alarm' = IF at'["alarm"] \in {"outcome", "history"} THEN "ringing" ELSE SyncAlarm(room)
  /\ sweep' = expired
  /\ UNCHANGED visits

\* A connection or a message of an expired room: processExpiredTransition.
Visit ==
  /\ expired /\ visits < MaxVisits
  /\ visits' = visits + 1
  /\ Enter("visit", Route("outcome"))
  /\ UNCHANGED <<alarm, sweep>>

\* Somebody leaves the room: flushLeave.
Leave ==
  /\ visits < MaxVisits
  /\ visits' = visits + 1
  /\ Enter("leave", Route("viewers"))
  /\ UNCHANGED <<alarm, sweep>>

\* getSharedOutcome, or list and get of the history, of an expired room.
Look(w) ==
  /\ expired /\ visits < MaxVisits /\ w # "viewers"
  /\ visits' = visits + 1
  /\ Enter("visit", <<w>>)
  /\ UNCHANGED <<alarm, sweep>>

\* processExpiredTransition says no while records remain; the alarm's handler
\* then ends as it is.
Return(k) ==
  /\ ~Frozen /\ at[k] = "end"
  /\ LET refused == sweep /\ (HasContent(room) \/ room.rows)
         again == k = "alarm" /\ sweep /\ ~refused
     IN /\ IF again THEN Advance({k}, Route("outcome"), room, writer)
                    ELSE /\ at' = [at EXCEPT ![k] = "none"]
                         /\ UNCHANGED <<writer, sent, batch>>
        /\ sweep' = IF k = "alarm" THEN FALSE ELSE sweep
        /\ alarm' = IF k = "visit" \/ again THEN alarm
                    ELSE IF k = "leave" \/ ~refused THEN SyncAlarm(room)
                    ELSE IF alarm = "ringing" THEN "none" ELSE alarm
  /\ UNCHANGED <<room, expired, d1, todo, visits, errors, crashes, lost>>

\* The object is lost with all it was doing.  An alarm whose handler was under
\* way rings again.
Crash ==
  /\ crashes < MaxCrashes
  /\ crashes' = crashes + 1
  /\ todo' = <<>>
  /\ writer' = [w \in Writers |-> Idle]
  /\ sent' = NoVersion /\ batch' = {}
  /\ at' = [k \in Callers |-> "none"] /\ sweep' = FALSE
  /\ alarm' = IF alarm = "ringing" THEN "soon" ELSE alarm
  /\ lost' = (lost \/ (room.completion = "deleted" /\ d1 # Empty))
  /\ UNCHANGED <<room, expired, d1, visits, errors>>

-----------------------------------------------------------------------------
\* initializeSharedOutcomeState, and the alarm initializeCreation sets.
Init ==
  /\ room = [life |-> "open", used |-> 1, pending |-> 1, saved |-> Nothing,
             status |-> "pending", retry |-> TRUE,
             outbox |-> [h \in Records |-> "none"], rows |-> FALSE,
             completion |-> "none", viewersDue |-> FALSE]
  /\ expired = FALSE /\ alarm = "soon" /\ d1 = Empty
  /\ todo = <<>> /\ writer = [w \in Writers |-> Idle]
  /\ sent = NoVersion /\ batch = {}
  /\ at = [k \in Callers |-> "none"] /\ sweep = FALSE
  /\ visits = 0 /\ errors = 0 /\ crashes = 0 /\ lost = FALSE

Answer(w, ok) ==
  \/ w = "outcome" /\ AnswerOutcome(ok)
  \/ w = "history" /\ AnswerHistory(ok)
  \/ w = "viewers" /\ AnswerViewers(ok)

\* While the object is frozen only the deletion's own answer reaches it.
Heard(w) == Frozen => w = "outcome"

Use == ChangeBoard \/ ChangeTimer \/ EndStep \/ Complete \/ Disband

Next ==
  \/ Use \/ GoOn \/ Expire
  \/ \E w \in Writers : Land(w) \/ Look(w)
  \/ \E w \in Writers, ok \in BOOLEAN : Heard(w) /\ Answer(w, ok)
  \/ \E k \in Callers : Return(k)
  \/ Ring \/ Visit \/ Leave \/ Crash

Spec == Init /\ [][Next]_vars

(***************************************************************************)
(* Handlers go on, D1 answers, alarms ring, and the platform's failures    *)
(* end (MaxErrors, MaxCrashes).  Nothing makes people use the room, come   *)
(* back to it, or the thirty days pass.                                    *)
(***************************************************************************)
FairSpec ==
  /\ Spec
  /\ WF_vars(GoOn) /\ WF_vars(Ring)
  /\ \A w \in Writers : WF_vars(Land(w)) /\ WF_vars(Heard(w) /\ Answer(w, TRUE))
  /\ \A k \in Callers : WF_vars(Return(k))

-----------------------------------------------------------------------------
\* What the room reports as saved is in D1 as long as the room is kept: the
\* outcome in the very version reported, the use it was saved at, each record
\* the history shows as saved, and the list of viewers once nothing is due.  A
\* version preserved while an older one was on its way is never acknowledged
\* with it.
AcknowledgedIsThere ==
  ~expired =>
    /\ room.status = "saved" => d1.content = room.saved /\ room.pending = Nothing
    /\ room.saved # Nothing => d1.content >= room.saved
    /\ ~room.retry => d1.used = room.used
    /\ \A h \in Records : room.outbox[h] = "kept" => h \in d1.history
    /\ room.completion = "fixed" /\ ~room.viewersDue => d1.viewers

Settled ==
  room.pending = Nothing /\ ~room.retry /\ Due(room) = {} /\ ~room.viewersDue

\* What is still to be saved is saved, after failures and crashes of any of the
\* parties, and also when the room has been disbanded: the alarm is never lost
\* while something is due.
ProjectedInTheEnd == ~Settled ~> (Settled \/ expired)

NothingLeft == d1 = Empty /\ ~HasContent(room) /\ ~room.rows

\* An expired room is deleted from the object and from D1 for good, whatever
\* was on its way there when it expired.  The code does not keep this if a
\* record lands after the completed room has been erased and the deletion that
\* should follow fails or is cut off: nothing is left to remind the object.
ErasedInTheEnd == expired ~> [](NothingLeft \/ lost)
=============================================================================
