----------------------------- MODULE NoteAutosave -----------------------------
(***************************************************************************)
(* One note, the tab its author writes it in, and the room.  The tab keeps *)
(* what is typed as a draft (use-note-autosave.ts), sends it with the      *)
(* revisions it is based on, asks again for an answer that does not come,  *)
(* and picks the draft up after a broken connection, a reload or a new     *)
(* session; the room takes a save only if nothing came between             *)
(* (note-handlers.ts).  Meanwhile the room moves on, rolls back, restarts  *)
(* and other tabs write, share and delete the note.                        *)
(*                                                                         *)
(* A text is a value of Texts; Blank stands for the texts of white space.  *)
(* The steps after sharing, in which nobody writes, are step 3.            *)
(***************************************************************************)
EXTENDS Integers, Sequences, FiniteSets

CONSTANTS
  Texts, Blank,  \* texts, and the empty one
  NoDraft, NoFlight,
  MaxInputs,     \* bound on what is typed and shared in the tab
  MaxOutside,    \* bound on what happens around it
  MaxQueue       \* the status timer rings only if fewer messages are under way

ASSUME BlankIsText == Blank \in Texts
ASSUME BoundsAssumption == MaxInputs \in Nat /\ MaxOutside \in Nat

\* A save under way, and a draft.
Final == {"conflict", "not-editable", "missing", "interrupted-composition"}
Flights ==
  [op : Nat, content : Texts, expRev : Nat, expPhase : Nat, over : Texts]
Drafts ==
  [base : Texts, baseRev : Nat, phaseRev : Nat, step : 1 .. 2,
   text : Texts, committed : Texts, composing : BOOLEAN,
   flight : Flights \cup {NoFlight},
   reason : Final \cup {"none", "send-failed", "result-unknown"}]

ASSUME NoneAssumption == NoDraft \notin Drafts /\ NoFlight \notin Flights

VARIABLES
  \* the room
  note,          \* the row with its content revision; "kept" is history: the
                 \* saves of this tab it has taken, as far as not rolled back
  phase,         \* step, phase_revision, rollback_revision
  checkpoints,   \* phase_rollback_checkpoints, the newest last
  receipts,      \* note_content_receipts of this tab; "over" is history: the
                 \* text the writer had in front of them
  session,       \* whether the session of the connection is still valid
  \* the connection
  link,          \* "synced", "opening" (no snapshot yet), "cut", "ended"
  up,            \* messages to the room; admitted: the first is at the digest
  late,          \* what broken connections still have on their way
  down,          \* messages to the tab
  \* the tab
  draft,         \* draftsRef, also in the session storage
  active,        \* activeCompositionsRef
  due,           \* "timer" or "micro": flush is to be called
  asking,        \* statusTimersRef
  waiting,       \* shareWaitersRef
  view,          \* serverRef
  lastOp,        \* operation identifiers used
  inputs, outside

room == <<note, phase, checkpoints, receipts, session>>
net == <<link, up, late, down>>
tab == <<draft, active, due, asking, waiting, view, lastOp>>
vars == <<room, net, tab, inputs, outside>>

Shown(n) == [content |-> n.content, rev |-> n.rev, vis |-> n.vis]
Gone == [content |-> Blank, rev |-> 0, vis |-> "gone", kept |-> {}]
Unseen == [note |-> Shown(Gone), step |-> 0, rev |-> 0, ready |-> FALSE]

Snapshot(n, p) ==
  [t |-> "snapshot", note |-> Shown(n), step |-> p.step, rev |-> p.rev,
   rollback |-> p.rollback]
PhaseUpdated(p) == [t |-> "phase", step |-> p.step, rev |-> p.rev]
NoteShown(n) == [t |-> "note", note |-> Shown(n)]
Deleted == [t |-> "deleted"]
Saved(op, rev) == [t |-> "saved", op |-> op, rev |-> rev]
Refused(op, code) == [t |-> "error", op |-> op, code |-> code]

Quiet == [queue |-> <<>>, admitted |-> FALSE]

TypeOK ==
  /\ note \in [content : Texts, rev : Nat, vis : {"private", "shared", "gone"},
               kept : SUBSET (1 .. lastOp)]
  /\ phase \in [step : 1 .. 3, rev : Nat, rollback : Nat]
  /\ phase.rollback <= phase.rev
  /\ \A i \in DOMAIN checkpoints : checkpoints[i].step < 3
  /\ \A r \in receipts : r.op \in 1 .. lastOp /\ r.rev = r.expRev + 1
  /\ \A r, s \in receipts : r.op = s.op => r = s
  /\ link \in {"synced", "opening", "cut", "ended"}
  /\ draft # NoDraft =>
       /\ draft \in Drafts
       /\ ~draft.composing => draft.committed = draft.text
       /\ active => draft.composing
       /\ draft.flight # NoFlight =>
            draft.flight.op \in 1 .. lastOp /\ draft.flight.expRev = draft.baseRev
  /\ draft = NoDraft => ~active /\ ~waiting /\ due = "no"
  /\ link = "synced" => view.ready
  /\ waiting => view.ready /\ view.step = 2
  /\ inputs \in 0 .. MaxInputs /\ outside \in 0 .. MaxOutside

\* A room in personal work with the note just created, and one in sharing with
\* the note published, edited since, and the way back still open.
First ==
  [note |-> [content |-> Blank, rev |-> 0, vis |-> "private", kept |-> {}],
   step |-> 1, rev |-> 1, checkpoints |-> <<>>]
Shares(old, new) ==
  [note |-> [content |-> new, rev |-> 2, vis |-> "shared", kept |-> {}],
   step |-> 2, rev |-> 2,
   checkpoints |->
     <<[step |-> 1,
        note |-> [content |-> old, rev |-> 1, vis |-> "private", kept |-> {}]]>>]

Init ==
  /\ \E s \in {First} \cup
              {Shares(a, b) : a \in Texts \ {Blank}, b \in Texts \ {Blank}} :
       /\ note = s.note /\ checkpoints = s.checkpoints
       /\ phase = [step |-> s.step, rev |-> s.rev, rollback |-> 0]
       /\ view = [note |-> Shown(s.note), step |-> s.step, rev |-> s.rev,
                  ready |-> TRUE]
  /\ receipts = {} /\ session = TRUE
  /\ link = "synced" /\ up = Quiet /\ late = {} /\ down = <<>>
  /\ draft = NoDraft /\ active = FALSE /\ due = "no" /\ asking = FALSE
  /\ waiting = FALSE /\ lastOp = 0 /\ inputs = 0 /\ outside = 0

-----------------------------------------------------------------------------
(* The tab: what may be written, and what is sent *)

Editable(v) ==
  /\ v.note.vis # "gone" /\ v.step \in 1 .. 2
  /\ v.step = 1 => v.note.vis = "private"

\* A draft goes on in the phase revision it was begun in, or from personal work
\* into the sharing right after it while the note is private.
CanContinue(d, v) ==
  /\ Editable(v)
  /\ \/ d.phaseRev = v.rev
     \/ /\ v.rev = d.phaseRev + 1 /\ d.step = 1 /\ v.step = 2
        /\ v.note.vis = "private"

Tell(m) == up' = [up EXCEPT !.queue = Append(@, m)]

Save(f) == [t |-> "save", op |-> f.op, content |-> f.content,
            expRev |-> f.expRev, expPhase |-> f.expPhase, over |-> f.over]

\* Mutant of Ask: the answer is not waited for.
AskOnce(d) == UNCHANGED asking /\ Tell([t |-> "status", op |-> d.flight.op])

Ask(d) == asking' = TRUE /\ Tell([t |-> "status", op |-> d.flight.op])

\* The draft is put aside for the person to pick up.
Recover(d, why) ==
  /\ draft' = [d EXCEPT !.reason = why]
  /\ due' = "no" /\ asking' = FALSE /\ waiting' = FALSE
  /\ active' = (active /\ why \in {"send-failed", "result-unknown"})

Drop ==
  /\ draft' = NoDraft
  /\ due' = "no" /\ asking' = FALSE /\ active' = FALSE

\* The note is shared once what was typed is in the room.
CompleteShare(v, content, rev) ==
  /\ waiting' = FALSE
  /\ IF /\ waiting /\ link = "synced"
        /\ v.ready /\ v.step = 2 /\ v.note.vis = "private"
        /\ v.note.content = content /\ v.note.rev = rev
     THEN Tell([t |-> "publish"])
     ELSE UNCHANGED up

\* Microtasks run before any other task of the tab.
Idle == due # "micro"

Ignored ==
  \/ draft = NoDraft
  \/ draft.reason # "none" \/ draft.composing \/ draft.flight # NoFlight
  \/ ~view.ready

Takeoff ==
  [op |-> lastOp + 1, content |-> draft.committed, expRev |-> draft.baseRev,
   expPhase |-> view.rev, over |-> draft.base]

FlushSends ==
  /\ IF link = "synced"
     THEN /\ draft' = [draft EXCEPT !.flight = Takeoff]
          /\ due' = "no" /\ asking' = TRUE /\ UNCHANGED <<active, waiting>>
          /\ Tell(Save(Takeoff))
     ELSE Recover(draft, "send-failed") /\ UNCHANGED up
  /\ lastOp' = lastOp + 1

Hindrance ==
  IF view.note.vis = "gone" THEN "missing"
  ELSE IF ~CanContinue(draft, view) THEN "not-editable" ELSE "conflict"

GoesOn == CanContinue(draft, view) /\ view.note.rev = draft.baseRev

Flush ==
  /\ due # "no"
  /\ \/ Ignored /\ due' = "no"
        /\ UNCHANGED <<draft, active, asking, waiting, up, lastOp>>
     \/ ~Ignored /\ ~GoesOn
        /\ Recover(draft, Hindrance) /\ UNCHANGED <<up, lastOp>>
     \/ ~Ignored /\ GoesOn /\ draft.committed = draft.base
        /\ Drop /\ CompleteShare(view, view.note.content, view.note.rev)
        /\ UNCHANGED lastOp
     \/ ~Ignored /\ GoesOn /\ draft.committed # draft.base /\ FlushSends
  /\ UNCHANGED <<room, link, late, down, view, inputs, outside>>

\* No answer for three seconds.
Ring ==
  /\ Idle /\ asking /\ view.ready /\ draft # NoDraft
  /\ draft.flight # NoFlight /\ Len(up.queue) + Len(down) < MaxQueue
  /\ IF link = "synced"
     THEN Ask(draft) /\ UNCHANGED <<draft, active, due, waiting>>
     ELSE Recover(draft, "send-failed") /\ UNCHANGED up
  /\ UNCHANGED <<room, link, late, down, view, lastOp, inputs, outside>>

-----------------------------------------------------------------------------
(* The tab: the person *)

Fresh ==
  [base |-> view.note.content, baseRev |-> view.note.rev,
   phaseRev |-> view.rev, step |-> view.step, text |-> view.note.content,
   committed |-> view.note.content, composing |-> FALSE,
   flight |-> NoFlight, reason |-> "none"]

\* The draft there is, or a new one: the editor opens on what may be written.
Writing ==
  {d \in {draft, Fresh} :
     IF draft = NoDraft THEN d = Fresh /\ Editable(view) ELSE d = draft}

Input ==
  /\ Idle /\ inputs < MaxInputs /\ inputs' = inputs + 1
  /\ UNCHANGED <<room, link, late, down, view, lastOp, outside>>

Change(text) ==
  /\ Input
  /\ \E d \in Writing :
       /\ d.text # text
       /\ draft' = [d EXCEPT !.text = text,
                             !.committed = IF d.composing THEN @ ELSE text]
       /\ due' = IF d.composing THEN due ELSE "timer"
  /\ UNCHANGED <<up, active, asking, waiting>>

CompositionStart ==
  /\ Input
  /\ \E d \in Writing :
       /\ ~d.composing
       /\ draft' = [d EXCEPT !.composing = TRUE]
  /\ active' = TRUE /\ due' = "no" /\ waiting' = FALSE
  /\ UNCHANGED <<up, asking>>

\* Mutant of CompositionEnd: the text composed is not the text to send.
CompositionEndUncommitted ==
  /\ Idle /\ draft # NoDraft /\ draft.composing
  /\ active \/ draft.reason # "none"
  /\ draft' = [draft EXCEPT !.composing = FALSE]
  /\ active' = FALSE /\ due' = "timer"
  /\ UNCHANGED <<room, net, asking, waiting, view, lastOp, inputs, outside>>

CompositionEnd ==
  /\ Idle /\ draft # NoDraft /\ draft.composing
  /\ active \/ draft.reason # "none"
  /\ draft' = [draft EXCEPT !.composing = FALSE, !.committed = draft.text]
  /\ active' = FALSE /\ due' = "timer"
  /\ UNCHANGED <<room, net, asking, waiting, view, lastOp, inputs, outside>>

\* Only the author's private note in sharing; what was typed goes first.
Share ==
  /\ Input
  /\ view.ready /\ view.step = 2 /\ view.note.vis = "private"
  /\ ~waiting
  /\ \/ draft = NoDraft /\ link = "synced" /\ Tell([t |-> "publish"])
        /\ UNCHANGED <<due, waiting>>
     \/ /\ draft # NoDraft
        /\ ~draft.composing /\ draft.reason = "none"
        /\ waiting' = TRUE /\ due' = "micro" /\ UNCHANGED up
  /\ UNCHANGED <<draft, active, asking>>

-----------------------------------------------------------------------------
(* The tab: messages of the room *)

Receive(type) ==
  /\ Idle /\ down # <<>> /\ Head(down).t = type
  /\ down' = Tail(down)
  /\ UNCHANGED <<room, late, inputs, outside, lastOp>>

\* The answer that the save was taken; d is the draft without its flight.
Landed(rev) ==
  [draft EXCEPT
     !.flight = NoFlight, !.base = draft.flight.content, !.baseRev = rev,
     !.reason = IF @ # "result-unknown" THEN @
                ELSE IF draft.composing /\ ~active
                THEN "interrupted-composition" ELSE "none"]

\* Mutant of Accept: what was typed since is not looked at.
AcceptForgetting(rev) ==
  /\ UNCHANGED view
  /\ Drop /\ CompleteShare(view, draft.flight.content, rev)

Accept(rev) ==
  LET sent == draft.flight.content
      done == draft.text = sent /\ ~draft.composing
      newer == view.note.vis # "gone" /\ view.note.rev > rev
  IN /\ view' = IF view.note.vis = "gone" \/ newer THEN view
                ELSE [view EXCEPT !.note.content = sent, !.note.rev = rev]
     /\ \/ newer /\ ~done /\ Recover(Landed(rev), "conflict") /\ UNCHANGED up
        \/ done /\ Drop /\ CompleteShare(view', sent, rev)
        \/ /\ ~newer /\ ~done /\ UNCHANGED up
           /\ IF CanContinue(Landed(rev), view')
              THEN /\ draft' = Landed(rev)
                   /\ due' = IF draft'.composing \/ draft'.reason # "none"
                             THEN due ELSE "micro"
                   /\ asking' = FALSE /\ UNCHANGED <<active, waiting>>
              ELSE Recover(Landed(rev), "not-editable")

InFlight(op) == draft # NoDraft /\ draft.flight # NoFlight /\ draft.flight.op = op

Nothing == UNCHANGED <<draft, active, due, asking, waiting, up>>

ReceiveSaved ==
  /\ Receive("saved")
  /\ IF InFlight(Head(down).op) THEN Accept(Head(down).rev)
     ELSE Nothing /\ UNCHANGED view
  /\ UNCHANGED link

\* The room does not know the operation: send it again, start anew with the
\* present phase revision, or put the draft aside.
Unknown ==
  /\ UNCHANGED view
  /\ \/ /\ \/ ~CanContinue(draft, view)
           \/ draft.reason \notin {"none", "result-unknown", "send-failed"}
        /\ Recover(draft, IF draft.reason = "none" THEN "not-editable"
                          ELSE draft.reason)
        /\ UNCHANGED up
     \/ /\ CanContinue(draft, view)
        /\ draft.reason \in {"none", "result-unknown", "send-failed"}
        /\ \/ view.note.rev # draft.flight.expRev
              /\ Recover(draft, "conflict") /\ UNCHANGED up
           \/ /\ view.note.rev = draft.flight.expRev
              /\ draft.flight.expPhase # view.rev
              /\ draft' = [draft EXCEPT
                   !.flight = NoFlight,
                   !.reason = IF @ # "result-unknown" THEN @
                              ELSE IF draft.composing /\ ~active
                              THEN "interrupted-composition" ELSE "none"]
              /\ asking' = FALSE /\ due' = "micro"
              /\ UNCHANGED <<active, waiting, up>>
           \/ /\ view.note.rev = draft.flight.expRev
              /\ draft.flight.expPhase = view.rev
              /\ Tell(Save(draft.flight)) /\ asking' = TRUE
              /\ UNCHANGED <<draft, active, due, waiting>>

ReceiveStatus ==
  /\ Receive("status")
  /\ \/ ~InFlight(Head(down).op) /\ Nothing /\ UNCHANGED view
     \/ /\ InFlight(Head(down).op)
        /\ IF Head(down).accepted THEN Accept(Head(down).rev) ELSE Unknown
  /\ UNCHANGED link

\* A save of personal work that met sharing: ask before giving up.
Carried ==
  /\ Head(down).code = "content-conflict"
  /\ draft.flight.expPhase < view.rev /\ draft.step = 1 /\ view.step = 2
  /\ CanContinue(draft, view)
  /\ view.note.rev = draft.baseRev /\ draft.reason = "none"

ReceiveError ==
  /\ Receive("error")
  /\ \/ ~InFlight(Head(down).op) /\ Nothing
     \/ /\ InFlight(Head(down).op) /\ Carried
        /\ Ask(draft) /\ UNCHANGED <<draft, active, due, waiting>>
     \/ /\ InFlight(Head(down).op) /\ ~Carried
        /\ Recover(draft, IF Head(down).code = "content-conflict"
                          THEN "conflict" ELSE "not-editable")
        /\ UNCHANGED up
  /\ UNCHANGED <<link, view>>

ReceiveNote ==
  /\ Receive("note")
  /\ view' = [view EXCEPT !.note = Head(down).note]
  /\ IF draft # NoDraft /\ draft.flight = NoFlight
        /\ view'.note.rev # draft.baseRev
     THEN Recover(draft, "conflict") /\ UNCHANGED up
     ELSE Nothing
  /\ UNCHANGED link

ReceiveDeleted ==
  /\ Receive("deleted")
  /\ view' = [view EXCEPT !.note = Shown(Gone)]
  /\ IF draft # NoDraft THEN Recover(draft, "missing") /\ UNCHANGED up
     ELSE Nothing
  /\ UNCHANGED link

\* A waiter of another phase revision is forgotten.
StillWaiting(m) == waiting' = (waiting /\ m.rev = view.rev)

RecoverAsking(d, why) ==
  /\ draft' = [d EXCEPT !.reason = why]
  /\ due' = "no" /\ waiting' = FALSE
  /\ active' = (active /\ why \in {"send-failed", "result-unknown"})
  /\ Ask(d)

ReceivePhase ==
  /\ Receive("phase")
  /\ view' = [view EXCEPT !.step = Head(down).step, !.rev = Head(down).rev]
  /\ \/ draft = NoDraft /\ StillWaiting(Head(down))
        /\ UNCHANGED <<draft, active, due, asking, up>>
     \/ /\ draft # NoDraft /\ ~CanContinue(draft, view')
        /\ IF draft.flight # NoFlight THEN RecoverAsking(draft, "not-editable")
           ELSE Recover(draft, "not-editable") /\ UNCHANGED up
     \/ /\ draft # NoDraft /\ CanContinue(draft, view')
        /\ StillWaiting(Head(down))
        /\ IF draft.flight # NoFlight THEN Ask(draft) /\ due' = "no"
           ELSE /\ due' = IF draft.reason = "none" /\ ~draft.composing
                          THEN "micro" ELSE "no"
                /\ UNCHANGED <<asking, up>>
        /\ UNCHANGED <<draft, active>>
  /\ UNCHANGED link

RolledBack(d, m) == m.rollback # 0 /\ d.phaseRev < m.rollback

\* What a snapshot makes of a draft whose save is unanswered: its fate is asked
\* for, and what cannot go on is put aside besides.
SnapshotAsks(d, m) ==
  /\ d.flight # NoFlight
  /\ IF (d.composing /\ ~active) \/ ~CanContinue(d, view')
     THEN RecoverAsking(d, IF d.composing THEN "interrupted-composition"
                           ELSE "not-editable")
     ELSE /\ Ask(d)
          /\ draft' = d /\ due' = "no" /\ UNCHANGED active /\ StillWaiting(m)

SnapshotComposes(d, m) ==
  /\ d.flight = NoFlight /\ d.reason = "none" /\ d.composing
  /\ UNCHANGED up
  /\ IF ~active \/ ~CanContinue(d, view')
     THEN Recover(d, "interrupted-composition")
     ELSE draft' = d /\ UNCHANGED <<active, due, asking>> /\ StillWaiting(m)

SnapshotGoesOn(d, m) ==
  /\ d.flight = NoFlight /\ d.reason = "none" /\ ~d.composing
  /\ UNCHANGED up
  /\ \/ view'.note.vis = "gone" /\ Recover(d, "missing")
     \/ /\ view'.note.vis # "gone" /\ ~CanContinue(d, view')
        /\ Recover(d, "not-editable")
     \/ /\ CanContinue(d, view') /\ view'.note.rev # d.baseRev
        /\ Recover(d, "conflict")
     \/ /\ CanContinue(d, view') /\ view'.note.rev = d.baseRev
        /\ draft' = d /\ due' = "micro" /\ UNCHANGED <<active, asking>>
        /\ StillWaiting(m)

ReceiveSnapshot ==
  /\ Receive("snapshot")
  /\ link' = "synced"
  /\ \E m \in {Head(down)} :
       /\ view' = [note |-> m.note, step |-> m.step, rev |-> m.rev,
                   ready |-> TRUE]
       /\ \/ /\ draft = NoDraft /\ StillWaiting(m)
             /\ UNCHANGED <<draft, active, due, asking, up>>
          \/ /\ draft # NoDraft /\ RolledBack(draft, m)
             /\ Drop /\ StillWaiting(m) /\ UNCHANGED up
          \/ /\ draft # NoDraft /\ ~RolledBack(draft, m)
             /\ \E d \in {[draft EXCEPT !.reason =
                             IF @ = "send-failed" THEN "none" ELSE @]} :
                  \/ SnapshotAsks(d, m)
                  \/ /\ d.flight = NoFlight /\ d.reason # "none"
                     /\ draft' = d /\ StillWaiting(m)
                     /\ UNCHANGED <<active, due, asking, up>>
                  \/ SnapshotComposes(d, m)
                  \/ SnapshotGoesOn(d, m)

-----------------------------------------------------------------------------
(* The connection *)

\* The board hears of the lost connection: nothing is flushed until the next
\* snapshot.
HearOfCut ==
  /\ Idle /\ link = "cut" /\ view.ready
  /\ view' = [view EXCEPT !.ready = FALSE]
  /\ waiting' = FALSE /\ asking' = FALSE
  /\ UNCHANGED <<room, net, draft, active, due, lastOp, inputs, outside>>

Connect ==
  /\ link' = "opening" /\ up' = Quiet /\ down' = <<Snapshot(note, phase)>>

Reopen ==
  /\ link = "cut" /\ ~view.ready /\ session
  /\ Connect
  /\ UNCHANGED <<room, late, tab, inputs, outside>>

\* The session is over: the room closes the connection for that reason, or does
\* not open a new one, and the board puts every draft aside.
EndOfSession ==
  /\ Idle /\ ~session
  /\ \/ link = "cut" /\ ~view.ready
     \/ link \in {"opening", "synced"} /\ down = <<>>
  /\ link' = "ended" /\ up' = Quiet
  /\ view' = [view EXCEPT !.ready = FALSE]
  /\ IF draft = NoDraft
     THEN /\ waiting' = FALSE /\ asking' = FALSE
          /\ UNCHANGED <<draft, active, due>>
     ELSE Recover(draft, IF draft.flight = NoFlight THEN "not-editable"
                         ELSE "result-unknown")
  /\ UNCHANGED <<room, late, down, lastOp, inputs, outside>>

Left == IF up.queue = <<>> THEN late ELSE late \cup {up}

Around == outside < MaxOutside /\ outside' = outside + 1

Break ==
  /\ Around /\ link \in {"opening", "synced"}
  /\ link' = "cut" /\ late' = Left /\ up' = Quiet /\ down' = <<>>
  /\ UNCHANGED <<room, tab, inputs>>

\* A new page finds the drafts in the session storage and nothing else.
Load ==
  /\ active' = FALSE /\ due' = "no" /\ asking' = FALSE /\ waiting' = FALSE
  /\ view' = Unseen
  /\ Connect
  /\ UNCHANGED <<note, phase, checkpoints, receipts, draft, lastOp, inputs>>

Reload ==
  /\ Around /\ Idle /\ session /\ link # "ended"
  /\ late' = Left
  /\ Load /\ UNCHANGED session

LogIn ==
  /\ link = "ended"
  /\ session' = TRUE
  /\ Load /\ UNCHANGED <<late, outside>>

\* Nothing is taken any more from a connection opened in that session.
Expire ==
  /\ Around /\ session
  /\ session' = FALSE /\ late' = {}
  /\ UNCHANGED <<note, phase, checkpoints, receipts, link, up, down, tab, inputs>>

-----------------------------------------------------------------------------
(* The room: messages of the tab *)

\* What the room tells the tab, if it still has its connection.
Send(msgs) ==
  down' = IF session /\ link \in {"opening", "synced"} THEN down \o msgs
          ELSE down

Rest(c) == [queue |-> Tail(c.queue), admitted |-> FALSE]

\* Connection c goes on as d; only the live one can be answered.
Proceed(c, live, d) ==
  IF live THEN up' = d /\ UNCHANGED late
  ELSE /\ late' = (late \ {c}) \cup IF d.queue = <<>> THEN {} ELSE {d}
       /\ UNCHANGED up

Reply(live, msg) == IF live THEN <<msg>> ELSE <<>>

Aside == UNCHANGED <<phase, checkpoints, session, link, tab, inputs>>

\* The messages of a connection are served one after the other, the first
\* checks and the answer of the account before the digest.
Served(c, type, admitted) ==
  /\ session /\ c.queue # <<>>
  /\ Head(c.queue).t = type /\ c.admitted = admitted

Admit(c, live) ==
  /\ Served(c, "save", FALSE)
  /\ \/ /\ phase.step < 3
        /\ Proceed(c, live, [c EXCEPT !.admitted = TRUE]) /\ UNCHANGED down
     \/ /\ phase.step = 3
        /\ Proceed(c, live, Rest(c))
        /\ Send(Reply(live, Refused(Head(c.queue).op, "forbidden")))
  /\ UNCHANGED <<note, receipts, outside>> /\ Aside

\* The account is not reached or denies, the timer does not run, it is
\* somebody else's turn.  Only saves are answered with their operation.
Deny(c, live) ==
  /\ Around
  /\ session /\ c.queue # <<>> /\ ~c.admitted
  /\ Proceed(c, live, Rest(c))
  /\ IF Head(c.queue).t = "save"
     THEN Send(Reply(live, Refused(Head(c.queue).op, "forbidden")))
     ELSE UNCHANGED down
  /\ UNCHANGED <<note, receipts>> /\ Aside

InEffect(r) == r.expPhase >= phase.rollback

Prior(m) == {r \in receipts : r.op = m.op}

Writable == note.vis # "gone" /\ (note.vis = "shared" => phase.step # 1)

Verdict(m) ==
  IF ~Writable THEN Refused(m.op, "forbidden")
  ELSE IF \E r \in Prior(m) : InEffect(r)
  THEN Saved(m.op, (CHOOSE r \in Prior(m) : TRUE).rev)
  ELSE Refused(m.op, "content-conflict")

\* Mutant of Untouched: the content revision alone, which a rollback takes back.
UntouchedText(m) == note.rev = m.expRev

Untouched(m) == phase.rev = m.expPhase /\ note.rev = m.expRev

\* The second half, after the digest.
SaveContent(c, live) ==
  /\ Served(c, "save", TRUE)
  /\ \E m \in {Head(c.queue)} :
       IF Writable /\ Prior(m) = {} /\ Untouched(m)
       THEN /\ note' = [note EXCEPT !.content = m.content, !.rev = @ + 1,
                                    !.kept = @ \cup {m.op}]
            /\ receipts' = receipts \cup
                 {[op |-> m.op, content |-> m.content, expRev |-> m.expRev,
                   expPhase |-> m.expPhase, rev |-> note'.rev,
                   over |-> m.over]}
            /\ Send(<<NoteShown(note')>> \o Reply(live, Saved(m.op, note'.rev)))
       ELSE Send(Reply(live, Verdict(m))) /\ UNCHANGED <<note, receipts>>
  /\ Proceed(c, live, Rest(c))
  /\ UNCHANGED outside /\ Aside

ContentStatus(c, live) ==
  /\ Served(c, "status", FALSE)
  /\ \E known \in {{r \in Prior(Head(c.queue)) : InEffect(r)}} :
       Send(Reply(live,
         [t |-> "status", op |-> Head(c.queue).op, accepted |-> known # {},
          rev |-> IF known = {} THEN 0 ELSE (CHOOSE r \in known : TRUE).rev]))
  /\ Proceed(c, live, Rest(c))
  /\ UNCHANGED <<note, receipts, outside>> /\ Aside

Publish(c, live) ==
  /\ Served(c, "publish", FALSE)
  /\ IF note.vis = "private" /\ phase.step = 2
     THEN note' = [note EXCEPT !.vis = "shared"] /\ Send(<<NoteShown(note')>>)
     ELSE UNCHANGED <<note, down>>
  /\ Proceed(c, live, Rest(c))
  /\ UNCHANGED <<receipts, outside>> /\ Aside

Serve(c, live) ==
  \/ Admit(c, live) \/ Deny(c, live) \/ SaveContent(c, live)
  \/ ContentStatus(c, live) \/ Publish(c, live)

\* The room finds out that the old connection is closed.
LateLost(c) ==
  /\ late' = late \ {c}
  /\ UNCHANGED <<room, link, up, down, tab, inputs, outside>>

-----------------------------------------------------------------------------
(* The room: everybody else *)

Elsewhere == Around /\ UNCHANGED <<session, link, up, late, tab, inputs>>

\* Another participant, or another tab of the author while it is private.
OthersSave(text) ==
  /\ Elsewhere
  /\ Writable /\ phase.step < 3 /\ text # note.content
  /\ note' = [note EXCEPT !.content = text, !.rev = @ + 1]
  /\ Send(<<NoteShown(note')>>)
  /\ UNCHANGED <<phase, checkpoints, receipts>>

ShareElsewhere ==
  /\ Elsewhere
  /\ phase.step = 2
  /\ \/ /\ note.vis = "private"
        /\ note' = [note EXCEPT !.vis = "shared"]
        /\ Send(<<NoteShown(note')>>)
     \/ /\ note.vis = "shared"
        /\ note' = [note EXCEPT !.vis = "private"]
        /\ Send(<<Deleted, NoteShown(note')>>)
  /\ UNCHANGED <<phase, checkpoints, receipts>>

Delete ==
  /\ Elsewhere
  /\ Writable /\ phase.step < 3
  /\ note' = Gone
  /\ Send(<<Deleted>>)
  /\ UNCHANGED <<phase, checkpoints, receipts>>

Moved(step) == [phase EXCEPT !.step = step, !.rev = @ + 1]

\* Blank notes are discarded as their step is left.
PhaseNext ==
  /\ Elsewhere
  /\ phase.step < 3
  /\ checkpoints' = Append(checkpoints, [step |-> phase.step, note |-> note])
  /\ note' = IF note.content = Blank THEN Gone ELSE note
  /\ phase' = Moved(phase.step + 1)
  /\ Send(<<Snapshot(note', phase'), PhaseUpdated(phase')>>)
  /\ UNCHANGED receipts

RestartWriting ==
  /\ Elsewhere
  /\ phase.step > 1
  /\ checkpoints' = <<>>
  /\ phase' = Moved(1)
  /\ Send(<<Snapshot(note, phase'), PhaseUpdated(phase')>>)
  /\ UNCHANGED <<note, receipts>>

Rollback ==
  /\ Elsewhere
  /\ checkpoints # <<>>
  /\ \E c \in {checkpoints[Len(checkpoints)]} :
       /\ note' = c.note
       /\ phase' = [step |-> c.step, rev |-> phase.rev + 1,
                    rollback |-> phase.rev + 1]
  /\ checkpoints' = SubSeq(checkpoints, 1, Len(checkpoints) - 1)
  /\ Send(<<Snapshot(note', phase')>>)
  /\ UNCHANGED receipts

-----------------------------------------------------------------------------
Person == (\E t \in Texts : Change(t)) \/ CompositionStart \/ CompositionEnd
          \/ Share
Receives == ReceiveSaved \/ ReceiveStatus \/ ReceiveError \/ ReceiveNote
            \/ ReceiveDeleted \/ ReceivePhase \/ ReceiveSnapshot
Connection == HearOfCut \/ Reopen \/ EndOfSession \/ Break \/ Reload \/ LogIn
              \/ Expire
Others == (\E t \in Texts : OthersSave(t)) \/ ShareElsewhere \/ Delete
          \/ PhaseNext \/ RestartWriting \/ Rollback

Next ==
  \/ Person \/ Flush \/ Ring \/ Receives \/ Connection \/ Others
  \/ Serve(up, TRUE)
  \/ \E c \in late : Serve(c, FALSE) \/ LateLost(c)

Spec == Init /\ [][Next]_vars

\* Timers ring, messages arrive and are served, the tab connects again.
Fairness ==
  /\ WF_vars(Flush) /\ WF_vars(Ring) /\ WF_vars(Receives)
  /\ WF_vars(HearOfCut) /\ WF_vars(Reopen) /\ WF_vars(Serve(up, TRUE))

FairSpec == Spec /\ Fairness

-----------------------------------------------------------------------------
\* A save replaces the text its writer had in front of them and no other,
\* whatever came between while it was under way or at the digest
\* (note-handlers.ts, the two revisions).
NoUnseenOverwrite ==
  [][\A r \in receipts' \ receipts : note.content = r.over]_vars

\* The tab forgets what was typed only if it says nothing new, if the note has
\* taken it, or if the step it was typed in was rolled back
\* (use-note-autosave.ts, accept, flush and stopRolledBackDrafts).
NothingTypedIsLost ==
  [][draft # NoDraft /\ draft' = NoDraft =>
       \/ draft.flight = NoFlight /\ draft.text = draft.base
       \/ draft.phaseRev < phase.rollback
       \/ \E r \in receipts :
            /\ InFlight(r.op) /\ r.content = draft.text
            /\ r.op \in note.kept \/ note.vis = "gone" \/ ~InEffect(r)]_vars

\* A draft that is neither being composed nor put aside for good ends in the
\* room: every save gets its answer and everything typed meanwhile is sent
\* (use-note-autosave.ts, requestStatus and schedule).  That the result of a save
\* is unknown is no end, unless the note can no longer be edited here.
DraftsSettle ==
  draft # NoDraft ~>
    \/ draft = NoDraft \/ draft.composing
    \/ draft.reason \in Final
    \/ draft.reason = "result-unknown" /\ view.ready /\ ~CanContinue(draft, view)
    \/ ~session \/ link = "ended"
=============================================================================
