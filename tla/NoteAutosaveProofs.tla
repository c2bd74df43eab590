-------------------------- MODULE NoteAutosaveProofs --------------------------
(***************************************************************************)
(* Theorems about NoteAutosave, for any texts and any number of inputs,    *)
(* outside events, broken connections and messages under way.              *)
(*                                                                         *)
(* A content revision names a text only until a rollback brings an older   *)
(* one back.  What a draft, a save, a message or the view says of the note *)
(* is therefore said of a phase revision (Known): if the room is still     *)
(* there, the note has gone on from it or is as it was.  This survives     *)
(* whatever the room does (RoomMoves), so it may be late.                  *)
(***************************************************************************)
EXTENDS NoteAutosave, SequenceTheorems, TLAPS

-----------------------------------------------------------------------------
\* What is known of the note n and the phase p.

Contents == [content : Texts, rev : Nat, vis : {"private", "shared", "gone"}]
Notes(last) ==
  [content : Texts, rev : Nat, vis : {"private", "shared", "gone"},
   kept : SUBSET (1 .. last)]
Phases == [step : 1 .. 3, rev : Nat, rollback : Nat]

\* The note has gone on from revision r with text c, or is there.
From(n, r, c) ==
  \/ n.vis = "gone" \/ r < n.rev
  \/ r = n.rev /\ c = n.content

\* The phase came from revision q without a rollback, and saves may go on.
Continues(p, q) == q + 1 = p.rev /\ p.step = 2 /\ p.rollback # p.rev

Known(n, p, q, r, c) ==
  /\ q <= p.rev
  /\ q = p.rev \/ Continues(p, q) => From(n, r, c)

\* The step of phase revision q was s.
StepSeen(p, q, s) ==
  /\ q <= p.rev
  /\ q = p.rev => s = p.step
  /\ q + 1 = p.rev /\ p.step = 2 => (s = 1 <=> p.rollback # p.rev)

\* From note n and phase p the room has gone to m and q.
NoteMoves(n, m) ==
  \/ m.vis = "gone"
  \/ n.vis # "gone" /\ (n.rev < m.rev \/ (n.rev = m.rev /\ n.content = m.content))

RoomMoves(n, p, m, q) ==
  \/ q = p /\ NoteMoves(n, m)
  \/ /\ q.rev = p.rev + 1 /\ q.rollback = p.rollback
     /\ q.step \in {1, p.step + 1} /\ NoteMoves(n, m)
  \/ q.rev = p.rev + 1 /\ q.rollback = q.rev /\ q.step < p.step

-----------------------------------------------------------------------------
\* The invariant.

Receipts == [op : Nat, content : Texts, expRev : Nat, expPhase : Nat,
             rev : Nat, over : Texts]

\* A save that was taken is in the note, unless it was rolled back.
ReceiptOK(r, n, p, last) ==
  /\ r \in Receipts /\ r.op \in 1 .. last /\ r.rev = r.expRev + 1
  /\ r.expPhase <= p.rev
  /\ r.expPhase >= p.rollback =>
       n.vis = "gone" \/ (r.op \in n.kept /\ From(n, r.rev, r.content))

RoomOK ==
  /\ note \in Notes(lastOp)
  /\ phase \in Phases /\ phase.rollback <= phase.rev
  /\ checkpoints \in Seq([step : 1 .. 3, note : Notes(lastOp)])
  /\ \A i \in DOMAIN checkpoints :
       /\ checkpoints[i].step < phase.step
       /\ \A j \in 1 .. i - 1 : checkpoints[j].step < checkpoints[i].step
  /\ \A r \in receipts : ReceiptOK(r, note, phase, lastOp)
  /\ \A r, s \in receipts : r.op = s.op => r = s

\* The view and the draft.
Views == [note : Contents, step : 0 .. 3, rev : Nat, ready : BOOLEAN]
SeesNote(v, n, p) ==
  /\ v \in Views
  /\ v.rev <= p.rev
  /\ v.step # 0 => StepSeen(p, v.rev, v.step)
  /\ v.note.vis # "gone" => Known(n, p, v.rev, v.note.rev, v.note.content)

\* Draft d has sent nothing else under the operation of m.
Agrees(d, m) ==
  d.flight # NoFlight /\ d.flight.op = m.op
  => m.content = d.flight.content /\ m.expPhase = d.flight.expPhase

DraftOK(d, n, p, rc, last) ==
  /\ d \in Drafts
  /\ Known(n, p, d.phaseRev, d.baseRev, d.base)
  /\ StepSeen(p, d.phaseRev, d.step)
  /\ ~d.composing => d.committed = d.text
  /\ d.flight # NoFlight =>
       /\ d.flight.op \in 1 .. last
       /\ d.flight.expRev = d.baseRev /\ d.phaseRev <= d.flight.expPhase
       /\ Known(n, p, d.flight.expPhase, d.flight.expRev, d.flight.over)
  /\ \A r \in rc : Agrees(d, r)

\* The messages to the room.
Requests ==
  [t : {"save"}, op : Nat, content : Texts, expRev : Nat, expPhase : Nat, over : Texts]
  \cup [t : {"status"}, op : Nat] \cup [t : {"publish"}]
Connections == [queue : Seq(Requests), admitted : BOOLEAN]

SaveOK(m, n, p, d, last) ==
  /\ m.op \in 1 .. last
  /\ Known(n, p, m.expPhase, m.expRev, m.over)
  /\ d # NoDraft => Agrees(d, m)

SendsOK(c, n, p, d, last) ==
  /\ c \in Connections
  /\ \A i \in DOMAIN c.queue :
       c.queue[i].t = "save" => SaveOK(c.queue[i], n, p, d, last)

\* The messages to the tab.
Messages ==
  [t : {"snapshot"}, note : Contents, step : 1 .. 3, rev : Nat, rollback : Nat]
  \cup [t : {"phase"}, step : 1 .. 3, rev : Nat]
  \cup [t : {"note"}, note : Contents] \cup [t : {"deleted"}]
  \cup [t : {"saved"}, op : Nat, rev : Nat]
  \cup [t : {"status"}, op : Nat, accepted : BOOLEAN, rev : Nat]
  \cup [t : {"error"}, op : Nat, code : {"forbidden", "content-conflict"}]

SnapshotOK(m, n, p) ==
  /\ m.rev <= p.rev /\ m.rollback <= p.rollback
  /\ StepSeen(p, m.rev, m.step)
  /\ m.note.vis # "gone" => Known(n, p, m.rev, m.note.rev, m.note.content)

Accepts(m) == m.t = "saved" \/ (m.t = "status" /\ m.accepted)

\* Message m tells the truth to a tab that has heard of phase revision q.
Tells(m, q, n, p, rc) ==
  /\ m.t = "note" /\ m.note.vis # "gone" =>
       Known(n, p, q, m.note.rev, m.note.content)
  /\ Accepts(m) =>
       \E r \in rc : r.op = m.op /\ r.rev = m.rev /\ Known(n, p, q, r.rev, r.content)

StreamOK(s, v, n, p, rc) ==
  /\ s \in Seq(Messages)
  /\ \A i \in DOMAIN s :
       /\ s[i].t = "snapshot" => SnapshotOK(s[i], n, p)
       /\ s[i].t = "snapshot" /\ v.ready => v.rev < s[i].rev
       /\ Tells(s[i], v.rev, n, p, rc)
       /\ s[i].t = "phase" /\ i = 1 => v.rev = s[i].rev /\ v.step = s[i].step
       /\ s[i].t = "phase" /\ i # 1 =>
            /\ s[i - 1].t = "snapshot"
            /\ s[i - 1].rev = s[i].rev /\ s[i - 1].step = s[i].step
       /\ \A j \in 1 .. i - 1 : s[j].t = "snapshot" =>
            /\ Tells(s[i], s[j].rev, n, p, rc)
            /\ s[i].t = "snapshot" => s[j].rev < s[i].rev

Flags ==
  /\ session \in BOOLEAN /\ link \in {"synced", "opening", "cut", "ended"}
  /\ active \in BOOLEAN /\ due \in {"no", "timer", "micro"}
  /\ asking \in BOOLEAN /\ waiting \in BOOLEAN /\ lastOp \in Nat
  /\ draft = NoDraft => ~active /\ ~waiting /\ due = "no"
  /\ draft # NoDraft /\ active => draft.composing
  /\ link = "synced" => view.ready
  /\ waiting => view.ready /\ view.step = 2
  /\ inputs \in 0 .. MaxInputs /\ outside \in 0 .. MaxOutside

Inv ==
  /\ RoomOK /\ Flags
  /\ SeesNote(view, note, phase)
  /\ draft # NoDraft => DraftOK(draft, note, phase, receipts, lastOp)
  /\ \A c \in late \cup {up} : SendsOK(c, note, phase, draft, lastOp)
  /\ StreamOK(down, view, note, phase, receipts)

-----------------------------------------------------------------------------
\* What is known stays known.

LEMMA KnownStays ==
  ASSUME NEW n, NEW m, n.rev \in Nat, m.rev \in Nat,
         NEW p \in Phases, NEW q \in Phases, p.rollback <= p.rev,
         RoomMoves(n, p, m, q),
         NEW x \in Nat, NEW r \in Nat, NEW c, Known(n, p, x, r, c)
  PROVE  Known(m, q, x, r, c)
<1> p.rev \in Nat /\ q.rev \in Nat /\ p.step \in 1 .. 3 /\ q.step \in 1 .. 3
    /\ p.rollback \in Nat /\ q.rollback \in Nat
  BY DEF Phases
<1>1. CASE q = p /\ NoteMoves(n, m)
  BY <1>1 DEF Known, NoteMoves, From, Continues
<1>2. CASE /\ q.rev = p.rev + 1 /\ q.rollback = p.rollback
           /\ q.step \in {1, p.step + 1} /\ NoteMoves(n, m)
  BY <1>2 DEF Known, NoteMoves, From, Continues
<1>3. CASE q.rev = p.rev + 1 /\ q.rollback = q.rev /\ q.step < p.step
  BY <1>3 DEF Known, Continues
<1>4. QED BY <1>1, <1>2, <1>3 DEF RoomMoves

LEMMA StepSeenStays ==
  ASSUME NEW n, NEW m,
         NEW p \in Phases, NEW q \in Phases, p.rollback <= p.rev,
         RoomMoves(n, p, m, q),
         NEW x \in Nat, NEW s, StepSeen(p, x, s)
  PROVE  StepSeen(q, x, s)
<1> p.rev \in Nat /\ q.rev \in Nat /\ p.step \in 1 .. 3 /\ q.step \in 1 .. 3
    /\ p.rollback \in Nat /\ q.rollback \in Nat
  BY DEF Phases
<1>1. QED BY DEF RoomMoves, StepSeen

LEMMA KnownBefore ==
  ASSUME NEW n, NEW p \in Phases, NEW x \in Nat, NEW y \in Nat, y <= x,
         NEW r, NEW c, Known(n, p, x, r, c)
  PROVE  Known(n, p, y, r, c)
<1> p.rev \in Nat
  BY DEF Phases
<1>1. QED BY DEF Known, Continues

\* What a draft of personal work knows holds in the sharing that follows.
LEMMA KnownNext ==
  ASSUME NEW n, NEW p \in Phases, NEW x \in Nat,
         NEW r, NEW c, Known(n, p, x, r, c),
         StepSeen(p, x, 1), StepSeen(p, x + 1, 2)
  PROVE  Known(n, p, x + 1, r, c)
<1> p.rev \in Nat
  BY DEF Phases
<1>1. QED BY DEF Known, Continues, StepSeen

\* A revision that is over and one that was not rolled back.
LEMMA TakenIsKnown ==
  ASSUME NEW n, NEW p \in Phases, p.rollback <= p.rev,
         NEW last, NEW r, ReceiptOK(r, n, p, last)
  PROVE  Known(n, p, r.expPhase, r.rev, r.content)
<1> p.rev \in Nat /\ p.rollback \in Nat /\ r.expPhase \in Nat
  BY DEF Phases, ReceiptOK, Receipts
<1>1. QED BY DEF Known, Continues, ReceiptOK, From

-----------------------------------------------------------------------------
\* The room moves: nothing the others know becomes false.

RoomGoes(n, p, m, q) ==
  /\ n.rev \in Nat /\ m.rev \in Nat
  /\ p \in Phases /\ q \in Phases /\ p.rollback <= p.rev
  /\ RoomMoves(n, p, m, q)

LEMMA ViewStays ==
  ASSUME NEW n, NEW m, NEW p, NEW q, RoomGoes(n, p, m, q),
         NEW v, SeesNote(v, n, p)
  PROVE  SeesNote(v, m, q)
<1> p.rev \in Nat /\ q.rev \in Nat /\ v.rev \in Nat /\ v.note.rev \in Nat
  BY DEF RoomGoes, Phases, SeesNote, Views, Contents
<1>1. p.rev <= q.rev
  BY DEF RoomGoes, RoomMoves
<1>2. v.rev <= q.rev
  BY <1>1 DEF SeesNote, Views
<1>3. v.step # 0 => StepSeen(q, v.rev, v.step)
  BY StepSeenStays DEF SeesNote, Views, RoomGoes
<1>4. v.note.vis # "gone" => Known(m, q, v.rev, v.note.rev, v.note.content)
  BY KnownStays DEF SeesNote, Views, RoomGoes
<1>5. QED BY <1>2, <1>3, <1>4 DEF SeesNote, Views

LEMMA DraftStays ==
  ASSUME NEW n, NEW m, NEW p, NEW q, RoomGoes(n, p, m, q), NEW last,
         NEW d, NEW rc, NEW rc2, DraftOK(d, n, p, rc, last),
         \A r \in rc2 \ rc : Agrees(d, r)
  PROVE  DraftOK(d, m, q, rc2, last)
<1> d.phaseRev \in Nat /\ d.baseRev \in Nat /\ d.flight \in Flights \cup {NoFlight}
  BY DEF DraftOK, Drafts
<1>1. Known(m, q, d.phaseRev, d.baseRev, d.base)
  BY KnownStays DEF DraftOK, RoomGoes
<1>2. StepSeen(q, d.phaseRev, d.step)
  BY StepSeenStays DEF DraftOK, RoomGoes
<1>3. ASSUME d.flight # NoFlight
      PROVE  Known(m, q, d.flight.expPhase, d.flight.expRev, d.flight.over)
  <2>1. d.flight.expPhase \in Nat /\ d.flight.expRev \in Nat
    BY <1>3 DEF Flights
  <2>2. QED BY <1>3, <2>1, KnownStays DEF DraftOK, RoomGoes
<1>4. \A r \in rc2 : Agrees(d, r)
  BY DEF DraftOK
<1>5. QED BY <1>1, <1>2, <1>3, <1>4 DEF DraftOK

SavesKnown == \A m \in Requests :
  /\ m.t = "save" =>
       /\ m.op \in Nat /\ m.content \in Texts /\ m.over \in Texts
       /\ m.expRev \in Nat /\ m.expPhase \in Nat
  /\ m.t = "status" => m.op \in Nat

LEMMA SaveTypes == SavesKnown
  BY DEF SavesKnown, Requests

LEMMA SendsStay ==
  ASSUME NEW n, NEW m, NEW p, NEW q, RoomGoes(n, p, m, q), NEW last,
         NEW d, NEW c, SendsOK(c, n, p, d, last)
  PROVE  SendsOK(c, m, q, d, last)
<1>1. c.queue \in Seq(Requests)
  BY DEF SendsOK, Connections
<1>2. ASSUME NEW i \in DOMAIN c.queue, c.queue[i].t = "save"
      PROVE  SaveOK(c.queue[i], m, q, d, last)
  <2>1. c.queue[i] \in Requests
    BY <1>1, <1>2
  <2>2. c.queue[i].expPhase \in Nat /\ c.queue[i].expRev \in Nat
    BY <2>1, <1>2, SaveTypes DEF SavesKnown
  <2>3. QED BY <1>2, <2>2, KnownStays DEF SendsOK, SaveOK, RoomGoes
<1>3. QED BY <1>2 DEF SendsOK

MessagesTyped == \A m \in Messages :
  /\ m.t = "snapshot" => m.note \in Contents /\ m.step \in 1 .. 3 /\ m.rev \in Nat /\ m.rollback \in Nat
  /\ m.t = "phase" => m.step \in 1 .. 3 /\ m.rev \in Nat
  /\ m.t = "note" => m.note \in Contents
  /\ m.t = "saved" => m.op \in Nat /\ m.rev \in Nat
  /\ m.t = "status" => m.op \in Nat /\ m.rev \in Nat /\ m.accepted \in BOOLEAN
  /\ m.t = "error" => m.op \in Nat /\ m.code \in {"forbidden", "content-conflict"}

LEMMA MessageTypes == MessagesTyped
  BY DEF MessagesTyped, Messages

LEMMA TellsStays ==
  ASSUME NEW n, NEW m, NEW p, NEW q, RoomGoes(n, p, m, q),
         NEW rc, NEW rc2, rc \subseteq rc2, \A r \in rc : r.rev \in Nat,
         NEW e \in Messages, NEW x \in Nat, Tells(e, x, n, p, rc)
  PROVE  Tells(e, x, m, q, rc2)
<1>1. ASSUME e.t = "note", e.note.vis # "gone"
      PROVE  Known(m, q, x, e.note.rev, e.note.content)
  <2>1. e.note.rev \in Nat
    BY <1>1, MessageTypes DEF MessagesTyped, Contents
  <2>2. QED BY <1>1, <2>1, KnownStays DEF Tells, RoomGoes
<1>2. ASSUME Accepts(e)
      PROVE  \E r \in rc2 : r.op = e.op /\ r.rev = e.rev /\ Known(m, q, x, r.rev, r.content)
  <2>1. PICK r \in rc : r.op = e.op /\ r.rev = e.rev /\ Known(n, p, x, r.rev, r.content)
    BY <1>2 DEF Tells
  <2>2. Known(m, q, x, r.rev, r.content)
    BY <2>1, KnownStays DEF RoomGoes
  <2>3. QED BY <2>1, <2>2
<1>3. QED BY <1>1, <1>2 DEF Tells

LEMMA StreamStays ==
  ASSUME NEW n, NEW m, NEW p, NEW q, RoomGoes(n, p, m, q),
         NEW rc, NEW rc2, rc \subseteq rc2, \A r \in rc : r.rev \in Nat,
         NEW s, NEW v, v.rev \in Nat, StreamOK(s, v, n, p, rc)
  PROVE  StreamOK(s, v, m, q, rc2)
<1>1. s \in Seq(Messages)
  BY DEF StreamOK
<1>2. ASSUME NEW i \in DOMAIN s, s[i].t = "snapshot"
      PROVE  SnapshotOK(s[i], m, q)
  <2>1. s[i] \in Messages
    BY <1>1
  <2>2. s[i].rev \in Nat /\ s[i].note.rev \in Nat /\ s[i].rollback \in Nat
    BY <1>2, <2>1, MessageTypes DEF MessagesTyped, Contents
  <2>3. SnapshotOK(s[i], n, p)
    BY <1>2 DEF StreamOK
  <2>4. p.rev <= q.rev /\ p.rollback <= q.rollback
    BY DEF RoomGoes, RoomMoves, Phases
  <2>5. s[i].rev <= q.rev /\ s[i].rollback <= q.rollback
    BY <2>2, <2>3, <2>4 DEF SnapshotOK, RoomGoes, Phases
  <2>6. StepSeen(q, s[i].rev, s[i].step)
    BY <2>2, <2>3, StepSeenStays DEF SnapshotOK, RoomGoes
  <2>7. s[i].note.vis # "gone" => Known(m, q, s[i].rev, s[i].note.rev, s[i].note.content)
    BY <2>2, <2>3, KnownStays DEF SnapshotOK, RoomGoes
  <2>8. QED BY <2>5, <2>6, <2>7 DEF SnapshotOK
<1>3. ASSUME NEW i \in DOMAIN s
      PROVE  /\ Tells(s[i], v.rev, m, q, rc2)
             /\ \A j \in 1 .. i - 1 : s[j].t = "snapshot" => Tells(s[i], s[j].rev, m, q, rc2)
  <2>1. s[i] \in Messages
    BY <1>1
  <2>2. Tells(s[i], v.rev, m, q, rc2)
    BY <2>1, TellsStays DEF StreamOK
  <2>3. ASSUME NEW j \in 1 .. i - 1, s[j].t = "snapshot"
        PROVE  Tells(s[i], s[j].rev, m, q, rc2)
    <3>1. j \in DOMAIN s
      BY <1>1
    <3>2. s[j] \in Messages
      BY <1>1, <3>1
    <3>3. s[j].rev \in Nat
      BY <2>3, <3>2, MessageTypes DEF MessagesTyped
    <3>4. Tells(s[i], s[j].rev, n, p, rc)
      BY <2>3 DEF StreamOK
    <3>5. QED BY <2>1, <3>3, <3>4, TellsStays
  <2>4. QED BY <2>2, <2>3
<1>4. QED BY <1>1, <1>2, <1>3 DEF StreamOK

-----------------------------------------------------------------------------
\* What is on its way to the tab.

\* Whatever the tab has heard of by then, message e is true.
News(e, n, p, rc) ==
  e \in Messages /\ \A x \in Nat : x <= p.rev => Tells(e, x, n, p, rc)

Kinds == {"snapshot", "phase"}

LEMMA NothingOnTheWay ==
  ASSUME NEW v, NEW n, NEW p, NEW rc
  PROVE  StreamOK(<<>>, v, n, p, rc)
<1>1. <<>> \in Seq(Messages) /\ DOMAIN <<>> = {}
  OBVIOUS
<1>2. QED BY <1>1 DEF StreamOK

\* What two appended sequences have in common.
LEMMA Appended ==
  ASSUME NEW s \in Seq(Messages), NEW e \in Messages
  PROVE  /\ Append(s, e) \in Seq(Messages)
         /\ Len(s) \in Nat /\ DOMAIN s = 1 .. Len(s)
         /\ DOMAIN Append(s, e) = 1 .. Len(s) + 1
         /\ \A i \in 1 .. Len(s) : Append(s, e)[i] = s[i]
         /\ Append(s, e)[Len(s) + 1] = e
  BY AppendProperties, LenProperties

LEMMA SnapshotsAreOld ==
  ASSUME NEW s, NEW v, NEW n, NEW p, NEW rc, StreamOK(s, v, n, p, rc),
         NEW i \in DOMAIN s, s[i].t = "snapshot"
  PROVE  s[i].rev \in Nat /\ s[i].rev <= p.rev
<1>1. s[i] \in Messages
  BY DEF StreamOK
<1>2. QED BY <1>1, MessageTypes DEF MessagesTyped, StreamOK, SnapshotOK

\* The old messages are as they were; what of the new one is left to show.
LEMMA AppendKeeps ==
  ASSUME NEW s, NEW v, NEW n, NEW p, NEW rc, StreamOK(s, v, n, p, rc),
         v.rev \in Nat, v.rev <= p.rev, NEW e, News(e, n, p, rc),
         e.t = "snapshot" => /\ SnapshotOK(e, n, p)
                             /\ v.ready => v.rev < e.rev
                             /\ \A i \in DOMAIN s : s[i].t = "snapshot" => s[i].rev < e.rev,
         e.t = "phase" => /\ s # <<>> /\ s[Len(s)].t = "snapshot"
                          /\ s[Len(s)].rev = e.rev /\ s[Len(s)].step = e.step
  PROVE  StreamOK(Append(s, e), v, n, p, rc)
<1> DEFINE z == Append(s, e)
<1>1. /\ s \in Seq(Messages) /\ e \in Messages
      /\ z \in Seq(Messages) /\ Len(s) \in Nat /\ DOMAIN s = 1 .. Len(s)
      /\ DOMAIN z = 1 .. Len(s) + 1
      /\ \A i \in 1 .. Len(s) : z[i] = s[i]
      /\ z[Len(s) + 1] = e
  <2>1. s \in Seq(Messages) /\ e \in Messages
    BY DEF StreamOK, News
  <2>2. QED BY <2>1, Appended
<1> HIDE DEF z
<1>2. ASSUME NEW i \in 1 .. Len(s)
      PROVE  /\ z[i].t = "snapshot" => SnapshotOK(z[i], n, p)
             /\ z[i].t = "snapshot" /\ v.ready => v.rev < z[i].rev
             /\ Tells(z[i], v.rev, n, p, rc)
             /\ z[i].t = "phase" /\ i = 1 => v.rev = z[i].rev /\ v.step = z[i].step
             /\ z[i].t = "phase" /\ i # 1 =>
                  /\ z[i - 1].t = "snapshot"
                  /\ z[i - 1].rev = z[i].rev /\ z[i - 1].step = z[i].step
             /\ \A j \in 1 .. i - 1 : z[j].t = "snapshot" =>
                  /\ Tells(z[i], z[j].rev, n, p, rc)
                  /\ z[i].t = "snapshot" => z[j].rev < z[i].rev
  <2>1. i \in DOMAIN s /\ z[i] = s[i]
    BY <1>1
  <2>2. \A j \in 1 .. i - 1 : j \in 1 .. Len(s) /\ z[j] = s[j]
    BY <1>1
  <2>3. i # 1 => z[i - 1] = s[i - 1]
    BY <2>2
  <2>4. QED BY <2>1, <2>2, <2>3 DEF StreamOK
<1>3. ASSUME NEW i, i = Len(s) + 1
      PROVE  /\ z[i].t = "snapshot" => SnapshotOK(z[i], n, p)
             /\ z[i].t = "snapshot" /\ v.ready => v.rev < z[i].rev
             /\ Tells(z[i], v.rev, n, p, rc)
             /\ z[i].t = "phase" /\ i = 1 => v.rev = z[i].rev /\ v.step = z[i].step
             /\ z[i].t = "phase" /\ i # 1 =>
                  /\ z[i - 1].t = "snapshot"
                  /\ z[i - 1].rev = z[i].rev /\ z[i - 1].step = z[i].step
             /\ \A j \in 1 .. i - 1 : z[j].t = "snapshot" =>
                  /\ Tells(z[i], z[j].rev, n, p, rc)
                  /\ z[i].t = "snapshot" => z[j].rev < z[i].rev
  <2>1. z[i] = e
    BY <1>1, <1>3
  <2>2. Tells(e, v.rev, n, p, rc)
    BY DEF News
  <2>3. ASSUME e.t = "phase"
        PROVE  i # 1 /\ z[i - 1] = s[Len(s)]
    <3>1. Len(s) # 0
      BY <1>1, <2>3, EmptySeq
    <3>2. QED BY <1>1, <1>3, <3>1
  <2>4. ASSUME NEW j \in 1 .. i - 1, z[j].t = "snapshot"
        PROVE  /\ Tells(e, z[j].rev, n, p, rc)
               /\ e.t = "snapshot" => z[j].rev < e.rev
    <3>1. j \in DOMAIN s /\ z[j] = s[j]
      BY <1>1, <1>3
    <3>2. s[j].rev \in Nat /\ s[j].rev <= p.rev
      BY <2>4, <3>1, SnapshotsAreOld
    <3>3. QED BY <2>4, <3>1, <3>2 DEF News
  <2>5. QED BY <2>1, <2>2, <2>3, <2>4
<1>4. \A i \in DOMAIN z : i \in 1 .. Len(s) \/ i = Len(s) + 1
  BY <1>1
<1>5. StreamOK(z, v, n, p, rc)
  BY <1>1, <1>2, <1>3, <1>4 DEF StreamOK
<1>6. QED BY <1>5 DEF z

\* The head is taken off: the view hears of its phase revision.
LEMMA TailKeeps ==
  ASSUME NEW s, NEW v, NEW n, NEW p, NEW rc, StreamOK(s, v, n, p, rc),
         s # <<>>, NEW w,
         IF Head(s).t = "snapshot"
         THEN w.rev = Head(s).rev /\ w.step = Head(s).step
         ELSE w.rev = v.rev /\ w.step = v.step /\ (w.ready => v.ready)
  PROVE  StreamOK(Tail(s), w, n, p, rc)
<1> DEFINE z == Tail(s)
<1>1. /\ s \in Seq(Messages) /\ Len(s) \in Nat \ {0} /\ DOMAIN s = 1 .. Len(s)
      /\ z \in Seq(Messages) /\ DOMAIN z = 1 .. Len(s) - 1
      /\ \A i \in 1 .. Len(s) - 1 : z[i] = s[i + 1]
      /\ Head(s) = s[1]
  <2>1. s \in Seq(Messages)
    BY DEF StreamOK
  <2>2. QED BY <2>1, HeadTailProperties, LenProperties, EmptySeq
<1> HIDE DEF z
<1>2. ASSUME NEW i \in 1 .. Len(s) - 1
      PROVE  /\ i + 1 \in DOMAIN s /\ z[i] = s[i + 1] /\ 1 \in 1 .. (i + 1) - 1
             /\ \A j \in 1 .. i - 1 : j + 1 \in 1 .. (i + 1) - 1 /\ z[j] = s[j + 1]
             /\ i # 1 => z[i - 1] = s[i]
             /\ (i + 1) - 1 = i /\ i + 1 # 1
  BY <1>1
<1>3. ASSUME NEW i \in 1 .. Len(s) - 1
      PROVE  /\ z[i].t = "snapshot" => SnapshotOK(z[i], n, p)
             /\ \A j \in 1 .. i - 1 : z[j].t = "snapshot" =>
                  /\ Tells(z[i], z[j].rev, n, p, rc)
                  /\ z[i].t = "snapshot" => z[j].rev < z[i].rev
             /\ z[i].t = "phase" /\ i # 1 =>
                  /\ z[i - 1].t = "snapshot"
                  /\ z[i - 1].rev = z[i].rev /\ z[i - 1].step = z[i].step
  <2>1. z[i].t = "snapshot" => SnapshotOK(z[i], n, p)
    BY <1>2 DEF StreamOK
  <2>2. ASSUME NEW j \in 1 .. i - 1, z[j].t = "snapshot"
        PROVE  /\ Tells(z[i], z[j].rev, n, p, rc)
               /\ z[i].t = "snapshot" => z[j].rev < z[i].rev
    <3>1. i + 1 \in DOMAIN s /\ j + 1 \in 1 .. (i + 1) - 1 /\ z[i] = s[i + 1] /\ z[j] = s[j + 1]
      BY <1>2
    <3>2. QED BY <2>2, <3>1 DEF StreamOK
  <2>3. ASSUME z[i].t = "phase", i # 1
        PROVE  /\ z[i - 1].t = "snapshot"
               /\ z[i - 1].rev = z[i].rev /\ z[i - 1].step = z[i].step
    <3>1. i + 1 \in DOMAIN s /\ z[i] = s[i + 1] /\ z[i - 1] = s[(i + 1) - 1] /\ i + 1 # 1
      BY <1>2, <2>3
    <3>2. QED BY <2>3, <3>1 DEF StreamOK
  <2>4. QED BY <2>1, <2>2, <2>3
<1>4. ASSUME NEW i \in 1 .. Len(s) - 1
      PROVE  /\ z[i].t = "snapshot" /\ w.ready => w.rev < z[i].rev
             /\ Tells(z[i], w.rev, n, p, rc)
             /\ z[i].t = "phase" /\ i = 1 => w.rev = z[i].rev /\ w.step = z[i].step
  <2>1. CASE s[1].t = "snapshot"
    <3>1. w.rev = s[1].rev /\ w.step = s[1].step
      BY <1>1, <2>1
    <3>2. /\ Tells(s[i + 1], s[1].rev, n, p, rc)
          /\ s[i + 1].t = "snapshot" => s[1].rev < s[i + 1].rev
          /\ s[i + 1].t = "phase" => s[i].rev = s[i + 1].rev /\ s[i].step = s[i + 1].step
      BY <1>2, <2>1 DEF StreamOK
    <3>3. QED BY <1>2, <3>1, <3>2
  <2>2. CASE s[1].t # "snapshot"
    <3>1. w.rev = v.rev /\ w.step = v.step /\ (w.ready => v.ready)
      BY <1>1, <2>2
    <3>2. /\ s[i + 1].t = "snapshot" /\ v.ready => v.rev < s[i + 1].rev
          /\ Tells(s[i + 1], v.rev, n, p, rc)
          /\ s[i + 1].t = "phase" => s[i].t = "snapshot"
      BY <1>2 DEF StreamOK
    <3>3. QED BY <1>2, <2>2, <3>1, <3>2
  <2>3. QED BY <2>1, <2>2
<1>5. StreamOK(z, w, n, p, rc)
  BY <1>1, <1>3, <1>4 DEF StreamOK
<1>6. QED BY <1>5 DEF z

LEMMA ViewMayRest ==
  ASSUME NEW s, NEW v, NEW n, NEW p, NEW rc, StreamOK(s, v, n, p, rc),
         NEW w, w.rev = v.rev, w.step = v.step, w.ready => v.ready
  PROVE  StreamOK(s, w, n, p, rc)
  BY DEF StreamOK

-----------------------------------------------------------------------------
\* What the room says is true.

LEMMA NowKnown ==
  ASSUME NEW n, NEW p, NEW r, NEW c, From(n, r, c), NEW x, x <= p.rev
  PROVE  Known(n, p, x, r, c)
  BY DEF Known

LEMMA NoteIsNews ==
  ASSUME NEW n, NEW last, n \in Notes(last), NEW p, NEW rc
  PROVE  News(NoteShown(n), n, p, rc) /\ NoteShown(n).t \notin Kinds
<1> DEFINE e == NoteShown(n)
<1>1. e \in Messages /\ e.t = "note" /\ e.note.rev = n.rev /\ e.note.content = n.content
  BY DEF NoteShown, Shown, Messages, Contents, Notes
<1>2. From(n, e.note.rev, e.note.content)
  BY <1>1 DEF From
<1> HIDE DEF e
<1>3. \A x \in Nat : x <= p.rev => Tells(e, x, n, p, rc)
  BY <1>1, <1>2, NowKnown DEF Tells, Accepts
<1>4. News(e, n, p, rc) /\ e.t \notin Kinds
  BY <1>1, <1>3 DEF News, Kinds
<1>5. QED BY <1>4 DEF e

LEMMA DeletedIsNews ==
  ASSUME NEW n, NEW p, NEW rc
  PROVE  News(Deleted, n, p, rc) /\ Deleted.t \notin Kinds
<1>1. Deleted \in Messages /\ Deleted.t = "deleted"
  BY DEF Deleted, Messages
<1>2. QED BY <1>1 DEF News, Tells, Accepts, Kinds

LEMMA RefusedIsNews ==
  ASSUME NEW n, NEW p, NEW rc, NEW op \in Nat, NEW code \in {"forbidden", "content-conflict"}
  PROVE  News(Refused(op, code), n, p, rc) /\ Refused(op, code).t \notin Kinds
<1>1. Refused(op, code) \in Messages /\ Refused(op, code).t = "error"
  BY DEF Refused, Messages
<1>2. QED BY <1>1 DEF News, Tells, Accepts, Kinds

LEMMA SavedIsNews ==
  ASSUME NEW n, NEW p, NEW rc, NEW r \in rc, r.op \in Nat, r.rev \in Nat,
         From(n, r.rev, r.content)
  PROVE  News(Saved(r.op, r.rev), n, p, rc) /\ Saved(r.op, r.rev).t \notin Kinds
<1> DEFINE e == Saved(r.op, r.rev)
<1>1. e \in Messages /\ e.t = "saved" /\ e.op = r.op /\ e.rev = r.rev
  BY DEF Saved, Messages
<1> HIDE DEF e
<1>2. \A x \in Nat : x <= p.rev => Tells(e, x, n, p, rc)
  BY <1>1, NowKnown DEF Tells
<1>3. News(e, n, p, rc) /\ e.t \notin Kinds
  BY <1>1, <1>2 DEF News, Kinds
<1>4. QED BY <1>3 DEF e

LEMMA StatusIsNews ==
  ASSUME NEW n, NEW p, NEW rc, NEW e, e \in Messages, e.t = "status",
         e.accepted => \E r \in rc : /\ r.op = e.op /\ r.rev = e.rev
                                     /\ From(n, r.rev, r.content)
  PROVE  News(e, n, p, rc) /\ e.t \notin Kinds
<1>1. \A x \in Nat : x <= p.rev => Tells(e, x, n, p, rc)
  BY NowKnown DEF Tells, Accepts
<1>2. QED BY <1>1 DEF News, Kinds

LEMMA SnapshotIsNews ==
  ASSUME NEW n, NEW last, n \in Notes(last), NEW p \in Phases, NEW rc
  PROVE  LET e == Snapshot(n, p)
         IN /\ News(e, n, p, rc) /\ e.t = "snapshot" /\ SnapshotOK(e, n, p)
            /\ e.rev = p.rev /\ e.step = p.step
<1> DEFINE e == Snapshot(n, p)
<1>1. /\ e \in Messages /\ e.t = "snapshot" /\ e.rev = p.rev /\ e.step = p.step
      /\ e.rollback = p.rollback /\ e.note.rev = n.rev /\ e.note.content = n.content
      /\ p.rev \in Nat /\ p.rollback \in Nat
  BY DEF Snapshot, Shown, Messages, Contents, Notes, Phases
<1> HIDE DEF e
<1>2. News(e, n, p, rc)
  BY <1>1 DEF News, Tells, Accepts
<1>3. StepSeen(p, e.rev, e.step)
  BY <1>1 DEF StepSeen
<1>4. Known(n, p, e.rev, e.note.rev, e.note.content)
  BY <1>1 DEF Known, From
<1>5. News(e, n, p, rc) /\ e.t = "snapshot" /\ SnapshotOK(e, n, p)
      /\ e.rev = p.rev /\ e.step = p.step
  BY <1>1, <1>2, <1>3, <1>4 DEF SnapshotOK
<1>6. QED BY <1>5 DEF e

LEMMA PhaseIsNews ==
  ASSUME NEW n, NEW p \in Phases, NEW rc
  PROVE  LET e == PhaseUpdated(p)
         IN News(e, n, p, rc) /\ e.t = "phase" /\ e.rev = p.rev /\ e.step = p.step
<1> DEFINE e == PhaseUpdated(p)
<1>1. e \in Messages /\ e.t = "phase" /\ e.rev = p.rev /\ e.step = p.step
  BY DEF PhaseUpdated, Messages, Phases
<1> HIDE DEF e
<1>2. News(e, n, p, rc)
  BY <1>1 DEF News, Tells, Accepts
<1>3. News(e, n, p, rc) /\ e.t = "phase" /\ e.rev = p.rev /\ e.step = p.step
  BY <1>1, <1>2
<1>4. QED BY <1>3 DEF e

-----------------------------------------------------------------------------
\* Sending.

LEMMA SendOne ==
  ASSUME NEW v, NEW n, NEW p, NEW rc, StreamOK(down, v, n, p, rc),
         v.rev \in Nat, v.rev <= p.rev,
         NEW e, News(e, n, p, rc), e.t \notin Kinds, Send(<<e>>)
  PROVE  StreamOK(down', v, n, p, rc)
<1>1. down \in Seq(Messages)
  BY DEF StreamOK
<1>2. down \o <<e>> = Append(down, e)
  BY <1>1 DEF News
<1>3. StreamOK(Append(down, e), v, n, p, rc)
  BY AppendKeeps DEF Kinds
<1>4. QED BY <1>2, <1>3 DEF Send

LEMMA SendNone ==
  ASSUME NEW v, NEW n, NEW p, NEW rc, StreamOK(down, v, n, p, rc), Send(<<>>)
  PROVE  StreamOK(down', v, n, p, rc)
<1>1. down \in Seq(Messages)
  BY DEF StreamOK
<1>2. down \o <<>> = down
  BY <1>1
<1>3. QED BY <1>2 DEF Send

LEMMA SendTwo ==
  ASSUME NEW v, NEW n, NEW p, NEW rc, StreamOK(down, v, n, p, rc),
         v.rev \in Nat, v.rev <= p.rev,
         NEW e, News(e, n, p, rc), e.t \notin Kinds,
         NEW f, News(f, n, p, rc), f.t \notin Kinds, Send(<<e, f>>)
  PROVE  StreamOK(down', v, n, p, rc)
<1>1. down \in Seq(Messages)
  BY DEF StreamOK
<1>2. down \o <<e, f>> = Append(Append(down, e), f)
  BY <1>1 DEF News
<1>3. StreamOK(Append(down, e), v, n, p, rc)
  BY AppendKeeps DEF Kinds
<1>4. StreamOK(Append(Append(down, e), f), v, n, p, rc)
  BY <1>3, AppendKeeps DEF Kinds
<1>5. QED BY <1>2, <1>4 DEF Send

\* A new phase revision is told by a snapshot, and by a message of its own
\* right after it unless it was a rollback.
LEMMA SendPhase ==
  ASSUME NEW v, NEW n, NEW last, n \in Notes(last), NEW p \in Phases, NEW rc,
         StreamOK(down, v, n, p, rc), v.rev \in Nat, v.rev < p.rev,
         \A i \in DOMAIN down : down[i].t = "snapshot" => down[i].rev < p.rev,
         \/ Send(<<Snapshot(n, p), PhaseUpdated(p)>>) \/ Send(<<Snapshot(n, p)>>)
  PROVE  StreamOK(down', v, n, p, rc)
<1> DEFINE e == Snapshot(n, p)
           f == PhaseUpdated(p)
<1>1. /\ News(e, n, p, rc) /\ e.t = "snapshot" /\ SnapshotOK(e, n, p)
      /\ e.rev = p.rev /\ e.step = p.step
  BY SnapshotIsNews
<1>2. News(f, n, p, rc) /\ f.t = "phase" /\ f.rev = p.rev /\ f.step = p.step
  BY PhaseIsNews
<1> HIDE DEF e, f
<1>3. down \in Seq(Messages) /\ e \in Messages /\ f \in Messages /\ p.rev \in Nat
  BY <1>1, <1>2 DEF StreamOK, News, Phases
<1>4. down \o <<e>> = Append(down, e) /\ down \o <<e, f>> = Append(Append(down, e), f)
  BY <1>3
<1>5. v.rev <= p.rev /\ e.t # "phase" /\ f.t # "snapshot"
  BY <1>1, <1>2, <1>3
<1>6. StreamOK(Append(down, e), v, n, p, rc)
  BY <1>1, <1>5, AppendKeeps
<1>7. LET z == Append(down, e) IN z # <<>> /\ z[Len(z)] = e
  BY <1>3
<1>8. StreamOK(Append(Append(down, e), f), v, n, p, rc)
  BY <1>1, <1>2, <1>5, <1>6, <1>7, AppendKeeps
<1>9. Send(<<e, f>>) \/ Send(<<e>>)
  BY DEF e, f
<1>10. QED BY <1>4, <1>6, <1>8, <1>9 DEF Send

-----------------------------------------------------------------------------
\* The steps of the room.

\* The room has gone on, and what it took was sent by this draft, if at all.
RoomStep ==
  /\ RoomOK' /\ RoomGoes(note, phase, note', phase')
  /\ receipts \subseteq receipts'
  /\ draft # NoDraft => \A r \in receipts' \ receipts : Agrees(draft, r)

\* What everybody knows is then still true.
Remains ==
  /\ SeesNote(view, note', phase')
  /\ draft # NoDraft => DraftOK(draft, note', phase', receipts', lastOp)
  /\ \A c \in late \cup {up} : SendsOK(c, note', phase', draft, lastOp)
  /\ StreamOK(down, view, note', phase', receipts')
  /\ view.rev \in Nat /\ view.rev <= phase'.rev

LEMMA RoomStepKeeps ==
  ASSUME Inv, RoomStep
  PROVE  Remains
<1>1. RoomGoes(note, phase, note', phase')
  BY DEF RoomStep
<1>2. SeesNote(view, note', phase')
  BY <1>1, ViewStays DEF Inv
<1>3. draft # NoDraft => DraftOK(draft, note', phase', receipts', lastOp)
  BY <1>1, DraftStays DEF Inv, RoomStep
<1>4. \A c \in late \cup {up} : SendsOK(c, note', phase', draft, lastOp)
  BY <1>1, SendsStay DEF Inv
<1>5. view.rev \in Nat /\ view.rev <= phase'.rev
  BY <1>2 DEF SeesNote, Views
<1>6. receipts \subseteq receipts' /\ \A r \in receipts : r.rev \in Nat
  BY DEF RoomStep, Inv, RoomOK, ReceiptOK, Receipts
<1>7. StreamOK(down, view, note', phase', receipts')
  BY <1>1, <1>5, <1>6, StreamStays DEF Inv
<1>8. QED BY <1>2, <1>3, <1>4, <1>5, <1>7 DEF Remains

LEMMA ReceiptStays ==
  ASSUME NEW n, NEW m, NEW p, NEW q, RoomGoes(n, p, m, q), NEW last,
         \/ m.vis = "gone" \/ n.kept \subseteq m.kept
         \/ q.rollback = q.rev /\ q.rev = p.rev + 1,
         NEW r, ReceiptOK(r, n, p, last)
  PROVE  ReceiptOK(r, m, q, last)
<1> /\ p.rev \in Nat /\ q.rev \in Nat /\ p.rollback \in Nat /\ q.rollback \in Nat
    /\ n.rev \in Nat /\ m.rev \in Nat /\ r.rev \in Nat /\ r.expPhase \in Nat
  BY DEF RoomGoes, Phases, ReceiptOK, Receipts
<1>1. r.expPhase <= q.rev
  BY DEF RoomGoes, RoomMoves, ReceiptOK
<1>2. ASSUME r.expPhase >= q.rollback
      PROVE  m.vis = "gone" \/ (r.op \in m.kept /\ From(m, r.rev, r.content))
  <2>1. CASE q.rev = p.rev + 1 /\ q.rollback = q.rev
    BY <1>2, <2>1 DEF ReceiptOK
  <2>2. CASE ~(q.rev = p.rev + 1 /\ q.rollback = q.rev)
    <3>1. q.rollback = p.rollback /\ NoteMoves(n, m)
      BY <2>2 DEF RoomGoes, RoomMoves
    <3>2. n.vis = "gone" \/ (r.op \in n.kept /\ From(n, r.rev, r.content))
      BY <1>2, <3>1 DEF ReceiptOK
    <3>3. m.vis = "gone" \/ n.kept \subseteq m.kept
      BY <2>2
    <3>4. QED BY <3>1, <3>2, <3>3 DEF NoteMoves, From
  <2>3. QED BY <2>1, <2>2
<1>3. QED BY <1>1, <1>2 DEF ReceiptOK

\* The note changes in its phase, and no save of this tab is taken.
LEMMA NoteChanges ==
  ASSUME Inv, UNCHANGED <<phase, checkpoints, receipts, lastOp>>,
         note' \in Notes(lastOp), NoteMoves(note, note'),
         note'.vis = "gone" \/ note.kept \subseteq note'.kept
  PROVE  RoomStep
<1>1. RoomGoes(note, phase, note', phase')
  BY DEF RoomGoes, RoomMoves, Inv, RoomOK, Notes
<1>2. ASSUME NEW r \in receipts
      PROVE  ReceiptOK(r, note', phase', lastOp)
  <2>1. ReceiptOK(r, note, phase, lastOp)
    BY DEF Inv, RoomOK
  <2>2. QED BY <1>1, <2>1, ReceiptStays
<1>3. RoomOK'
  BY <1>2 DEF RoomOK, Inv
<1>4. QED BY <1>1, <1>3 DEF RoomStep

LEMMA NoteRests ==
  ASSUME Inv, UNCHANGED <<note, phase, checkpoints, receipts, lastOp>>
  PROVE  RoomStep
<1>1. note \in Notes(lastOp)
  BY DEF Inv, RoomOK
<1>2. NoteMoves(note, note')
  BY DEF NoteMoves
<1>3. QED BY <1>1, <1>2, NoteChanges

-----------------------------------------------------------------------------
\* The room serves a connection.

LEMMA FirstRequest ==
  ASSUME Inv, NEW c \in late \cup {up}, c.queue # <<>>
  PROVE  /\ Head(c.queue) \in Requests
         /\ Head(c.queue).t = "save" =>
              SaveOK(Head(c.queue), note, phase, draft, lastOp)
<1>1. SendsOK(c, note, phase, draft, lastOp)
  BY DEF Inv
<1>2. c.queue \in Seq(Requests)
  BY <1>1 DEF SendsOK, Connections
<1>3. 1 \in DOMAIN c.queue /\ Head(c.queue) = c.queue[1]
  BY <1>2
<1>4. QED BY <1>1, <1>2, <1>3 DEF SendsOK

LEMMA RestOK ==
  ASSUME NEW c, NEW n, NEW p, NEW d, NEW last, SendsOK(c, n, p, d, last), c.queue # <<>>
  PROVE  SendsOK(Rest(c), n, p, d, last)
<1>1. c.queue \in Seq(Requests)
  BY DEF SendsOK, Connections
<1>2. Rest(c) \in Connections /\ Rest(c).queue = Tail(c.queue)
  BY <1>1 DEF Rest, Connections
<1>3. \A i \in DOMAIN Tail(c.queue) :
        i + 1 \in DOMAIN c.queue /\ Tail(c.queue)[i] = c.queue[i + 1]
  BY <1>1
<1>4. QED BY <1>2, <1>3 DEF SendsOK

LEMMA AdmittedOK ==
  ASSUME NEW c, NEW n, NEW p, NEW d, NEW last, SendsOK(c, n, p, d, last)
  PROVE  SendsOK([c EXCEPT !.admitted = TRUE], n, p, d, last)
<1>1. c \in Connections
  BY DEF SendsOK
<1>2. [c EXCEPT !.admitted = TRUE] \in Connections
      /\ [c EXCEPT !.admitted = TRUE].queue = c.queue
  BY <1>1 DEF Connections
<1>3. QED BY <1>2 DEF SendsOK

LEMMA Proceeds ==
  ASSUME Remains, NEW c \in late \cup {up}, NEW live \in BOOLEAN, live => c = up,
         NEW d, SendsOK(d, note', phase', draft, lastOp), Proceed(c, live, d)
  PROVE  \A x \in late' \cup {up'} : SendsOK(x, note', phase', draft, lastOp)
<1>1. \A x \in late' \cup {up'} : x = d \/ x \in late \cup {up}
  BY DEF Proceed
<1>2. QED BY <1>1 DEF Remains

\* What is left to show of a step in which only the room and the connections act.
LEMMA RoomKeeps ==
  ASSUME Inv, RoomStep, Remains, UNCHANGED <<tab, inputs>>,
         session' \in BOOLEAN, link' = link, outside' \in 0 .. MaxOutside,
         StreamOK(down', view, note', phase', receipts'),
         \A x \in late' \cup {up'} : SendsOK(x, note', phase', draft, lastOp)
  PROVE  Inv'
<1>1. Flags'
  BY DEF Inv, Flags, tab
<1>2. RoomOK' /\ SeesNote(view, note, phase)'
      /\ (draft # NoDraft => DraftOK(draft, note, phase, receipts, lastOp))'
  BY DEF RoomStep, Remains, tab
<1>3. QED BY <1>1, <1>2 DEF Inv, tab

LEMMA OutsideOK ==
  ASSUME Inv, Around \/ UNCHANGED outside
  PROVE  outside' \in 0 .. MaxOutside
  BY BoundsAssumption DEF Inv, Flags, Around

LEMMA ReplyOK ==
  ASSUME NEW live \in BOOLEAN, NEW e, Send(Reply(live, e)), Remains,
         News(e, note', phase', receipts'), e.t \notin Kinds
  PROVE  StreamOK(down', view, note', phase', receipts')
<1>1. CASE live
  BY <1>1, SendOne DEF Remains, Reply
<1>2. CASE ~live
  BY <1>2, SendNone DEF Remains, Reply
<1>3. QED BY <1>1, <1>2

LEMMA AdmitKeeps ==
  ASSUME Inv, NEW c \in late \cup {up}, NEW live \in BOOLEAN, live => c = up,
         Admit(c, live)
  PROVE  Inv'
<1>1. UNCHANGED <<note, phase, checkpoints, receipts, session, link, tab, inputs, outside>>
  BY DEF Admit, Aside
<1>2. RoomStep
  BY <1>1, NoteRests DEF tab
<1>3. Remains
  BY <1>2, RoomStepKeeps
<1>4. SendsOK(c, note', phase', draft, lastOp) /\ c.queue # <<>>
  BY <1>3 DEF Remains, Admit, Served
<1>5. Head(c.queue) \in Requests /\ Head(c.queue).t = "save"
  BY <1>4, FirstRequest DEF Admit, Served
<1>6. Head(c.queue).op \in Nat
  BY <1>5, SaveTypes DEF SavesKnown
<1>7. CASE phase.step < 3
  <2>1. Proceed(c, live, [c EXCEPT !.admitted = TRUE]) /\ down' = down
    BY <1>7 DEF Admit, Inv, RoomOK, Phases
  <2>2. \A x \in late' \cup {up'} : SendsOK(x, note', phase', draft, lastOp)
    BY <1>3, <1>4, <2>1, AdmittedOK, Proceeds
  <2>3. QED BY <1>1, <1>2, <1>3, <2>1, <2>2, OutsideOK, RoomKeeps DEF Remains, Inv, Flags
<1>8. CASE phase.step = 3
  <2>1. Proceed(c, live, Rest(c)) /\ Send(Reply(live, Refused(Head(c.queue).op, "forbidden")))
    BY <1>8 DEF Admit
  <2>2. \A x \in late' \cup {up'} : SendsOK(x, note', phase', draft, lastOp)
    BY <1>3, <1>4, <2>1, RestOK, Proceeds
  <2>3. StreamOK(down', view, note', phase', receipts')
    BY <1>3, <1>6, <2>1, RefusedIsNews, ReplyOK
  <2>4. QED BY <1>1, <1>2, <1>3, <2>2, <2>3, OutsideOK, RoomKeeps DEF Inv, Flags
<1>9. QED BY <1>7, <1>8 DEF Admit

LEMMA DenyKeeps ==
  ASSUME Inv, NEW c \in late \cup {up}, NEW live \in BOOLEAN, live => c = up,
         Deny(c, live)
  PROVE  Inv'
<1>1. UNCHANGED <<note, phase, checkpoints, receipts, session, link, tab, inputs>> /\ Around
  BY DEF Deny, Aside
<1>2. RoomStep
  BY <1>1, NoteRests DEF tab
<1>3. Remains
  BY <1>2, RoomStepKeeps
<1>4. SendsOK(c, note', phase', draft, lastOp) /\ c.queue # <<>>
  BY <1>3 DEF Remains, Deny
<1>5. \A x \in late' \cup {up'} : SendsOK(x, note', phase', draft, lastOp)
  BY <1>3, <1>4, RestOK, Proceeds DEF Deny
<1>6. StreamOK(down', view, note', phase', receipts')
  <2>1. CASE Head(c.queue).t = "save"
    <3>1. Head(c.queue).op \in Nat
      BY <1>4, <2>1, FirstRequest, SaveTypes DEF SavesKnown
    <3>2. Send(Reply(live, Refused(Head(c.queue).op, "forbidden")))
      BY <2>1 DEF Deny
    <3>3. QED BY <1>3, <3>1, <3>2, RefusedIsNews, ReplyOK
  <2>2. CASE Head(c.queue).t # "save"
    BY <1>3, <2>2 DEF Deny, Remains
  <2>3. QED BY <2>1, <2>2
<1>7. QED BY <1>1, <1>2, <1>3, <1>5, <1>6, OutsideOK, RoomKeeps DEF Inv, Flags

\* The save is taken: nobody wrote since its author looked.
LEMMA TakenStep ==
  ASSUME Inv, NEW m, m \in Requests, m.t = "save", SaveOK(m, note, phase, draft, lastOp),
         Writable, Prior(m) = {}, Untouched(m), UNCHANGED <<phase, checkpoints, lastOp>>,
         note' \in Notes(lastOp), note'.content = m.content, note'.rev = note.rev + 1,
         note'.vis = note.vis, note'.kept = note.kept \cup {m.op},
         NEW r \in Receipts, r.op = m.op, r.content = m.content, r.expRev = m.expRev,
         r.expPhase = m.expPhase, r.rev = note'.rev, receipts' = receipts \cup {r}
  PROVE  RoomStep /\ From(note', r.rev, r.content) /\ note.content = m.over
<1>1. /\ note \in Notes(lastOp) /\ phase \in Phases /\ phase.rollback <= phase.rev
      /\ note.rev \in Nat /\ phase.rev \in Nat
      /\ m.op \in Nat /\ m.content \in Texts /\ m.expRev \in Nat /\ m.expPhase \in Nat
      /\ m.over \in Texts /\ m.op \in 1 .. lastOp
  BY SaveTypes DEF SavesKnown, Inv, RoomOK, Notes, Phases, SaveOK
<1>2. /\ note' \in Notes(lastOp) /\ note'.content = m.content
      /\ note'.rev = note.rev + 1 /\ note'.kept = note.kept \cup {m.op}
      /\ note'.vis = note.vis /\ note.vis # "gone"
  BY DEF Writable
<1>3. RoomGoes(note, phase, note', phase')
  BY <1>1, <1>2 DEF RoomGoes, RoomMoves, NoteMoves
<1>4. r \in Receipts /\ r.op = m.op /\ r.content = m.content /\ r.expRev = note.rev
      /\ r.expPhase = phase.rev /\ r.rev = note.rev + 1
  BY <1>2 DEF Untouched
<1>5. From(note', r.rev, r.content)
  BY <1>2, <1>4 DEF From
<1>6. ReceiptOK(r, note', phase', lastOp)
  BY <1>1, <1>2, <1>4, <1>5 DEF ReceiptOK
<1>7. ASSUME NEW s \in receipts
      PROVE  ReceiptOK(s, note', phase', lastOp) /\ s.op # m.op
  <2>1. ReceiptOK(s, note, phase, lastOp)
    BY DEF Inv, RoomOK
  <2>2. ReceiptOK(s, note', phase', lastOp)
    BY <1>2, <1>3, <2>1, ReceiptStays
  <2>3. QED BY <2>2 DEF Prior
<1>8. RoomOK'
  <2>1. \A s \in receipts' : ReceiptOK(s, note', phase', lastOp)
    BY <1>6, <1>7
  <2>2. \A s, x \in receipts' : s.op = x.op => s = x
    BY <1>4, <1>7 DEF Inv, RoomOK
  <2>3. QED BY <1>1, <1>2, <2>1, <2>2 DEF RoomOK, Inv
<1>9. draft # NoDraft => \A s \in receipts' \ receipts : Agrees(draft, s)
  <2>1. SUFFICES ASSUME draft # NoDraft PROVE Agrees(draft, r)
    OBVIOUS
  <2>2. Agrees(draft, m)
    BY <2>1 DEF SaveOK
  <2>3. r.expPhase = m.expPhase
    BY <1>4 DEF Untouched
  <2>4. QED BY <1>4, <2>2, <2>3 DEF Agrees
<1>10. note.content = m.over
  BY <1>1, <1>2 DEF SaveOK, Known, From, Untouched
<1>11. QED BY <1>3, <1>5, <1>8, <1>9, <1>10 DEF RoomStep

LEMMA SendWithReply ==
  ASSUME NEW v, NEW n, NEW p, NEW rc, StreamOK(down, v, n, p, rc),
         v.rev \in Nat, v.rev <= p.rev,
         NEW e, News(e, n, p, rc), e.t \notin Kinds,
         NEW f, News(f, n, p, rc), f.t \notin Kinds,
         NEW live \in BOOLEAN, Send(<<e>> \o Reply(live, f))
  PROVE  StreamOK(down', v, n, p, rc)
<1> DEFINE s == <<e>>
           u == Reply(live, f)
<1>1. down \in Seq(Messages) /\ e \in Messages /\ f \in Messages
  BY DEF StreamOK, News
<1>2. s \in Seq(Messages)
  BY <1>1
<1>3. u \in Seq(Messages) /\ (u = <<f>> \/ u = <<>>)
  BY <1>1 DEF Reply
<1>4. down \o s = Append(down, e)
  BY <1>1
<1>5. Send(s \o u)
  OBVIOUS
<1> HIDE DEF s, u
<1>6. down \o (s \o u) = (down \o s) \o u
  BY <1>1, <1>2, <1>3, ConcatAssociative, SMTT(60)
<1>7. StreamOK(Append(down, e), v, n, p, rc)
  BY AppendKeeps DEF Kinds
<1> DEFINE d == Append(down, e)
<1>8. StreamOK(d \o u, v, n, p, rc)
  <2>1. d \in Seq(Messages) /\ StreamOK(d, v, n, p, rc)
    BY <1>7 DEF StreamOK
  <2> HIDE DEF d
  <2>2. d \o <<f>> = Append(d, f)
    BY <1>1, <2>1
  <2>3. d \o <<>> = d
    BY <2>1
  <2>4. StreamOK(Append(d, f), v, n, p, rc)
    BY <2>1, AppendKeeps DEF Kinds
  <2>5. QED BY <1>3, <2>1, <2>2, <2>3, <2>4
<1>9. QED BY <1>4, <1>5, <1>6, <1>8 DEF Send

LEMMA SaveContentKeeps ==
  ASSUME Inv, NEW c \in late \cup {up}, NEW live \in BOOLEAN, live => c = up,
         SaveContent(c, live)
  PROVE  Inv' /\ \A r \in receipts' \ receipts : note.content = r.over
<1> DEFINE m == Head(c.queue)
           r == [op |-> m.op, content |-> m.content, expRev |-> m.expRev,
                 expPhase |-> m.expPhase, rev |-> note'.rev, over |-> m.over]
<1>1. /\ UNCHANGED <<phase, checkpoints, session, link, tab, inputs, outside>>
      /\ c.queue # <<>> /\ m.t = "save" /\ Proceed(c, live, Rest(c))
  BY DEF SaveContent, Aside, Served
<1>2. \/ /\ Writable /\ Prior(m) = {} /\ Untouched(m)
         /\ note' = [note EXCEPT !.content = m.content, !.rev = @ + 1, !.kept = @ \cup {m.op}]
         /\ receipts' = receipts \cup {r}
         /\ Send(<<NoteShown(note')>> \o Reply(live, Saved(m.op, note'.rev)))
      \/ Send(Reply(live, Verdict(m))) /\ UNCHANGED <<note, receipts>>
  BY DEF SaveContent
<1>3. m \in Requests /\ SaveOK(m, note, phase, draft, lastOp)
  BY <1>1, FirstRequest
<1>4. m.op \in Nat
  BY <1>1, <1>3, SaveTypes DEF SavesKnown
<1>5. lastOp' = lastOp
  BY <1>1 DEF tab
<1> HIDE DEF m
<1>6. ASSUME RoomStep, StreamOK(down', view, note', phase', receipts')
      PROVE  Inv'
  <2>1. Remains
    BY <1>6, RoomStepKeeps
  <2>2. SendsOK(c, note', phase', draft, lastOp)
    BY <2>1 DEF Remains
  <2>3. SendsOK(Rest(c), note', phase', draft, lastOp)
    BY <1>1, <2>2, RestOK
  <2>4. \A x \in late' \cup {up'} : SendsOK(x, note', phase', draft, lastOp)
    BY <1>1, <2>1, <2>3, Proceeds
  <2>5. session' \in BOOLEAN /\ outside' \in 0 .. MaxOutside
    BY <1>1 DEF Inv, Flags
  <2>6. QED BY <1>1, <1>6, <2>1, <2>4, <2>5, RoomKeeps
<1>7. CASE /\ Writable /\ Prior(m) = {} /\ Untouched(m)
           /\ note' = [note EXCEPT !.content = m.content, !.rev = @ + 1, !.kept = @ \cup {m.op}]
           /\ receipts' = receipts \cup {r}
           /\ Send(<<NoteShown(note')>> \o Reply(live, Saved(m.op, note'.rev)))
  <2>a. /\ m.content \in Texts /\ m.expRev \in Nat /\ m.expPhase \in Nat /\ m.over \in Texts
        /\ m.op \in 1 .. lastOp /\ note \in Notes(lastOp)
    BY <1>1, <1>3, SaveTypes DEF SavesKnown, SaveOK, Inv, RoomOK
  <2>b. /\ note' = [content |-> m.content, rev |-> note.rev + 1, vis |-> note.vis,
                    kept |-> note.kept \cup {m.op}]
        /\ note.rev \in Nat /\ note.vis \in {"private", "shared", "gone"}
        /\ note.kept \cup {m.op} \in SUBSET (1 .. lastOp)
    BY <1>7, <2>a DEF Notes
  <2>c. [content |-> m.content, rev |-> note.rev + 1, vis |-> note.vis,
         kept |-> note.kept \cup {m.op}] \in Notes(lastOp)
    <3> DEFINE k == note.kept \cup {m.op}
    <3>1. k \in SUBSET (1 .. lastOp) /\ note.rev + 1 \in Nat
      BY <2>b
    <3> HIDE DEF k
    <3>2. [content |-> m.content, rev |-> note.rev + 1, vis |-> note.vis, kept |-> k]
            \in Notes(lastOp)
      BY <2>a, <2>b, <3>1 DEF Notes
    <3>3. QED BY <3>2 DEF k
  <2>d. /\ note' \in Notes(lastOp) /\ note'.content = m.content /\ note'.rev = note.rev + 1
        /\ note'.vis = note.vis /\ note'.kept = note.kept \cup {m.op}
        /\ note'.rev \in Nat
    BY <2>b, <2>c
  <2>2. /\ r.op = m.op /\ r.content = m.content /\ r.expRev = m.expRev
        /\ r.expPhase = m.expPhase /\ r.rev = note'.rev /\ r.over = m.over
        /\ receipts' = receipts \cup {r} /\ r \in Receipts
    BY <1>4, <1>7, <2>a, <2>d DEF Receipts
  <2> HIDE DEF r
  <2>1. RoomStep /\ From(note', r.rev, r.content) /\ note.content = m.over
    BY <1>1, <1>3, <1>5, <1>7, <2>d, <2>2, TakenStep
  <2>3. note' \in Notes(lastOp) /\ note'.rev \in Nat
    BY <2>1, <1>5 DEF RoomStep, RoomOK, Notes
  <2>4. News(NoteShown(note'), note', phase', receipts') /\ NoteShown(note').t \notin Kinds
    BY <2>3, NoteIsNews
  <2>5. /\ News(Saved(r.op, r.rev), note', phase', receipts')
        /\ Saved(r.op, r.rev).t \notin Kinds
    BY <1>4, <2>1, <2>2, <2>3, SavedIsNews
  <2>6. Remains
    BY <2>1, RoomStepKeeps
  <2>7. Send(<<NoteShown(note')>> \o Reply(live, Saved(r.op, r.rev)))
    BY <1>7, <2>2
  <2>8. StreamOK(down', view, note', phase', receipts')
    BY <2>4, <2>5, <2>6, <2>7, SendWithReply DEF Remains
  <2>9. QED BY <1>6, <1>7, <2>1, <2>2, <2>8
<1>8. CASE Send(Reply(live, Verdict(m))) /\ UNCHANGED <<note, receipts>>
  <2>1. RoomStep
    BY <1>1, <1>5, <1>8, NoteRests
  <2>2. Remains
    BY <2>1, RoomStepKeeps
  <2>3. News(Verdict(m), note', phase', receipts') /\ Verdict(m).t \notin Kinds
    <3>1. CASE \E s \in Prior(m) : InEffect(s)
      <4>1. CASE Writable
        <5>1. PICK s \in Prior(m) : InEffect(s)
          BY <3>1
        <5>2. (CHOOSE x \in Prior(m) : TRUE) = s
          BY <5>1 DEF Prior, Inv, RoomOK
        <5>3. Verdict(m) = Saved(s.op, s.rev)
          BY <3>1, <4>1, <5>1, <5>2 DEF Verdict, Prior
        <5>4. s \in receipts /\ ReceiptOK(s, note, phase, lastOp)
          BY <5>1 DEF Prior, Inv, RoomOK
        <5>5. s.op \in Nat /\ s.rev \in Nat /\ From(note, s.rev, s.content)
          BY <5>1, <5>4 DEF ReceiptOK, Receipts, InEffect, From
        <5>6. s \in receipts' /\ From(note', s.rev, s.content)
          BY <1>8, <5>4, <5>5
        <5>7. QED BY <5>3, <5>5, <5>6, SavedIsNews
      <4>2. CASE ~Writable
        <5>1. Verdict(m) = Refused(m.op, "forbidden")
          BY <4>2 DEF Verdict
        <5>2. QED BY <1>4, <5>1, RefusedIsNews
      <4>3. QED BY <4>1, <4>2
    <3>2. CASE ~\E s \in Prior(m) : InEffect(s)
      <4>1. \E code \in {"forbidden", "content-conflict"} : Verdict(m) = Refused(m.op, code)
        BY <3>2 DEF Verdict
      <4>2. QED BY <1>4, <4>1, RefusedIsNews
    <3>3. QED BY <3>1, <3>2
  <2>4. StreamOK(down', view, note', phase', receipts')
    BY <1>8, <2>2, <2>3, ReplyOK
  <2>5. QED BY <1>6, <1>8, <2>1, <2>4
<1>9. QED BY <1>2, <1>7, <1>8

LEMMA ContentStatusKeeps ==
  ASSUME Inv, NEW c \in late \cup {up}, NEW live \in BOOLEAN, live => c = up,
         ContentStatus(c, live)
  PROVE  Inv'
<1> DEFINE m == Head(c.queue)
           known == {r \in Prior(m) : InEffect(r)}
           e == [t |-> "status", op |-> m.op, accepted |-> known # {},
                 rev |-> IF known = {} THEN 0 ELSE (CHOOSE r \in known : TRUE).rev]
<1>1. UNCHANGED <<note, phase, checkpoints, receipts, session, link, tab, inputs, outside>>
  BY DEF ContentStatus, Aside
<1>2. c.queue # <<>> /\ m.t = "status" /\ Proceed(c, live, Rest(c)) /\ Send(Reply(live, e))
  BY DEF ContentStatus, Served
<1>3. RoomStep
  BY <1>1, NoteRests DEF tab
<1>4. Remains
  BY <1>3, RoomStepKeeps
<1>5. m.op \in Nat
  BY <1>2, FirstRequest, SaveTypes DEF SavesKnown
<1> HIDE DEF m
<1>6. \A r \in known : /\ r \in receipts /\ r.op = m.op /\ r.rev \in Nat
                       /\ From(note, r.rev, r.content)
  BY DEF Prior, InEffect, Inv, RoomOK, ReceiptOK, Receipts, From
<1> HIDE DEF known
<1>7. /\ e.t = "status" /\ e.op = m.op /\ e.accepted = (known # {})
      /\ known = {} => e.rev = 0
      /\ known # {} => e.rev = (CHOOSE r \in known : TRUE).rev
  OBVIOUS
<1>8. e.accepted => \E r \in receipts' : /\ r.op = e.op /\ r.rev = e.rev
                                         /\ From(note', r.rev, r.content)
  BY <1>1, <1>6, <1>7
<1>9. e \in Messages
  <2>1. e.rev \in Nat
    BY <1>6, <1>7
  <2>2. [t |-> "status", op |-> m.op, accepted |-> known # {}, rev |-> e.rev] \in Messages
    BY <1>5, <2>1 DEF Messages
  <2>3. QED BY <2>2
<1> HIDE DEF e
<1>10. News(e, note', phase', receipts') /\ e.t \notin Kinds
  BY <1>7, <1>8, <1>9, StatusIsNews
<1>11. StreamOK(down', view, note', phase', receipts')
  BY <1>2, <1>4, <1>10, ReplyOK
<1>12. SendsOK(Rest(c), note', phase', draft, lastOp)
  BY <1>2, <1>4, RestOK DEF Remains
<1>13. \A x \in late' \cup {up'} : SendsOK(x, note', phase', draft, lastOp)
  BY <1>2, <1>4, <1>12, Proceeds
<1>14. QED BY <1>1, <1>3, <1>4, <1>11, <1>13, RoomKeeps DEF Inv, Flags

LEMMA PublishKeeps ==
  ASSUME Inv, NEW c \in late \cup {up}, NEW live \in BOOLEAN, live => c = up,
         Publish(c, live)
  PROVE  Inv'
<1>1. /\ UNCHANGED <<phase, checkpoints, receipts, session, link, tab, inputs, outside>>
      /\ c.queue # <<>> /\ Proceed(c, live, Rest(c)) /\ lastOp' = lastOp
  BY DEF Publish, Aside, Served, tab
<1>2. RoomStep /\ (down' = down \/ Send(<<NoteShown(note')>>))
  <2>1. CASE note.vis = "private" /\ note' = [note EXCEPT !.vis = "shared"]
                /\ Send(<<NoteShown(note')>>)
    <3>1. note \in Notes(lastOp)
      BY DEF Inv, RoomOK
    <3>2. /\ note' \in Notes(lastOp) /\ note'.rev = note.rev
          /\ note'.content = note.content /\ note'.kept = note.kept
      BY <2>1, <3>1 DEF Notes
    <3>3. NoteMoves(note, note')
      BY <2>1, <3>2 DEF NoteMoves
    <3>4. QED BY <1>1, <2>1, <3>2, <3>3, NoteChanges
  <2>2. CASE UNCHANGED <<note, down>>
    BY <1>1, <2>2, NoteRests
  <2>3. QED BY <2>1, <2>2 DEF Publish
<1>3. Remains
  BY <1>2, RoomStepKeeps
<1>4. StreamOK(down', view, note', phase', receipts')
  <2>1. note' \in Notes(lastOp)
    BY <1>1, <1>2 DEF RoomStep, RoomOK
  <2>2. News(NoteShown(note'), note', phase', receipts') /\ NoteShown(note').t \notin Kinds
    BY <2>1, NoteIsNews
  <2>3. CASE Send(<<NoteShown(note')>>)
    BY <1>3, <2>2, <2>3, SendOne DEF Remains
  <2>4. CASE down' = down
    BY <1>3, <2>4 DEF Remains
  <2>5. QED BY <1>2, <2>3, <2>4
<1>5. SendsOK(Rest(c), note', phase', draft, lastOp)
  BY <1>1, <1>3, RestOK DEF Remains
<1>6. \A x \in late' \cup {up'} : SendsOK(x, note', phase', draft, lastOp)
  BY <1>1, <1>3, <1>5, Proceeds
<1>7. QED BY <1>1, <1>2, <1>3, <1>4, <1>6, RoomKeeps DEF Inv, Flags

LEMMA LateLostKeeps ==
  ASSUME Inv, NEW c \in late, LateLost(c)
  PROVE  Inv'
<1>1. /\ UNCHANGED <<note, phase, checkpoints, receipts, session, link, up, down, tab, inputs, outside>>
      /\ late' = late \ {c}
  BY DEF LateLost, room
<1>2. RoomStep
  BY <1>1, NoteRests DEF tab
<1>3. Remains
  BY <1>2, RoomStepKeeps
<1>4. \A x \in late' \cup {up'} : SendsOK(x, note', phase', draft, lastOp)
  BY <1>1, <1>3 DEF Remains
<1>5. QED BY <1>1, <1>2, <1>3, <1>4, RoomKeeps DEF Inv, Flags, Remains

-----------------------------------------------------------------------------
\* Everybody else.

LEMMA ElsewhereKeeps ==
  ASSUME Inv, Elsewhere, RoomStep, Remains,
         StreamOK(down', view, note', phase', receipts')
  PROVE  Inv'
<1>1. UNCHANGED <<session, link, up, late, tab, inputs>> /\ Around
  BY DEF Elsewhere
<1>2. \A x \in late' \cup {up'} : SendsOK(x, note', phase', draft, lastOp)
  BY <1>1 DEF Remains
<1>3. QED BY <1>1, <1>2, OutsideOK, RoomKeeps DEF Inv, Flags

\* A new text, or the same for others to see.
LEMMA OthersChange ==
  ASSUME Inv, Elsewhere, UNCHANGED <<phase, checkpoints, receipts>>,
         note' \in Notes(lastOp), NoteMoves(note, note'), note.kept \subseteq note'.kept,
         Send(<<NoteShown(note')>>) \/ Send(<<Deleted, NoteShown(note')>>)
  PROVE  Inv'
<1>1. lastOp' = lastOp
  BY DEF Elsewhere, tab
<1>2. RoomStep
  BY <1>1, NoteChanges
<1>3. Remains
  BY <1>2, RoomStepKeeps
<1>4. News(NoteShown(note'), note', phase', receipts') /\ NoteShown(note').t \notin Kinds
  BY NoteIsNews
<1>5. News(Deleted, note', phase', receipts') /\ Deleted.t \notin Kinds
  BY DeletedIsNews
<1>6. StreamOK(down', view, note', phase', receipts')
  <2>1. CASE Send(<<NoteShown(note')>>)
    BY <1>3, <1>4, <2>1, SendOne DEF Remains
  <2>2. CASE Send(<<Deleted, NoteShown(note')>>)
    BY <1>3, <1>4, <1>5, <2>2, SendTwo DEF Remains
  <2>3. QED BY <2>1, <2>2
<1>7. QED BY <1>2, <1>3, <1>6, ElsewhereKeeps

LEMMA OthersSaveKeeps ==
  ASSUME Inv, NEW text \in Texts, OthersSave(text)
  PROVE  Inv'
<1>1. note \in Notes(lastOp) /\ note' = [note EXCEPT !.content = text, !.rev = note.rev + 1]
  BY DEF OthersSave, Inv, RoomOK
<1>2. /\ note' \in Notes(lastOp) /\ note'.rev = note.rev + 1 /\ note'.vis = note.vis
      /\ note'.kept = note.kept /\ note.rev \in Nat
  <2>1. /\ note' = [content |-> text, rev |-> note.rev + 1, vis |-> note.vis,
                    kept |-> note.kept]
        /\ note.rev \in Nat /\ note.vis \in {"private", "shared", "gone"}
        /\ note.kept \in SUBSET (1 .. lastOp)
    BY <1>1 DEF Notes
  <2>2. [content |-> text, rev |-> note.rev + 1, vis |-> note.vis, kept |-> note.kept]
          \in Notes(lastOp)
    BY <2>1 DEF Notes
  <2>3. QED BY <2>1, <2>2
<1>3. NoteMoves(note, note')
  BY <1>2 DEF NoteMoves
<1>4. Elsewhere /\ UNCHANGED <<phase, checkpoints, receipts>> /\ Send(<<NoteShown(note')>>)
  BY DEF OthersSave
<1>5. QED BY <1>2, <1>3, <1>4, OthersChange

LEMMA ShareElsewhereKeeps ==
  ASSUME Inv, ShareElsewhere
  PROVE  Inv'
<1>1. note \in Notes(lastOp)
  BY DEF Inv, RoomOK
<1>2. \/ note.vis = "private" /\ note' = [note EXCEPT !.vis = "shared"]
      \/ note.vis = "shared" /\ note' = [note EXCEPT !.vis = "private"]
  BY DEF ShareElsewhere
<1>3. /\ note' \in Notes(lastOp) /\ note'.rev = note.rev /\ note'.content = note.content
      /\ note'.kept = note.kept /\ note.vis # "gone"
  BY <1>1, <1>2 DEF Notes
<1>4. NoteMoves(note, note')
  BY <1>3 DEF NoteMoves
<1>5. /\ Elsewhere /\ UNCHANGED <<phase, checkpoints, receipts>>
      /\ Send(<<NoteShown(note')>>) \/ Send(<<Deleted, NoteShown(note')>>)
  BY DEF ShareElsewhere
<1>6. QED BY <1>3, <1>4, <1>5, OthersChange

LEMMA NoNote ==
  ASSUME NEW last \in Nat
  PROVE  Gone \in Notes(last) /\ Gone.vis = "gone"
  BY BlankIsText DEF Gone, Notes

LEMMA DeleteKeeps ==
  ASSUME Inv, Delete
  PROVE  Inv'
<1>1. /\ Elsewhere /\ UNCHANGED <<phase, checkpoints, receipts>>
      /\ note' = Gone /\ Send(<<Deleted>>) /\ lastOp' = lastOp
  BY DEF Delete, Elsewhere, tab
<1>2. note' \in Notes(lastOp) /\ note'.vis = "gone"
  BY <1>1, NoNote DEF Inv, Flags
<1>3. NoteMoves(note, note')
  BY <1>2 DEF NoteMoves
<1>4. RoomStep
  BY <1>1, <1>2, <1>3, NoteChanges
<1>5. Remains
  BY <1>4, RoomStepKeeps
<1>6. News(Deleted, note', phase', receipts') /\ Deleted.t \notin Kinds
  BY DeletedIsNews
<1>7. StreamOK(down', view, note', phase', receipts')
  BY <1>1, <1>5, <1>6, SendOne DEF Remains
<1>8. QED BY <1>1, <1>4, <1>5, <1>7, ElsewhereKeeps

\* What the ways back have to be.
WayBack(back, step) ==
  /\ back \in Seq([step : 1 .. 3, note : Notes(lastOp)])
  /\ \A i \in DOMAIN back :
       /\ back[i].step < step
       /\ \A j \in 1 .. i - 1 : back[j].step < back[i].step

\* Another step of the work, wherever it leads.
LEMMA PhaseMoves ==
  ASSUME Inv, Elsewhere, UNCHANGED receipts,
         note' \in Notes(lastOp), phase' \in Phases, phase'.rollback <= phase'.rev,
         phase'.rev = phase.rev + 1, WayBack(checkpoints', phase'.step),
         RoomMoves(note, phase, note', phase'),
         \/ note'.vis = "gone" \/ note.kept \subseteq note'.kept
         \/ phase'.rollback = phase'.rev,
         \/ Send(<<Snapshot(note', phase'), PhaseUpdated(phase')>>)
         \/ Send(<<Snapshot(note', phase')>>)
  PROVE  Inv'
<1>1. lastOp' = lastOp
  BY DEF Elsewhere, tab
<1>2. RoomGoes(note, phase, note', phase')
  BY DEF RoomGoes, Inv, RoomOK, Notes
<1>3. ASSUME NEW r \in receipts
      PROVE  ReceiptOK(r, note', phase', lastOp)
  <2>1. ReceiptOK(r, note, phase, lastOp)
    BY DEF Inv, RoomOK
  <2>2. QED BY <1>2, <2>1, ReceiptStays
<1>4. RoomOK'
  BY <1>1, <1>3 DEF RoomOK, Inv, WayBack
<1>5. RoomStep
  BY <1>2, <1>4 DEF RoomStep
<1>6. Remains
  BY <1>5, RoomStepKeeps
<1>7. view.rev \in Nat /\ view.rev < phase'.rev /\ phase.rev \in Nat
  BY DEF Inv, SeesNote, Views, RoomOK, Phases
<1>8. ASSUME NEW i \in DOMAIN down, down[i].t = "snapshot"
      PROVE  down[i].rev < phase'.rev
  <2>1. StreamOK(down, view, note, phase, receipts)
    BY DEF Inv
  <2>2. down[i].rev \in Nat /\ down[i].rev <= phase.rev
    BY <1>8, <2>1, SnapshotsAreOld
  <2>3. QED BY <1>7, <2>2
<1>9. StreamOK(down', view, note', phase', receipts')
  BY <1>6, <1>7, <1>8, SendPhase DEF Remains
<1>10. QED BY <1>5, <1>6, <1>9, ElsewhereKeeps

LEMMA PhaseNextKeeps ==
  ASSUME Inv, PhaseNext
  PROVE  Inv'
<1> DEFINE k == [step |-> phase.step, note |-> note]
           S == [step : 1 .. 3, note : Notes(lastOp)]
<1>1. /\ note \in Notes(lastOp) /\ phase \in Phases /\ phase.rollback <= phase.rev
      /\ phase.step \in 1 .. 3 /\ phase.rev \in Nat /\ phase.rollback \in Nat
      /\ lastOp \in Nat /\ WayBack(checkpoints, phase.step)
  BY DEF Inv, RoomOK, Phases, Flags, WayBack
<1>2. /\ Elsewhere /\ UNCHANGED receipts /\ phase.step < 3
      /\ checkpoints' = Append(checkpoints, k)
      /\ note' = (IF note.content = Blank THEN Gone ELSE note)
      /\ phase' = [phase EXCEPT !.step = phase.step + 1, !.rev = phase.rev + 1]
      /\ Send(<<Snapshot(note', phase'), PhaseUpdated(phase')>>)
  BY DEF PhaseNext, Moved
<1>3. /\ phase' \in Phases /\ phase'.rev = phase.rev + 1 /\ phase'.step = phase.step + 1
      /\ phase'.rollback = phase.rollback
  <2>1. phase' = [step |-> phase.step + 1, rev |-> phase.rev + 1, rollback |-> phase.rollback]
    BY <1>1, <1>2 DEF Phases
  <2>2. QED BY <1>1, <1>2, <2>1 DEF Phases
<1>4. note' \in Notes(lastOp) /\ (note' = note \/ note'.vis = "gone")
  BY <1>1, <1>2, NoNote
<1>5. NoteMoves(note, note')
  BY <1>4 DEF NoteMoves
<1>6. RoomMoves(note, phase, note', phase')
  BY <1>3, <1>5 DEF RoomMoves
<1>7. WayBack(checkpoints', phase'.step)
  <2>1. k \in S /\ checkpoints \in Seq(S) /\ k.step = phase.step
    BY <1>1 DEF WayBack
  <2> HIDE DEF k, S
  <2>2. /\ Append(checkpoints, k) \in Seq(S) /\ Len(checkpoints) \in Nat
        /\ DOMAIN checkpoints = 1 .. Len(checkpoints)
        /\ DOMAIN Append(checkpoints, k) = 1 .. Len(checkpoints) + 1
        /\ \A i \in 1 .. Len(checkpoints) : Append(checkpoints, k)[i] = checkpoints[i]
        /\ Append(checkpoints, k)[Len(checkpoints) + 1] = k
    BY <2>1, AppendProperties, LenProperties
  <2>3. ASSUME NEW i \in 1 .. Len(checkpoints) PROVE checkpoints[i].step \in 1 .. 3
    <3>1. checkpoints[i] \in S
      BY <2>1, <2>2
    <3>2. QED BY <3>1 DEF S
  <2>4. ASSUME NEW i \in DOMAIN checkpoints'
        PROVE  /\ checkpoints'[i].step < phase'.step
               /\ \A j \in 1 .. i - 1 : checkpoints'[j].step < checkpoints'[i].step
    <3>1. CASE i \in 1 .. Len(checkpoints)
      <4>1. checkpoints'[i] = checkpoints[i]
        BY <1>2, <2>2, <3>1
      <4>2. \A j \in 1 .. i - 1 : checkpoints'[j] = checkpoints[j]
        BY <1>2, <2>2, <3>1
      <4>3. /\ checkpoints[i].step < phase.step
            /\ \A j \in 1 .. i - 1 : checkpoints[j].step < checkpoints[i].step
        BY <1>1, <2>2, <3>1 DEF WayBack
      <4>4. checkpoints[i].step < phase'.step
        BY <1>1, <1>3, <2>3, <3>1, <4>3
      <4>5. checkpoints'[i].step < phase'.step
        BY <4>1, <4>4
      <4>6. ASSUME NEW j \in 1 .. i - 1
            PROVE  checkpoints'[j].step < checkpoints'[i].step
        <5>1. checkpoints'[j] = checkpoints[j] /\ checkpoints[j].step < checkpoints[i].step
          BY <4>2, <4>3
        <5>2. QED BY <4>1, <5>1
      <4>7. QED BY <4>5, <4>6
    <3>2. CASE i = Len(checkpoints) + 1
      <4>1. checkpoints'[i] = k
        BY <1>2, <2>2, <3>2
      <4>2. \A j \in 1 .. i - 1 : j \in DOMAIN checkpoints /\ checkpoints'[j] = checkpoints[j]
        BY <1>2, <2>2, <3>2
      <4>3. QED BY <1>1, <1>3, <2>1, <4>1, <4>2 DEF WayBack
    <3>3. QED BY <1>2, <2>2, <3>1, <3>2
  <2>5. checkpoints' \in Seq(S)
    BY <1>2, <2>2
  <2>6. QED BY <2>4, <2>5 DEF WayBack, S
<1>8. QED BY <1>1, <1>2, <1>3, <1>4, <1>6, <1>7, PhaseMoves

LEMMA RestartKeeps ==
  ASSUME Inv, RestartWriting
  PROVE  Inv'
<1>1. /\ note \in Notes(lastOp) /\ phase \in Phases /\ phase.rollback <= phase.rev
      /\ phase.rev \in Nat /\ phase.rollback \in Nat
  BY DEF Inv, RoomOK, Phases
<1>2. /\ Elsewhere /\ UNCHANGED <<note, receipts>> /\ checkpoints' = <<>>
      /\ phase' = [phase EXCEPT !.step = 1, !.rev = phase.rev + 1]
      /\ Send(<<Snapshot(note', phase'), PhaseUpdated(phase')>>)
  BY DEF RestartWriting, Moved
<1>3. /\ phase' \in Phases /\ phase'.rev = phase.rev + 1 /\ phase'.step = 1
      /\ phase'.rollback = phase.rollback
  <2>1. phase' = [step |-> 1, rev |-> phase.rev + 1, rollback |-> phase.rollback]
    BY <1>1, <1>2 DEF Phases
  <2>2. QED BY <1>1, <1>2, <2>1 DEF Phases
<1>4. RoomMoves(note, phase, note', phase')
  BY <1>2, <1>3 DEF RoomMoves, NoteMoves
<1>5. WayBack(checkpoints', phase'.step)
  BY <1>2 DEF WayBack
<1>6. QED BY <1>1, <1>2, <1>3, <1>4, <1>5, PhaseMoves

LEMMA RollbackKeeps ==
  ASSUME Inv, Rollback
  PROVE  Inv'
<1> DEFINE S == [step : 1 .. 3, note : Notes(lastOp)]
           len == Len(checkpoints) - 1
           c == checkpoints[Len(checkpoints)]
<1>1. /\ note \in Notes(lastOp) /\ phase \in Phases
      /\ phase.step \in 1 .. 3 /\ phase.rev \in Nat
      /\ WayBack(checkpoints, phase.step)
  BY DEF Inv, RoomOK, Phases, WayBack
<1>2. /\ Elsewhere /\ UNCHANGED receipts /\ checkpoints # <<>>
      /\ checkpoints' = SubSeq(checkpoints, 1, len) /\ note' = c.note
      /\ phase' = [step |-> c.step, rev |-> phase.rev + 1, rollback |-> phase.rev + 1]
      /\ Send(<<Snapshot(note', phase')>>)
  BY DEF Rollback
<1>3. checkpoints \in Seq(S)
  BY <1>1 DEF WayBack
<1>4. /\ len \in Nat /\ DOMAIN checkpoints = 1 .. (len + 1)
      /\ len + 1 \in DOMAIN checkpoints /\ c = checkpoints[len + 1]
  BY <1>2, <1>3, EmptySeq, LenProperties
<1> HIDE DEF len, c, S
<1>5. c \in S
  BY <1>3, <1>4
<1>6. c.step \in 1 .. 3 /\ c.note \in Notes(lastOp)
  BY <1>5 DEF S
<1>7. /\ note' \in Notes(lastOp) /\ phase' \in Phases /\ phase'.rev = phase.rev + 1
      /\ phase'.rollback = phase'.rev /\ phase'.step = c.step /\ phase'.rev \in Nat
  BY <1>1, <1>2, <1>6 DEF Phases
<1>8. RoomMoves(note, phase, note', phase')
  BY <1>1, <1>4, <1>7 DEF RoomMoves, WayBack
<1>9. /\ checkpoints' \in Seq(S) /\ DOMAIN checkpoints' = 1 .. len
      /\ \A i \in 1 .. len : checkpoints'[i] = checkpoints[i]
  BY <1>2, <1>3, <1>4, SubSeqProperties
<1>10. WayBack(checkpoints', phase'.step)
  <2>1. ASSUME NEW i \in DOMAIN checkpoints'
        PROVE  /\ checkpoints'[i].step < phase'.step
               /\ \A j \in 1 .. i - 1 : checkpoints'[j].step < checkpoints'[i].step
    <3>1. i \in 1 .. len /\ checkpoints'[i] = checkpoints[i]
      BY <1>9
    <3>2. \A j \in 1 .. i - 1 : checkpoints'[j] = checkpoints[j]
      BY <1>4, <1>9, <3>1
    <3>3. checkpoints[i].step < c.step
      <4>1. \A j \in 1 .. (len + 1) - 1 : checkpoints[j].step < checkpoints[len + 1].step
        BY <1>1, <1>4 DEF WayBack
      <4>2. i \in 1 .. (len + 1) - 1
        BY <1>4, <3>1
      <4>3. QED BY <1>4, <4>1, <4>2
    <3>4. QED BY <1>1, <1>4, <1>7, <3>1, <3>2, <3>3, SMTT(60) DEF WayBack
  <2>2. QED BY <1>9, <2>1 DEF WayBack, S
<1>11. QED BY <1>1, <1>2, <1>7, <1>8, <1>10, PhaseMoves

-----------------------------------------------------------------------------
\* The tab acts: the room stays as it is.

\* What is known goes on when an operation has been begun.
LEMMA MoreOperations ==
  ASSUME RoomOK, UNCHANGED <<note, phase, checkpoints, receipts>>,
         lastOp \in Nat, lastOp' \in {lastOp, lastOp + 1}
  PROVE  RoomOK'
<1>1. 1 .. lastOp \subseteq 1 .. lastOp'
  OBVIOUS
<1>2. Notes(lastOp) \subseteq Notes(lastOp')
  BY <1>1 DEF Notes
<1> DEFINE S == [step : 1 .. 3, note : Notes(lastOp)]
           T == [step : 1 .. 3, note : Notes(lastOp')]
<1>3. S \subseteq T
  BY <1>2
<1>4. checkpoints \in Seq(S)
  BY DEF RoomOK
<1> HIDE DEF S, T
<1>5. checkpoints \in Seq(T)
  BY <1>3, <1>4
<1>6. note \in Notes(lastOp')
  BY <1>2 DEF RoomOK
<1>7. \A r \in receipts : ReceiptOK(r, note, phase, lastOp')
  BY <1>1 DEF RoomOK, ReceiptOK
<1>8. QED BY <1>5, <1>6, <1>7 DEF RoomOK, T

\* Draft e has the flight of d, none, or a new one.
SameFlight(d, e, last) ==
  \/ e.flight = NoFlight
  \/ d # NoDraft /\ e.flight = d.flight
  \/ e.flight.op = last + 1

LEMMA StillAgrees ==
  ASSUME NEW last \in Nat, NEW d, NEW e, e # NoDraft => SameFlight(d, e, last),
         NEW m, m.op \in 1 .. last, d # NoDraft => Agrees(d, m)
  PROVE  e # NoDraft => Agrees(e, m)
  BY DEF SameFlight, Agrees

LEMMA SendsOn ==
  ASSUME NEW last \in Nat, NEW more \in {last, last + 1}, NEW d, NEW e,
         e # NoDraft => SameFlight(d, e, last),
         NEW c, NEW n, NEW p, SendsOK(c, n, p, d, last)
  PROVE  SendsOK(c, n, p, e, more)
<1>1. ASSUME NEW i \in DOMAIN c.queue, c.queue[i].t = "save"
      PROVE  SaveOK(c.queue[i], n, p, e, more)
  <2>1. SaveOK(c.queue[i], n, p, d, last)
    BY <1>1 DEF SendsOK
  <2>2. c.queue[i].op \in 1 .. last /\ c.queue[i].op \in 1 .. more
    BY <2>1 DEF SaveOK
  <2>3. e # NoDraft => Agrees(e, c.queue[i])
    BY <2>1, <2>2, StillAgrees DEF SaveOK
  <2>4. QED BY <2>1, <2>2, <2>3 DEF SaveOK
<1>2. QED BY <1>1 DEF SendsOK

LEMMA QueueGrows ==
  ASSUME NEW n, NEW p, NEW d, NEW last, SendsOK(up, n, p, d, last),
         NEW m \in Requests, m.t = "save" => SaveOK(m, n, p, d, last), Tell(m)
  PROVE  SendsOK(up', n, p, d, last)
<1> DEFINE q == up.queue
<1>1. up \in Connections /\ q \in Seq(Requests)
  BY DEF SendsOK, Connections
<1>2. up' = [up EXCEPT !.queue = Append(q, m)]
  BY DEF Tell
<1> HIDE DEF q
<1>3. /\ Append(q, m) \in Seq(Requests) /\ Len(q) \in Nat
      /\ DOMAIN q = 1 .. Len(q) /\ DOMAIN Append(q, m) = 1 .. Len(q) + 1
      /\ \A i \in 1 .. Len(q) : Append(q, m)[i] = q[i]
      /\ Append(q, m)[Len(q) + 1] = m
  BY <1>1, AppendProperties, LenProperties
<1>4. up' \in Connections /\ up'.queue = Append(q, m)
  BY <1>1, <1>2, <1>3 DEF Connections
<1>5. \A i \in DOMAIN q : q[i].t = "save" => SaveOK(q[i], n, p, d, last)
  BY DEF SendsOK, q
<1>6. ASSUME NEW i \in DOMAIN up'.queue, up'.queue[i].t = "save"
      PROVE  SaveOK(up'.queue[i], n, p, d, last)
  <2>1. CASE i \in 1 .. Len(q)
    BY <1>3, <1>4, <1>5, <1>6, <2>1
  <2>2. CASE i = Len(q) + 1
    BY <1>3, <1>4, <1>6, <2>2
  <2>3. QED BY <1>3, <1>4, <2>1, <2>2
<1>7. QED BY <1>4, <1>6 DEF SendsOK

\* At most one message is sent.
Told(d, last) ==
  \/ UNCHANGED up
  \/ \E m \in Requests :
       Tell(m) /\ (m.t = "save" => SaveOK(m, note, phase, d, last))

LEMMA TabStep ==
  ASSUME Inv, UNCHANGED <<note, phase, checkpoints, receipts, late>>,
         lastOp' \in {lastOp, lastOp + 1}, Flags',
         draft' # NoDraft => DraftOK(draft', note, phase, receipts, lastOp'),
         draft' # NoDraft => SameFlight(draft, draft', lastOp),
         Told(draft', lastOp'),
         SeesNote(view', note, phase), StreamOK(down', view', note, phase, receipts)
  PROVE  Inv'
<1>1. lastOp \in Nat /\ RoomOK
  BY DEF Inv, Flags
<1>2. RoomOK'
  BY <1>1, MoreOperations
<1>3. ASSUME NEW c \in late \cup {up}
      PROVE  SendsOK(c, note, phase, draft', lastOp')
  <2>1. SendsOK(c, note, phase, draft, lastOp)
    BY DEF Inv
  <2>2. QED BY <1>1, <2>1, SendsOn
<1>4. SendsOK(up', note, phase, draft', lastOp')
  <2>1. SendsOK(up, note, phase, draft', lastOp')
    BY <1>3
  <2>2. QED BY <2>1, QueueGrows DEF Told
<1>5. QED BY <1>2, <1>3, <1>4 DEF Inv

\* Draft e knows what d does; what is typed may be another text.
Alike(d, e) ==
  /\ e \in Drafts
  /\ e.base = d.base /\ e.baseRev = d.baseRev /\ e.phaseRev = d.phaseRev /\ e.step = d.step
  /\ e.flight = d.flight \/ e.flight = NoFlight
  /\ ~e.composing => e.committed = e.text

\* Nothing typed is forgotten without the reasons there are.
Kept ==
  draft # NoDraft /\ draft' = NoDraft =>
    \/ draft.flight = NoFlight /\ draft.text = draft.base
    \/ draft.phaseRev < phase.rollback
    \/ \E r \in receipts :
         /\ InFlight(r.op) /\ r.content = draft.text
         /\ r.op \in note.kept \/ note.vis = "gone" \/ ~InEffect(r)

LEMMA DraftThere ==
  ASSUME NEW d \in Drafts
  PROVE  d # NoDraft
  BY NoneAssumption

LEMMA AlikeOK ==
  ASSUME NEW d, NEW n, NEW p, NEW rc, NEW last, DraftOK(d, n, p, rc, last),
         NEW e, Alike(d, e)
  PROVE  DraftOK(e, n, p, rc, last)
<1>1. \A r \in rc : Agrees(e, r)
  BY DEF DraftOK, Alike, Agrees
<1>2. QED BY <1>1 DEF DraftOK, Alike

\* The draft goes on as it is, or goes.
LEMMA UsualStep ==
  ASSUME Inv, UNCHANGED <<note, phase, checkpoints, receipts, late, lastOp>>, Flags',
         \/ draft' = NoDraft
         \/ draft # NoDraft /\ (draft' = draft \/ Alike(draft, draft')),
         Told(draft', lastOp),
         SeesNote(view', note, phase), StreamOK(down', view', note, phase, receipts)
  PROVE  Inv'
<1>1. ASSUME draft' # NoDraft
      PROVE  DraftOK(draft', note, phase, receipts, lastOp) /\ SameFlight(draft, draft', lastOp)
  <2>1. draft # NoDraft /\ DraftOK(draft, note, phase, receipts, lastOp)
    BY <1>1 DEF Inv
  <2>2. CASE draft' = draft
    BY <2>1, <2>2 DEF SameFlight
  <2>3. CASE Alike(draft, draft')
    BY <2>1, <2>3, AlikeOK DEF Alike, SameFlight
  <2>4. QED BY <1>1, <2>2, <2>3
<1>2. QED BY <1>1, TabStep DEF Inv, Flags

\* What the tab sees and hears stays.
LEMMA SeesTheSame ==
  ASSUME Inv, UNCHANGED <<view, down>>
  PROVE  SeesNote(view', note, phase) /\ StreamOK(down', view', note, phase, receipts)
  BY DEF Inv

\* Every draft there is knows what it says.
LEMMA DraftTyped ==
  ASSUME Inv, draft # NoDraft
  PROVE  /\ draft \in Drafts /\ DraftOK(draft, note, phase, receipts, lastOp)
         /\ ~draft.composing => draft.committed = draft.text
         /\ draft.text \in Texts /\ draft.committed \in Texts /\ draft.base \in Texts
         /\ draft.baseRev \in Nat /\ draft.phaseRev \in Nat /\ draft.step \in 1 .. 2
         /\ draft.composing \in BOOLEAN
         /\ draft.flight # NoFlight =>
              /\ draft.flight \in Flights /\ draft.flight.op \in 1 .. lastOp
              /\ draft.flight.op \in Nat
  BY DEF Inv, DraftOK, Drafts, Flights

-----------------------------------------------------------------------------
\* What the tab does with a draft.

Reasons == Final \cup {"none", "send-failed", "result-unknown"}

LEMMA AskTells ==
  ASSUME NEW d, d.flight.op \in Nat, Tell([t |-> "status", op |-> d.flight.op]),
         NEW e, NEW last
  PROVE  Told(e, last)
<1> DEFINE m == [t |-> "status", op |-> d.flight.op]
<1>1. m \in Requests /\ m.t # "save"
  BY DEF Requests
<1>2. Tell(m)
  OBVIOUS
<1> HIDE DEF m
<1>3. QED BY <1>1, <1>2 DEF Told

LEMMA PublishTells ==
  ASSUME Tell([t |-> "publish"]), NEW e, NEW last
  PROVE  Told(e, last)
<1> DEFINE m == [t |-> "publish"]
<1>1. m \in Requests /\ m.t # "save"
  BY DEF Requests
<1>2. Tell(m)
  OBVIOUS
<1> HIDE DEF m
<1>3. QED BY <1>1, <1>2 DEF Told

LEMMA ShareCompletes ==
  ASSUME NEW v, NEW content, NEW rev, CompleteShare(v, content, rev), NEW e, NEW last
  PROVE  waiting' = FALSE /\ Told(e, last)
<1>1. CASE Tell([t |-> "publish"])
  BY <1>1, PublishTells DEF CompleteShare
<1>2. CASE UNCHANGED up
  BY <1>2 DEF CompleteShare, Told
<1>3. QED BY <1>1, <1>2 DEF CompleteShare

\* The reason a draft rests for.
LEMMA ReasonOnly ==
  ASSUME NEW d \in Drafts, ~d.composing => d.committed = d.text, NEW why \in Reasons
  PROVE  LET e == [d EXCEPT !.reason = why]
         IN Alike(d, e) /\ e.composing = d.composing /\ e.flight = d.flight
            /\ e.text = d.text /\ e.reason = why
<1> DEFINE e == [d EXCEPT !.reason = why]
<1>1. e \in Drafts
  BY DEF Drafts, Reasons
<1>2. /\ e.base = d.base /\ e.baseRev = d.baseRev /\ e.phaseRev = d.phaseRev
      /\ e.step = d.step /\ e.flight = d.flight /\ e.composing = d.composing
      /\ e.committed = d.committed /\ e.text = d.text /\ e.reason = why
  BY DEF Drafts
<1> HIDE DEF e
<1>3. Alike(d, e) /\ e.composing = d.composing /\ e.flight = d.flight /\ e.text = d.text
      /\ e.reason = why
  BY <1>1, <1>2 DEF Alike
<1>4. QED BY <1>3 DEF e

\* A draft put aside.
PutAside(d) ==
  /\ Alike(d, draft') /\ draft' \in Drafts /\ draft'.composing = d.composing
  /\ draft'.flight = d.flight
  /\ due' = "no" /\ waiting' = FALSE /\ active' \in BOOLEAN /\ (active' => active)

LEMMA RecoverOK ==
  ASSUME NEW d \in Drafts, ~d.composing => d.committed = d.text, NEW why \in Reasons,
         Recover(d, why)
  PROVE  PutAside(d) /\ asking' = FALSE
<1>1. draft' = [d EXCEPT !.reason = why]
  BY DEF Recover
<1>2. /\ Alike(d, draft') /\ draft'.composing = d.composing /\ draft'.flight = d.flight
  BY <1>1, ReasonOnly
<1>3. /\ due' = "no" /\ asking' = FALSE /\ waiting' = FALSE
      /\ active' \in BOOLEAN /\ (active' => active)
  BY DEF Recover
<1>4. QED BY <1>2, <1>3 DEF PutAside, Alike

LEMMA RecoverAskingOK ==
  ASSUME NEW d \in Drafts, ~d.composing => d.committed = d.text, NEW why \in Reasons,
         d.flight.op \in Nat, RecoverAsking(d, why), NEW e, NEW last
  PROVE  PutAside(d) /\ asking' = TRUE /\ Told(e, last)
<1>1. draft' = [d EXCEPT !.reason = why]
  BY DEF RecoverAsking
<1>2. /\ Alike(d, draft') /\ draft'.composing = d.composing /\ draft'.flight = d.flight
  BY <1>1, ReasonOnly
<1>3. /\ due' = "no" /\ asking' = TRUE /\ waiting' = FALSE
      /\ active' \in BOOLEAN /\ (active' => active)
  BY DEF RecoverAsking, Ask
<1>4. Told(e, last)
  BY AskTells DEF RecoverAsking, Ask
<1>5. QED BY <1>2, <1>3, <1>4 DEF PutAside, Alike

\* A step in which the draft is put aside.
LEMMA AsideStep ==
  ASSUME Inv, UNCHANGED <<note, phase, checkpoints, receipts, session, late, lastOp>>,
         inputs' = inputs, outside' = outside, link' \in {"synced", "opening", "cut", "ended"},
         link' = "synced" => view'.ready,
         draft # NoDraft, NEW d, DraftOK(d, note, phase, receipts, lastOp),
         SameFlight(draft, d, lastOp), d.composing = draft.composing,
         PutAside(d), asking' \in BOOLEAN,
         Told(draft', lastOp),
         SeesNote(view', note, phase), StreamOK(down', view', note, phase, receipts)
  PROVE  Inv' /\ Kept
<1>1. draft' # NoDraft
  BY DraftThere DEF PutAside
<1>2. DraftOK(draft', note, phase, receipts, lastOp) /\ SameFlight(draft, draft', lastOp)
  <2>1. Alike(d, draft') /\ draft'.flight = d.flight
    BY DEF PutAside
  <2>2. QED BY <2>1, AlikeOK DEF SameFlight
<1>3. Flags'
  <2>1. active' => draft'.composing
    BY DEF PutAside, Inv, Flags
  <2>2. /\ due' = "no" /\ waiting' = FALSE /\ active' \in BOOLEAN
    BY DEF PutAside
  <2>3. QED BY <1>1, <2>1, <2>2 DEF Flags, Inv
<1>4. lastOp' = lastOp /\ lastOp \in Nat
  BY DEF Inv, Flags
<1>5. QED BY <1>1, <1>2, <1>3, <1>4, TabStep DEF Kept

LEMMA AsideAsItIs ==
  ASSUME Inv, UNCHANGED <<note, phase, checkpoints, receipts, session, late, lastOp>>,
         inputs' = inputs, outside' = outside, link' \in {"synced", "opening", "cut", "ended"},
         link' = "synced" => view'.ready,
         draft # NoDraft, PutAside(draft), asking' \in BOOLEAN, Told(draft', lastOp),
         SeesNote(view', note, phase), StreamOK(down', view', note, phase, receipts)
  PROVE  Inv' /\ Kept
<1>1. DraftOK(draft, note, phase, receipts, lastOp) /\ SameFlight(draft, draft, lastOp)
  BY DraftTyped DEF SameFlight
<1>2. QED BY <1>1, AsideStep

-----------------------------------------------------------------------------
\* The person.

LEMMA FreshOK ==
  ASSUME Inv, Editable(view)
  PROVE  DraftOK(Fresh, note, phase, receipts, lastOp) /\ Fresh.flight = NoFlight
         /\ Fresh.composing = FALSE
<1> DEFINE e == Fresh
<1>1. /\ view.note \in Contents /\ view.rev \in Nat /\ view.step \in 1 .. 2
      /\ StepSeen(phase, view.rev, view.step)
      /\ Known(note, phase, view.rev, view.note.rev, view.note.content)
  BY DEF Inv, SeesNote, Views, Editable
<1>2. view.note.content \in Texts /\ view.note.rev \in Nat
  BY <1>1 DEF Contents
<1>3. e \in Drafts
  BY <1>1, <1>2 DEF Fresh, Drafts
<1>4. /\ e.base = view.note.content /\ e.baseRev = view.note.rev /\ e.phaseRev = view.rev
      /\ e.step = view.step /\ e.committed = e.text /\ e.flight = NoFlight
      /\ e.composing = FALSE
  BY DEF Fresh
<1> HIDE DEF e
<1>5. \A r \in receipts : Agrees(e, r)
  BY <1>4 DEF Agrees
<1>6. DraftOK(e, note, phase, receipts, lastOp)
  BY <1>1, <1>3, <1>4, <1>5 DEF DraftOK
<1>7. QED BY <1>4, <1>6 DEF e

LEMMA WritingOK ==
  ASSUME Inv, NEW d \in Writing
  PROVE  /\ DraftOK(d, note, phase, receipts, lastOp) /\ d \in Drafts
         /\ SameFlight(draft, d, lastOp)
         /\ draft # NoDraft => d = draft
         /\ active => d.composing
<1>1. CASE draft = NoDraft
  <2>1. d = Fresh /\ Editable(view) /\ active = FALSE
    BY <1>1 DEF Writing, Inv, Flags
  <2>2. QED BY <1>1, <2>1, FreshOK DEF SameFlight, DraftOK
<1>2. CASE draft # NoDraft
  <2>1. d = draft
    BY <1>2 DEF Writing
  <2>2. QED BY <1>2, <2>1, DraftTyped DEF SameFlight, Inv, Flags
<1>3. QED BY <1>1, <1>2

LEMMA WriteStep ==
  ASSUME Inv, Input, NEW d \in Writing, Alike(d, draft'), UNCHANGED <<up, asking>>,
         active' \in BOOLEAN, active' => draft'.composing,
         waiting' \in BOOLEAN, waiting' => waiting,
         due' \in {"no", "timer", "micro"}
  PROVE  Inv' /\ Kept
<1>1. /\ UNCHANGED <<note, phase, checkpoints, receipts, session, link, late, down, view,
                     lastOp, outside>>
      /\ inputs < MaxInputs /\ inputs' = inputs + 1
  BY DEF Input, room
<1>2. /\ DraftOK(d, note, phase, receipts, lastOp) /\ SameFlight(draft, d, lastOp)
  BY WritingOK
<1>3. DraftOK(draft', note, phase, receipts, lastOp) /\ draft' # NoDraft
  BY <1>2, AlikeOK, DraftThere DEF Alike
<1>4. SameFlight(draft, draft', lastOp)
  BY <1>2 DEF SameFlight, Alike
<1>5. inputs' \in 0 .. MaxInputs
  BY <1>1, BoundsAssumption DEF Inv, Flags
<1>6. Flags'
  BY <1>1, <1>3, <1>5 DEF Flags, Inv
<1>7. Told(draft', lastOp')
  BY DEF Told
<1>8. SeesNote(view', note, phase) /\ StreamOK(down', view', note, phase, receipts)
  BY <1>1, SeesTheSame
<1>9. QED BY <1>1, <1>3, <1>4, <1>6, <1>7, <1>8, TabStep DEF Kept, Inv, Flags

LEMMA ChangeKeeps ==
  ASSUME Inv, NEW text \in Texts, Change(text)
  PROVE  Inv' /\ Kept
<1>1. PICK d \in Writing :
        /\ draft' = [d EXCEPT !.text = text,
                              !.committed = IF d.composing THEN @ ELSE text]
        /\ due' = IF d.composing THEN due ELSE "timer"
  BY DEF Change
<1>2. d \in Drafts /\ (active => d.composing)
  BY WritingOK
<1>3. /\ draft' \in Drafts /\ draft'.composing = d.composing /\ draft'.base = d.base
      /\ draft'.baseRev = d.baseRev /\ draft'.phaseRev = d.phaseRev /\ draft'.step = d.step
      /\ draft'.flight = d.flight /\ draft'.text = text
      /\ ~d.composing => draft'.committed = text
  <2> DEFINE k == IF d.composing THEN d.committed ELSE text
  <2>1. k \in Texts
    BY <1>2 DEF Drafts
  <2>2. draft' = [d EXCEPT !.text = text, !.committed = k] /\ (~d.composing => k = text)
    BY <1>1
  <2> HIDE DEF k
  <2>3. QED BY <1>2, <2>1, <2>2 DEF Drafts
<1>4. Alike(d, draft')
  BY <1>3 DEF Alike
<1>5. Input /\ UNCHANGED <<up, active, asking, waiting>>
  BY DEF Change
<1>6. active \in BOOLEAN /\ waiting \in BOOLEAN /\ due' \in {"no", "timer", "micro"}
  BY <1>1 DEF Inv, Flags
<1>7. QED BY <1>2, <1>3, <1>4, <1>5, <1>6, WriteStep

LEMMA CompositionStartKeeps ==
  ASSUME Inv, CompositionStart
  PROVE  Inv' /\ Kept
<1>1. PICK d \in Writing : draft' = [d EXCEPT !.composing = TRUE]
  BY DEF CompositionStart
<1>2. d \in Drafts
  BY WritingOK
<1>3. /\ draft' \in Drafts /\ draft'.composing = TRUE /\ draft'.base = d.base
      /\ draft'.baseRev = d.baseRev /\ draft'.phaseRev = d.phaseRev /\ draft'.step = d.step
      /\ draft'.flight = d.flight
  BY <1>1, <1>2 DEF Drafts
<1>4. Alike(d, draft')
  BY <1>3 DEF Alike
<1>5. /\ Input /\ UNCHANGED <<up, asking>>
      /\ active' = TRUE /\ due' = "no" /\ waiting' = FALSE
  BY DEF CompositionStart
<1>6. QED BY <1>3, <1>4, <1>5, WriteStep

LEMMA CompositionEndKeeps ==
  ASSUME Inv, CompositionEnd
  PROVE  Inv' /\ Kept
<1>1. /\ draft # NoDraft /\ active' = FALSE /\ due' = "timer"
      /\ draft' = [draft EXCEPT !.composing = FALSE, !.committed = draft.text]
      /\ UNCHANGED <<note, phase, checkpoints, receipts, session, link, up, late, down,
                     asking, waiting, view, lastOp, inputs, outside>>
  BY DEF CompositionEnd, room, net
<1>2. draft \in Drafts /\ draft.text \in Texts
  BY <1>1, DraftTyped
<1>3. /\ draft' \in Drafts /\ draft'.composing = FALSE /\ draft'.base = draft.base
      /\ draft'.baseRev = draft.baseRev /\ draft'.phaseRev = draft.phaseRev
      /\ draft'.step = draft.step /\ draft'.flight = draft.flight
      /\ draft'.committed = draft.text /\ draft'.text = draft.text
  BY <1>1, <1>2 DEF Drafts
<1>4. Alike(draft, draft') /\ draft' # NoDraft
  BY <1>3, DraftThere DEF Alike
<1>5. Flags'
  BY <1>1, <1>4 DEF Flags, Inv
<1>6. Told(draft', lastOp)
  BY <1>1 DEF Told
<1>7. SeesNote(view', note, phase) /\ StreamOK(down', view', note, phase, receipts)
  BY <1>1, SeesTheSame
<1>8. QED BY <1>1, <1>4, <1>5, <1>6, <1>7, UsualStep DEF Kept

LEMMA ShareKeeps ==
  ASSUME Inv, Share
  PROVE  Inv' /\ Kept
<1>1. /\ UNCHANGED <<note, phase, checkpoints, receipts, session, link, late, down, view,
                     lastOp, outside, draft, active, asking>>
      /\ inputs < MaxInputs /\ inputs' = inputs + 1
  BY DEF Share, Input, room
<1>2. \/ Tell([t |-> "publish"]) /\ UNCHANGED <<due, waiting>>
      \/ /\ draft # NoDraft /\ waiting' = TRUE /\ due' = "micro" /\ UNCHANGED up
         /\ view.ready /\ view.step = 2
  BY DEF Share
<1>3. inputs' \in 0 .. MaxInputs
  BY <1>1, BoundsAssumption DEF Inv, Flags
<1>4. Flags'
  <2>1. CASE UNCHANGED <<due, waiting>>
    BY <1>1, <1>3, <2>1 DEF Flags, Inv
  <2>2. CASE /\ draft # NoDraft /\ waiting' = TRUE /\ due' = "micro"
             /\ view.ready /\ view.step = 2
    BY <1>1, <1>3, <2>2 DEF Flags, Inv
  <2>3. QED BY <1>2, <2>1, <2>2
<1>5. Told(draft', lastOp)
  BY <1>2, PublishTells DEF Told
<1>6. SeesNote(view', note, phase) /\ StreamOK(down', view', note, phase, receipts)
  BY <1>1, SeesTheSame
<1>7. QED BY <1>1, <1>4, <1>5, <1>6, UsualStep DEF Kept

-----------------------------------------------------------------------------
\* The timers.

\* What goes on after its step knows the note as it was there.
LEMMA StillKnown ==
  ASSUME Inv, draft # NoDraft, CanContinue(draft, view)
  PROVE  /\ draft.phaseRev <= view.rev /\ view.rev \in Nat
         /\ Known(note, phase, view.rev, draft.baseRev, draft.base)
<1>1. /\ view.rev \in Nat /\ phase \in Phases /\ view.step \in 1 .. 2
      /\ StepSeen(phase, view.rev, view.step)
  BY DEF Inv, SeesNote, Views, RoomOK, CanContinue, Editable
<1>2. /\ draft.phaseRev \in Nat /\ draft.step \in 1 .. 2
      /\ Known(note, phase, draft.phaseRev, draft.baseRev, draft.base)
      /\ StepSeen(phase, draft.phaseRev, draft.step)
  BY DraftTyped DEF DraftOK
<1>3. CASE draft.phaseRev = view.rev
  BY <1>1, <1>2, <1>3
<1>4. CASE view.rev = draft.phaseRev + 1 /\ draft.step = 1 /\ view.step = 2
  <2>1. Known(note, phase, draft.phaseRev + 1, draft.baseRev, draft.base)
    BY <1>1, <1>2, <1>4, KnownNext
  <2>2. QED BY <1>1, <1>2, <1>4, <2>1
<1>5. QED BY <1>3, <1>4 DEF CanContinue

LEMMA DraftMore ==
  ASSUME NEW d, NEW n, NEW p, NEW rc, NEW last \in Nat, DraftOK(d, n, p, rc, last)
  PROVE  DraftOK(d, n, p, rc, last + 1)
<1>1. d.flight # NoFlight => d.flight.op \in 1 .. last + 1
  BY DEF DraftOK
<1>2. QED BY <1>1 DEF DraftOK

\* The save under way is what is told to the room.
LEMMA FlightTells ==
  ASSUME NEW f \in Flights, NEW last \in Nat, f.op \in 1 .. last,
         Known(note, phase, f.expPhase, f.expRev, f.over), Tell(Save(f)),
         NEW e, e # NoDraft => e.flight = f
  PROVE  Told(e, last)
<1> DEFINE m == Save(f)
<1>1. /\ m.t = "save" /\ m.op = f.op /\ m.content = f.content
      /\ m.expRev = f.expRev /\ m.expPhase = f.expPhase /\ m.over = f.over
  BY DEF Save
<1>2. m \in Requests
  BY DEF Save, Requests, Flights
<1>3. Tell(m)
  OBVIOUS
<1> HIDE DEF m
<1>4. SaveOK(m, note, phase, e, last)
  BY <1>1 DEF SaveOK, Agrees
<1>5. QED BY <1>2, <1>3, <1>4 DEF Told

LEMMA FlushSendsKeeps ==
  ASSUME Inv, draft # NoDraft, draft.flight = NoFlight, ~draft.composing,
         CanContinue(draft, view), FlushSends,
         UNCHANGED <<note, phase, checkpoints, receipts, session, link, late, down, view,
                     inputs, outside>>
  PROVE  Inv' /\ Kept
<1> DEFINE f == Takeoff
<1>1. lastOp' = lastOp + 1 /\ lastOp \in Nat
  BY DEF FlushSends, Inv, Flags
<1>2. SeesNote(view', note, phase) /\ StreamOK(down', view', note, phase, receipts)
  BY SeesTheSame
<1>3. /\ draft \in Drafts /\ DraftOK(draft, note, phase, receipts, lastOp)
      /\ draft.committed = draft.text /\ draft.committed \in Texts /\ draft.base \in Texts
      /\ draft.baseRev \in Nat
  BY DraftTyped
<1>4. CASE link = "synced"
  <2>1. /\ draft' = [draft EXCEPT !.flight = f] /\ Tell(Save(f))
        /\ due' = "no" /\ asking' = TRUE /\ UNCHANGED <<active, waiting>>
    BY <1>4 DEF FlushSends
  <2>2. /\ f.op = lastOp + 1 /\ f.content = draft.committed /\ f.expRev = draft.baseRev
        /\ f.expPhase = view.rev /\ f.over = draft.base
    BY DEF Takeoff
  <2>3. /\ draft.phaseRev <= f.expPhase /\ f.expPhase \in Nat
        /\ Known(note, phase, f.expPhase, f.expRev, f.over)
    BY <2>2, StillKnown
  <2>4. f \in Flights
    BY <1>1, <1>3, StillKnown DEF Takeoff, Flights
  <2> HIDE DEF f
  <2>5. f # NoFlight
    BY <2>4, NoneAssumption
  <2>6. /\ draft' \in Drafts /\ draft'.flight = f /\ draft'.composing = draft.composing
        /\ draft'.base = draft.base /\ draft'.baseRev = draft.baseRev
        /\ draft'.phaseRev = draft.phaseRev /\ draft'.step = draft.step
        /\ draft'.text = draft.text /\ draft'.committed = draft.committed
    BY <1>3, <2>1, <2>4 DEF Drafts
  <2>7. \A r \in receipts : r.op \in 1 .. lastOp
    BY DEF Inv, RoomOK, ReceiptOK
  <2>8. \A r \in receipts : Agrees(draft', r)
    BY <1>1, <2>2, <2>6, <2>7 DEF Agrees
  <2>9. f.op \in 1 .. lastOp + 1
    BY <1>1, <2>2
  <2>10. DraftOK(draft', note, phase, receipts, lastOp')
    BY <1>1, <1>3, <2>2, <2>3, <2>6, <2>8, <2>9 DEF DraftOK
  <2>11. SameFlight(draft, draft', lastOp)
    BY <2>2, <2>6 DEF SameFlight
  <2>12. Told(draft', lastOp')
    <3>1. lastOp + 1 \in Nat /\ Tell(Save(f)) /\ draft'.flight = f
      BY <1>1, <2>1, <2>6
    <3>2. Told(draft', lastOp + 1)
      BY <2>3, <2>4, <2>9, <3>1, FlightTells
    <3>3. QED BY <1>1, <3>2
  <2>13. draft' # NoDraft
    BY <2>6, DraftThere
  <2>14. Flags'
    BY <1>1, <2>1, <2>6, <2>13 DEF Flags, Inv
  <2>15. QED BY <1>1, <1>2, <2>10, <2>11, <2>12, <2>13, <2>14, TabStep DEF Kept
<1>5. CASE link # "synced"
  <2>1. Recover(draft, "send-failed") /\ UNCHANGED up
    BY <1>5 DEF FlushSends
  <2>2. PutAside(draft) /\ asking' = FALSE
    BY <1>3, <2>1, RecoverOK DEF Reasons
  <2>3. draft' # NoDraft /\ (active' => draft'.composing)
    BY <2>2, DraftThere DEF PutAside, Inv, Flags
  <2>4. DraftOK(draft', note, phase, receipts, lastOp')
    BY <1>1, <1>3, <2>2, AlikeOK, DraftMore DEF PutAside
  <2>5. Told(draft', lastOp') /\ SameFlight(draft, draft', lastOp)
    BY <2>1, <2>2 DEF Told, SameFlight, PutAside
  <2>6. Flags'
    <3>1. /\ due' = "no" /\ waiting' = FALSE /\ active' \in BOOLEAN /\ asking' = FALSE
          /\ lastOp' \in Nat
      BY <1>1, <2>2 DEF PutAside
    <3>2. QED BY <2>3, <3>1 DEF Flags, Inv
  <2>7. QED BY <1>1, <1>2, <2>3, <2>4, <2>5, <2>6, TabStep DEF Kept
<1>6. QED BY <1>4, <1>5

LEMMA FlushKeeps ==
  ASSUME Inv, Flush
  PROVE  Inv' /\ Kept
<1>1. UNCHANGED <<note, phase, checkpoints, receipts, session, link, late, down, view,
                  inputs, outside>>
  BY DEF Flush, room
<1>2. SeesNote(view', note, phase) /\ StreamOK(down', view', note, phase, receipts)
  BY <1>1, SeesTheSame
<1>3. CASE due' = "no" /\ UNCHANGED <<draft, active, asking, waiting, up, lastOp>>
  <2>1. Flags' /\ Told(draft', lastOp)
    BY <1>1, <1>3 DEF Flags, Inv, Told
  <2>2. QED BY <1>1, <1>2, <1>3, <2>1, UsualStep DEF Kept
<1>4. CASE ~Ignored /\ Recover(draft, Hindrance) /\ UNCHANGED <<up, lastOp>>
  <2>1. Hindrance \in Reasons
    BY DEF Hindrance, Reasons, Final
  <2>2. PutAside(draft) /\ asking' = FALSE /\ draft # NoDraft
    BY <1>4, <2>1, DraftTyped, RecoverOK DEF Ignored
  <2>3. Told(draft', lastOp) /\ (link' = "synced" => view'.ready) /\
        link' \in {"synced", "opening", "cut", "ended"}
    BY <1>1, <1>4 DEF Told, Inv, Flags
  <2>4. QED BY <1>1, <1>2, <1>4, <2>2, <2>3, AsideAsItIs
<1>5. CASE /\ ~Ignored /\ draft.committed = draft.base /\ Drop
           /\ CompleteShare(view, view.note.content, view.note.rev) /\ UNCHANGED lastOp
  <2>1. /\ draft' = NoDraft /\ due' = "no" /\ asking' = FALSE /\ active' = FALSE
        /\ waiting' = FALSE /\ Told(draft', lastOp)
    BY <1>5, ShareCompletes DEF Drop
  <2>2. draft.flight = NoFlight /\ draft.text = draft.base
    BY <1>5, DraftTyped DEF Ignored
  <2>3. Flags'
    BY <1>1, <1>5, <2>1 DEF Flags, Inv
  <2>4. QED BY <1>1, <1>2, <1>5, <2>1, <2>2, <2>3, UsualStep DEF Kept
<1>6. CASE ~Ignored /\ GoesOn /\ FlushSends
  BY <1>1, <1>6, FlushSendsKeeps DEF Ignored, GoesOn
<1>7. QED BY <1>3, <1>4, <1>5, <1>6 DEF Flush

LEMMA RingKeeps ==
  ASSUME Inv, Ring
  PROVE  Inv' /\ Kept
<1>1. /\ UNCHANGED <<note, phase, checkpoints, receipts, session, link, late, down, view,
                     lastOp, inputs, outside>>
      /\ draft # NoDraft /\ draft.flight # NoFlight
  BY DEF Ring, room
<1>2. SeesNote(view', note, phase) /\ StreamOK(down', view', note, phase, receipts)
  BY <1>1, SeesTheSame
<1>3. draft.flight.op \in Nat
  BY <1>1, DraftTyped
<1>4. CASE Ask(draft) /\ UNCHANGED <<draft, active, due, waiting>>
  <2>1. Told(draft', lastOp) /\ asking' = TRUE
    BY <1>3, <1>4, AskTells DEF Ask
  <2>2. Flags'
    BY <1>1, <1>4, <2>1 DEF Flags, Inv
  <2>3. QED BY <1>1, <1>2, <1>4, <2>1, <2>2, UsualStep DEF Kept
<1>5. CASE Recover(draft, "send-failed") /\ UNCHANGED up
  <2>1. PutAside(draft) /\ asking' = FALSE
    BY <1>1, <1>5, DraftTyped, RecoverOK DEF Reasons
  <2>2. Told(draft', lastOp) /\ (link' = "synced" => view'.ready) /\
        link' \in {"synced", "opening", "cut", "ended"}
    BY <1>1, <1>5 DEF Told, Inv, Flags
  <2>3. QED BY <1>1, <1>2, <2>1, <2>2, AsideAsItIs
<1>6. QED BY <1>4, <1>5 DEF Ring

-----------------------------------------------------------------------------
\* The answers of the room.

\* The message served says what is so.
LEMMA FirstMessage ==
  ASSUME Inv, down # <<>>
  PROVE  /\ Head(down) \in Messages /\ Tells(Head(down), view.rev, note, phase, receipts)
         /\ Head(down).t = "phase" =>
              view.rev = Head(down).rev /\ view.step = Head(down).step
         /\ Head(down).t = "snapshot" =>
              /\ SnapshotOK(Head(down), note, phase)
              /\ view.ready => view.rev < Head(down).rev
<1>1. StreamOK(down, view, note, phase, receipts)
  BY DEF Inv
<1>2. down \in Seq(Messages)
  BY <1>1 DEF StreamOK
<1>3. 1 \in DOMAIN down /\ Head(down) = down[1] /\ down[1] \in Messages
  BY <1>2
<1>4. QED BY <1>1, <1>3 DEF StreamOK

LEMMA Heard ==
  ASSUME Inv, down # <<>>, down' = Tail(down), Head(down).t # "snapshot",
         view'.rev = view.rev, view'.step = view.step, view'.ready => view.ready
  PROVE  StreamOK(down', view', note, phase, receipts)
<1>1. StreamOK(down, view, note, phase, receipts)
  BY DEF Inv
<1>2. QED BY <1>1, TailKeeps

\* The draft whose save has been taken.
LEMMA LandedOK ==
  ASSUME Inv, draft # NoDraft, draft.flight # NoFlight,
         NEW r \in receipts, r.op = draft.flight.op
  PROVE  LET d == Landed(r.rev)
         IN /\ DraftOK(d, note, phase, receipts, lastOp) /\ d \in Drafts
            /\ d.flight = NoFlight /\ d.composing = draft.composing
            /\ ~d.composing => d.committed = d.text
            /\ SameFlight(draft, d, lastOp)
<1> DEFINE d == Landed(r.rev)
           why == IF draft.reason # "result-unknown" THEN draft.reason
                  ELSE IF draft.composing /\ ~active
                       THEN "interrupted-composition" ELSE "none"
           f == draft.flight
<1>1. /\ draft \in Drafts /\ DraftOK(draft, note, phase, receipts, lastOp)
      /\ f \in Flights /\ (~draft.composing => draft.committed = draft.text)
      /\ draft.phaseRev \in Nat
  BY DraftTyped
<1>2. /\ f.content \in Texts /\ f.expPhase \in Nat
  BY <1>1 DEF Flights
<1>3. why \in Final \cup {"none", "send-failed", "result-unknown"}
  BY <1>1 DEF Drafts, Final
<1>4. d = [draft EXCEPT !.flight = NoFlight, !.base = f.content, !.baseRev = r.rev,
                        !.reason = why]
  BY <1>1 DEF Landed, Drafts
<1>5. /\ ReceiptOK(r, note, phase, lastOp) /\ phase \in Phases /\ phase.rollback <= phase.rev
      /\ r.rev \in Nat
  BY DEF Inv, RoomOK, ReceiptOK, Receipts
<1>6. /\ r.content = f.content /\ r.expPhase = f.expPhase /\ draft.phaseRev <= f.expPhase
      /\ StepSeen(phase, draft.phaseRev, draft.step)
  BY <1>1 DEF DraftOK, Agrees
<1>7. Known(note, phase, draft.phaseRev, r.rev, f.content)
  <2>1. Known(note, phase, r.expPhase, r.rev, r.content)
    BY <1>5, TakenIsKnown
  <2>2. QED BY <1>1, <1>2, <1>5, <1>6, <2>1, KnownBefore
<1> HIDE DEF d, why, f
<1>8. /\ d \in Drafts /\ d.flight = NoFlight /\ d.base = f.content /\ d.baseRev = r.rev
      /\ d.phaseRev = draft.phaseRev /\ d.step = draft.step /\ d.text = draft.text
      /\ d.committed = draft.committed /\ d.composing = draft.composing
  BY <1>1, <1>2, <1>3, <1>4, <1>5 DEF Drafts
<1>9. \A s \in receipts : Agrees(d, s)
  BY <1>8 DEF Agrees
<1>10. DraftOK(d, note, phase, receipts, lastOp)
  BY <1>1, <1>6, <1>7, <1>8, <1>9 DEF DraftOK
<1>11. SameFlight(draft, d, lastOp)
  BY <1>8 DEF SameFlight
<1>12. /\ DraftOK(d, note, phase, receipts, lastOp) /\ d \in Drafts
       /\ d.flight = NoFlight /\ d.composing = draft.composing
       /\ ~d.composing => d.committed = d.text
       /\ SameFlight(draft, d, lastOp)
  BY <1>1, <1>8, <1>10, <1>11
<1>13. QED BY <1>12 DEF d

\* The view of a note that has been saved.
LEMMA SavedView ==
  ASSUME Inv, NEW sent \in Texts, NEW rev \in Nat,
         Known(note, phase, view.rev, rev, sent),
         \/ view' = view
         \/ view' = [view EXCEPT !.note.content = sent, !.note.rev = rev]
  PROVE  /\ SeesNote(view', note, phase) /\ view'.rev = view.rev
         /\ view'.step = view.step /\ view'.ready = view.ready
<1>1. view \in Views /\ SeesNote(view, note, phase)
  BY DEF Inv, SeesNote
<1>2. CASE view' = view
  BY <1>1, <1>2
<1>3. CASE view' = [view EXCEPT !.note.content = sent, !.note.rev = rev]
  <2> DEFINE n == [view.note EXCEPT !.content = sent, !.rev = rev]
  <2>1. view.note \in Contents
    BY <1>1 DEF Views
  <2>2. n \in Contents /\ n.rev = rev /\ n.content = sent
    BY <2>1 DEF Contents
  <2>3. view' = [view EXCEPT !.note = n]
    BY <1>1, <1>3, <2>1 DEF Views, Contents
  <2> HIDE DEF n
  <2>4. /\ view' \in Views /\ view'.note = n /\ view'.rev = view.rev
        /\ view'.step = view.step /\ view'.ready = view.ready
    BY <1>1, <2>2, <2>3 DEF Views
  <2>5. QED BY <1>1, <2>2, <2>4 DEF SeesNote
<1>4. QED BY <1>2, <1>3

LEMMA AcceptKeeps ==
  ASSUME Inv, down # <<>>, down' = Tail(down), Head(down).t # "snapshot",
         InFlight(Head(down).op), Accepts(Head(down)), Accept(Head(down).rev),
         UNCHANGED <<note, phase, checkpoints, receipts, session, link, late, lastOp,
                     inputs, outside>>
  PROVE  Inv' /\ Kept
<1>1. PICK r \in receipts : /\ r.op = Head(down).op /\ r.rev = Head(down).rev
                            /\ Known(note, phase, view.rev, r.rev, r.content)
  BY FirstMessage DEF Tells
<1> DEFINE rev == Head(down).rev
           sent == draft.flight.content
           d == Landed(rev)
           newer == view.note.vis # "gone" /\ view.note.rev > rev
           done == draft.text = sent /\ ~draft.composing
<1>2. /\ draft # NoDraft /\ draft.flight # NoFlight /\ r.op = draft.flight.op
      /\ draft.flight.op = Head(down).op
  BY <1>1 DEF InFlight
<1>3. sent \in Texts /\ r.content = sent
  BY <1>2, DraftTyped DEF DraftOK, Agrees, Flights
<1>4. /\ DraftOK(d, note, phase, receipts, lastOp) /\ d \in Drafts
      /\ d.flight = NoFlight /\ d.composing = draft.composing
      /\ ~d.composing => d.committed = d.text
      /\ SameFlight(draft, d, lastOp)
  BY <1>1, <1>2, LandedOK
<1>5. r.rev \in Nat /\ ReceiptOK(r, note, phase, lastOp)
  BY DEF Inv, RoomOK, ReceiptOK, Receipts
<1>6. /\ \/ view' = view
         \/ view' = [view EXCEPT !.note.content = sent, !.note.rev = rev]
      /\ \/ Recover(d, "conflict") /\ UNCHANGED up
         \/ done /\ Drop /\ CompleteShare(view', sent, rev)
         \/ /\ UNCHANGED <<up, active, waiting>> /\ draft' = d /\ asking' = FALSE
            /\ due' \in {due, "micro"}
         \/ Recover(d, "not-editable") /\ UNCHANGED up
  BY DEF Accept
<1> HIDE DEF d, newer
<1>7. /\ SeesNote(view', note, phase) /\ view'.rev = view.rev
      /\ view'.step = view.step /\ view'.ready = view.ready
  BY <1>1, <1>3, <1>5, <1>6, SavedView
<1>8. StreamOK(down', view', note, phase, receipts)
  BY <1>7, Heard
<1>9. link' \in {"synced", "opening", "cut", "ended"} /\ (link' = "synced" => view'.ready)
  BY <1>7 DEF Inv, Flags
<1>10. CASE UNCHANGED up /\ \E why \in {"conflict", "not-editable"} : Recover(d, why)
  <2>1. PICK why \in {"conflict", "not-editable"} : Recover(d, why)
    BY <1>10
  <2>2. why \in Reasons
    BY DEF Reasons, Final
  <2>3. PutAside(d) /\ asking' = FALSE
    BY <1>4, <2>1, <2>2, RecoverOK
  <2>4. Told(draft', lastOp)
    BY <1>10 DEF Told
  <2>5. QED BY <1>2, <1>4, <1>7, <1>8, <1>9, <2>3, <2>4, AsideStep
<1>11. CASE done /\ Drop /\ CompleteShare(view', sent, rev)
  <2>1. /\ draft' = NoDraft /\ due' = "no" /\ asking' = FALSE /\ active' = FALSE
        /\ waiting' = FALSE /\ Told(draft', lastOp)
    BY <1>11, ShareCompletes DEF Drop
  <2>2. Flags'
    BY <1>7, <1>9, <2>1 DEF Flags, Inv
  <2>3. Inv'
    BY <1>7, <1>8, <2>1, <2>2, UsualStep
  <2>4. Kept
    <3>1. InFlight(r.op) /\ r.content = draft.text
      BY <1>2, <1>3, <1>11 DEF InFlight
    <3>2. r.op \in note.kept \/ note.vis = "gone" \/ ~InEffect(r)
      BY <1>5 DEF ReceiptOK, InEffect
    <3>3. QED BY <3>1, <3>2 DEF Kept
  <2>5. QED BY <2>3, <2>4
<1>12. CASE /\ UNCHANGED <<up, active, waiting>> /\ draft' = d /\ asking' = FALSE
            /\ due' \in {due, "micro"}
  <2>1. draft' # NoDraft
    BY <1>4, <1>12, DraftThere
  <2>2. Flags'
    BY <1>2, <1>4, <1>7, <1>9, <1>12, <2>1 DEF Flags, Inv
  <2>3. Told(draft', lastOp') /\ lastOp' \in {lastOp, lastOp + 1}
    BY <1>12 DEF Told
  <2>4. QED BY <1>4, <1>7, <1>8, <1>12, <2>1, <2>2, <2>3, TabStep DEF Kept
<1>13. QED BY <1>6, <1>10, <1>11, <1>12

\* The draft goes on in the same way.
LEMMA SameDraftStep ==
  ASSUME Inv, UNCHANGED <<note, phase, checkpoints, receipts, session, late, lastOp,
                          inputs, outside, active>>,
         \/ draft' = draft
         \/ /\ draft # NoDraft /\ Alike(draft, draft')
            /\ draft'.composing = draft.composing,
         due' \in {"no", "timer", "micro"}, draft = NoDraft => due' = "no",
         waiting' \in BOOLEAN, waiting' => waiting /\ view'.ready /\ view'.step = 2,
         asking' \in BOOLEAN, link' \in {"synced", "opening", "cut", "ended"},
         link' = "synced" => view'.ready, Told(draft', lastOp),
         SeesNote(view', note, phase), StreamOK(down', view', note, phase, receipts)
  PROVE  Inv' /\ Kept
<1>1. \/ draft' = draft
      \/ /\ draft # NoDraft /\ draft' # NoDraft /\ Alike(draft, draft')
         /\ draft'.composing = draft.composing
  BY DraftThere DEF Alike
<1>2. Flags'
  BY <1>1 DEF Flags, Inv
<1>3. Kept
  BY <1>1 DEF Kept
<1>4. draft' = NoDraft \/ (draft # NoDraft /\ (draft' = draft \/ Alike(draft, draft')))
  BY <1>1
<1>5. Inv'
  BY <1>2, <1>4, UsualStep
<1>6. QED BY <1>3, <1>5

LEMMA Received ==
  ASSUME Inv, NEW type, Receive(type)
  PROVE  /\ down # <<>> /\ down' = Tail(down) /\ Head(down).t = type
         /\ UNCHANGED <<note, phase, checkpoints, receipts, session, late, lastOp,
                        inputs, outside>>
  BY DEF Receive, room

\* Nothing is made of the message.
LEMMA NothingKeeps ==
  ASSUME Inv, down # <<>>, down' = Tail(down), Head(down).t # "snapshot",
         UNCHANGED <<note, phase, checkpoints, receipts, session, late, lastOp,
                     inputs, outside, link>>,
         Nothing, SeesNote(view', note, phase), view'.rev = view.rev,
         view'.step = view.step, view'.ready = view.ready
  PROVE  Inv' /\ Kept
<1>1. StreamOK(down', view', note, phase, receipts)
  BY Heard
<1>2. /\ UNCHANGED <<draft, active, due, asking, waiting, up>> /\ Told(draft', lastOp)
  BY DEF Nothing, Told
<1>3. QED BY <1>1, <1>2, SameDraftStep DEF Inv, Flags

LEMMA ReceiveSavedKeeps ==
  ASSUME Inv, ReceiveSaved
  PROVE  Inv' /\ Kept
<1>1. /\ down # <<>> /\ down' = Tail(down) /\ Head(down).t = "saved"
      /\ UNCHANGED <<note, phase, checkpoints, receipts, session, late, lastOp,
                     inputs, outside>>
  BY Received DEF ReceiveSaved
<1>2. link' = link
  BY DEF ReceiveSaved
<1>3. CASE InFlight(Head(down).op) /\ Accept(Head(down).rev)
  <2>1. Accepts(Head(down))
    BY <1>1 DEF Accepts
  <2>2. QED BY <1>1, <1>2, <1>3, <2>1, AcceptKeeps
<1>4. CASE Nothing /\ UNCHANGED view
  <2>1. SeesNote(view', note, phase)
    BY <1>4 DEF Inv
  <2>2. QED BY <1>1, <1>2, <1>4, <2>1, NothingKeeps
<1>5. QED BY <1>3, <1>4 DEF ReceiveSaved

LEMMA UnknownKeeps ==
  ASSUME Inv, down # <<>>, down' = Tail(down), Head(down).t # "snapshot",
         draft # NoDraft, draft.flight # NoFlight, Unknown,
         UNCHANGED <<note, phase, checkpoints, receipts, session, late, lastOp,
                     inputs, outside, link>>
  PROVE  Inv' /\ Kept
<1>1. view' = view
  BY DEF Unknown
<1>2. StreamOK(down', view', note, phase, receipts) /\ SeesNote(view', note, phase)
  BY <1>1, Heard DEF Inv
<1>3. /\ draft \in Drafts /\ DraftOK(draft, note, phase, receipts, lastOp)
      /\ ~draft.composing => draft.committed = draft.text
      /\ draft.flight \in Flights /\ draft.flight.op \in 1 .. lastOp
  BY DraftTyped
<1>4. draft.reason \in Reasons
  BY <1>3 DEF Drafts, Reasons
<1>5. link' \in {"synced", "opening", "cut", "ended"} /\ (link' = "synced" => view'.ready)
  BY <1>1 DEF Inv, Flags
<1>6. CASE UNCHANGED up /\ \E why \in Reasons : Recover(draft, why)
  <2>1. PutAside(draft) /\ asking' = FALSE
    BY <1>3, <1>6, RecoverOK
  <2>2. Told(draft', lastOp)
    BY <1>6 DEF Told
  <2>3. QED BY <1>2, <1>5, <2>1, <2>2, AsideAsItIs
<1> DEFINE why == IF draft.reason # "result-unknown" THEN draft.reason
                  ELSE IF draft.composing /\ ~active
                       THEN "interrupted-composition" ELSE "none"
<1>7. CASE /\ draft' = [draft EXCEPT !.flight = NoFlight, !.reason = why]
           /\ asking' = FALSE /\ due' = "micro" /\ UNCHANGED <<active, waiting, up>>
  <2>1. why \in Reasons
    BY <1>4 DEF Reasons, Final
  <2> HIDE DEF why
  <2>2. /\ draft' \in Drafts /\ draft'.flight = NoFlight /\ draft'.base = draft.base
        /\ draft'.baseRev = draft.baseRev /\ draft'.phaseRev = draft.phaseRev
        /\ draft'.step = draft.step /\ draft'.text = draft.text
        /\ draft'.committed = draft.committed /\ draft'.composing = draft.composing
    BY <1>3, <1>7, <2>1 DEF Drafts, Reasons
  <2>3. Alike(draft, draft')
    BY <1>3, <2>2 DEF Alike
  <2>4. Told(draft', lastOp)
    BY <1>7 DEF Told
  <2>5. waiting' => waiting /\ view'.ready /\ view'.step = 2
    BY <1>1, <1>7 DEF Inv, Flags
  <2>6. waiting' \in BOOLEAN /\ asking' \in BOOLEAN /\ due' \in {"no", "timer", "micro"}
    BY <1>7 DEF Inv, Flags
  <2>7. QED BY <1>2, <1>5, <1>7, <2>2, <2>3, <2>4, <2>5, <2>6, SameDraftStep
<1>8. CASE /\ Tell(Save(draft.flight)) /\ asking' = TRUE
           /\ UNCHANGED <<draft, active, due, waiting>>
  <2>1. Known(note, phase, draft.flight.expPhase, draft.flight.expRev, draft.flight.over)
    BY <1>3 DEF DraftOK
  <2>2. Told(draft', lastOp)
    BY <1>3, <1>8, <2>1, FlightTells DEF Inv, Flags
  <2>3. waiting' => waiting /\ view'.ready /\ view'.step = 2
    BY <1>1, <1>8 DEF Inv, Flags
  <2>4. waiting' \in BOOLEAN /\ asking' \in BOOLEAN /\ due' \in {"no", "timer", "micro"}
    BY <1>8 DEF Inv, Flags
  <2>5. QED BY <1>2, <1>5, <1>8, <2>2, <2>3, <2>4, SameDraftStep
<1>9. \/ UNCHANGED up /\ \E y \in {"not-editable", "conflict", draft.reason} : Recover(draft, y)
      \/ /\ draft' = [draft EXCEPT !.flight = NoFlight, !.reason = why]
         /\ asking' = FALSE /\ due' = "micro" /\ UNCHANGED <<active, waiting, up>>
      \/ /\ Tell(Save(draft.flight)) /\ asking' = TRUE
         /\ UNCHANGED <<draft, active, due, waiting>>
  <2>1. why = IF [draft EXCEPT !.flight = NoFlight].reason # "result-unknown"
              THEN [draft EXCEPT !.flight = NoFlight].reason
              ELSE IF draft.composing /\ ~active
                   THEN "interrupted-composition" ELSE "none"
    BY <1>3 DEF Drafts
  <2>2. QED BY <2>1 DEF Unknown
<1>10. \A y \in {"not-editable", "conflict", draft.reason} : y \in Reasons
  BY <1>4 DEF Reasons, Final
<1> HIDE DEF why
<1>11. QED BY <1>6, <1>7, <1>8, <1>9, <1>10

LEMMA ReceiveStatusKeeps ==
  ASSUME Inv, ReceiveStatus
  PROVE  Inv' /\ Kept
<1>1. /\ down # <<>> /\ down' = Tail(down) /\ Head(down).t = "status"
      /\ UNCHANGED <<note, phase, checkpoints, receipts, session, late, lastOp,
                     inputs, outside>>
  BY Received DEF ReceiveStatus
<1>2. link' = link
  BY DEF ReceiveStatus
<1>3. CASE Nothing /\ UNCHANGED view
  <2>1. SeesNote(view', note, phase)
    BY <1>3 DEF Inv
  <2>2. QED BY <1>1, <1>2, <1>3, <2>1, NothingKeeps
<1>4. CASE InFlight(Head(down).op) /\ Head(down).accepted /\ Accept(Head(down).rev)
  <2>1. Accepts(Head(down))
    BY <1>1, <1>4 DEF Accepts
  <2>2. QED BY <1>1, <1>2, <1>4, <2>1, AcceptKeeps
<1>5. CASE InFlight(Head(down).op) /\ Unknown
  BY <1>1, <1>2, <1>5, UnknownKeeps DEF InFlight
<1>6. QED BY <1>3, <1>4, <1>5 DEF ReceiveStatus

LEMMA ReceiveErrorKeeps ==
  ASSUME Inv, ReceiveError
  PROVE  Inv' /\ Kept
<1>1. /\ down # <<>> /\ down' = Tail(down) /\ Head(down).t = "error"
      /\ UNCHANGED <<note, phase, checkpoints, receipts, session, late, lastOp,
                     inputs, outside>>
  BY Received DEF ReceiveError
<1>2. link' = link /\ view' = view
  BY DEF ReceiveError
<1>3. SeesNote(view', note, phase) /\ StreamOK(down', view', note, phase, receipts)
  BY <1>1, <1>2, Heard DEF Inv
<1>4. link' \in {"synced", "opening", "cut", "ended"} /\ (link' = "synced" => view'.ready)
  BY <1>2 DEF Inv, Flags
<1>5. CASE Nothing
  BY <1>1, <1>2, <1>3, <1>5, NothingKeeps
<1>6. CASE /\ InFlight(Head(down).op) /\ Ask(draft)
           /\ UNCHANGED <<draft, active, due, waiting>>
  <2>1. Told(draft', lastOp) /\ asking' = TRUE
    BY <1>6, DraftTyped, AskTells DEF InFlight, Ask
  <2>2. waiting' => waiting /\ view'.ready /\ view'.step = 2
    BY <1>2, <1>6 DEF Inv, Flags
  <2>3. waiting' \in BOOLEAN /\ due' \in {"no", "timer", "micro"}
        /\ (draft = NoDraft => due' = "no")
    BY <1>6 DEF Inv, Flags
  <2>4. QED BY <1>1, <1>3, <1>4, <1>6, <2>1, <2>2, <2>3, SameDraftStep
<1>7. CASE /\ InFlight(Head(down).op) /\ UNCHANGED up
           /\ \E why \in {"conflict", "not-editable"} : Recover(draft, why)
  <2>1. PICK why \in {"conflict", "not-editable"} : Recover(draft, why)
    BY <1>7
  <2>2. draft # NoDraft /\ why \in Reasons
    BY <1>7 DEF InFlight, Reasons, Final
  <2>3. PutAside(draft) /\ asking' = FALSE
    BY <2>1, <2>2, DraftTyped, RecoverOK
  <2>4. Told(draft', lastOp)
    BY <1>7 DEF Told
  <2>5. QED BY <1>1, <1>3, <1>4, <2>2, <2>3, <2>4, AsideAsItIs
<1>8. QED BY <1>5, <1>6, <1>7 DEF ReceiveError

\* Another note is seen.
LEMMA NoteSeen ==
  ASSUME Inv, NEW n \in Contents, view' = [view EXCEPT !.note = n],
         n.vis # "gone" => Known(note, phase, view.rev, n.rev, n.content)
  PROVE  /\ SeesNote(view', note, phase) /\ view'.note = n /\ view'.rev = view.rev
         /\ view'.step = view.step /\ view'.ready = view.ready
<1>1. view \in Views /\ SeesNote(view, note, phase)
  BY DEF Inv, SeesNote
<1>2. /\ view' \in Views /\ view'.note = n /\ view'.rev = view.rev
      /\ view'.step = view.step /\ view'.ready = view.ready
  BY <1>1 DEF Views
<1>3. QED BY <1>1, <1>2 DEF SeesNote

LEMMA NoteSeenKeeps ==
  ASSUME Inv, down # <<>>, down' = Tail(down), Head(down).t # "snapshot",
         UNCHANGED <<note, phase, checkpoints, receipts, session, late, lastOp,
                     inputs, outside, link>>,
         NEW n \in Contents, view' = [view EXCEPT !.note = n],
         n.vis # "gone" => Known(note, phase, view.rev, n.rev, n.content),
         NEW why \in Reasons,
         \/ draft # NoDraft /\ Recover(draft, why) /\ UNCHANGED up
         \/ Nothing
  PROVE  Inv' /\ Kept
<1>1. /\ SeesNote(view', note, phase) /\ view'.rev = view.rev
      /\ view'.step = view.step /\ view'.ready = view.ready
  BY NoteSeen
<1>2. StreamOK(down', view', note, phase, receipts)
  BY <1>1, Heard
<1>3. CASE draft # NoDraft /\ Recover(draft, why) /\ UNCHANGED up
  <2>1. PutAside(draft) /\ asking' = FALSE
    BY <1>3, DraftTyped, RecoverOK
  <2>2. Told(draft', lastOp)
    BY <1>3 DEF Told
  <2>3. link' \in {"synced", "opening", "cut", "ended"} /\ (link' = "synced" => view'.ready)
    BY <1>1 DEF Inv, Flags
  <2>4. QED BY <1>1, <1>2, <1>3, <2>1, <2>2, <2>3, AsideAsItIs
<1>4. CASE Nothing
  BY <1>1, <1>4, NothingKeeps
<1>5. QED BY <1>3, <1>4

LEMMA ReceiveNoteKeeps ==
  ASSUME Inv, ReceiveNote
  PROVE  Inv' /\ Kept
<1>1. /\ down # <<>> /\ down' = Tail(down) /\ Head(down).t = "note"
      /\ UNCHANGED <<note, phase, checkpoints, receipts, session, late, lastOp,
                     inputs, outside>>
  BY Received DEF ReceiveNote
<1> DEFINE n == Head(down).note
<1>2. n \in Contents /\ (n.vis # "gone" => Known(note, phase, view.rev, n.rev, n.content))
  BY <1>1, FirstMessage, MessageTypes DEF MessagesTyped, Tells
<1>3. /\ view' = [view EXCEPT !.note = n] /\ link' = link
      /\ \/ draft # NoDraft /\ Recover(draft, "conflict") /\ UNCHANGED up
         \/ Nothing
  BY DEF ReceiveNote
<1>4. "conflict" \in Reasons
  BY DEF Reasons, Final
<1> HIDE DEF n
<1>5. QED BY <1>1, <1>2, <1>3, <1>4, NoteSeenKeeps

LEMMA ReceiveDeletedKeeps ==
  ASSUME Inv, ReceiveDeleted
  PROVE  Inv' /\ Kept
<1>1. /\ down # <<>> /\ down' = Tail(down) /\ Head(down).t = "deleted"
      /\ UNCHANGED <<note, phase, checkpoints, receipts, session, late, lastOp,
                     inputs, outside>>
  BY Received DEF ReceiveDeleted
<1> DEFINE n == Shown(Gone)
<1>2. n \in Contents /\ n.vis = "gone"
  BY BlankIsText DEF Shown, Gone, Contents
<1>3. /\ view' = [view EXCEPT !.note = n] /\ link' = link
      /\ \/ draft # NoDraft /\ Recover(draft, "missing") /\ UNCHANGED up
         \/ Nothing
  BY DEF ReceiveDeleted
<1>4. "missing" \in Reasons
  BY DEF Reasons, Final
<1> HIDE DEF n
<1>5. QED BY <1>1, <1>2, <1>3, <1>4, NoteSeenKeeps

LEMMA ReceivePhaseKeeps ==
  ASSUME Inv, ReceivePhase
  PROVE  Inv' /\ Kept
<1>1. /\ down # <<>> /\ down' = Tail(down) /\ Head(down).t = "phase"
      /\ UNCHANGED <<note, phase, checkpoints, receipts, session, late, lastOp,
                     inputs, outside>>
  BY Received DEF ReceivePhase
<1>2. view.rev = Head(down).rev /\ view.step = Head(down).step
  BY <1>1, FirstMessage
<1>3. view \in Views /\ SeesNote(view, note, phase)
  BY DEF Inv, SeesNote
<1>4. link' = link /\ view' = [view EXCEPT !.step = Head(down).step, !.rev = Head(down).rev]
  BY DEF ReceivePhase
<1>5. /\ view' \in Views /\ view'.note = view.note /\ view'.rev = view.rev
      /\ view'.step = view.step /\ view'.ready = view.ready
  BY <1>2, <1>3, <1>4 DEF Views
<1>6. SeesNote(view', note, phase)
  BY <1>3, <1>5 DEF SeesNote
<1>7. StreamOK(down', view', note, phase, receipts)
  BY <1>1, <1>5, Heard
<1>8. link' \in {"synced", "opening", "cut", "ended"} /\ (link' = "synced" => view'.ready)
  BY <1>4, <1>5 DEF Inv, Flags
<1>9. CASE draft = NoDraft /\ StillWaiting(Head(down))
           /\ UNCHANGED <<draft, active, due, asking, up>>
  <2>1. /\ Told(draft', lastOp) /\ waiting' = FALSE /\ due' = "no" /\ asking' \in BOOLEAN
    BY <1>9 DEF Told, StillWaiting, Inv, Flags
  <2>2. QED BY <1>1, <1>6, <1>7, <1>8, <1>9, <2>1, SameDraftStep
<1>10. CASE draft # NoDraft /\ draft.flight # NoFlight /\ RecoverAsking(draft, "not-editable")
  <2>1. "not-editable" \in Reasons
    BY DEF Reasons, Final
  <2>2. PutAside(draft) /\ asking' = TRUE /\ Told(draft', lastOp)
    BY <1>10, <2>1, DraftTyped, RecoverAskingOK
  <2>3. QED BY <1>1, <1>6, <1>7, <1>8, <1>10, <2>2, AsideAsItIs
<1>11. CASE draft # NoDraft /\ Recover(draft, "not-editable") /\ UNCHANGED up
  <2>1. "not-editable" \in Reasons
    BY DEF Reasons, Final
  <2>2. PutAside(draft) /\ asking' = FALSE
    BY <1>11, <2>1, DraftTyped, RecoverOK
  <2>3. Told(draft', lastOp)
    BY <1>11 DEF Told
  <2>4. QED BY <1>1, <1>6, <1>7, <1>8, <1>11, <2>2, <2>3, AsideAsItIs
<1>12. CASE /\ draft # NoDraft /\ StillWaiting(Head(down)) /\ UNCHANGED <<draft, active>>
            /\ \/ draft.flight # NoFlight /\ Ask(draft) /\ due' = "no"
               \/ due' \in {"micro", "no"} /\ UNCHANGED <<asking, up>>
  <2>1. Told(draft', lastOp) /\ asking' \in BOOLEAN
    <3>1. CASE draft.flight # NoFlight /\ Ask(draft)
      BY <1>12, <3>1, DraftTyped, AskTells DEF Ask
    <3>2. CASE UNCHANGED <<asking, up>>
      BY <3>2 DEF Told, Inv, Flags
    <3>3. QED BY <1>12, <3>1, <3>2
  <2>2. waiting' \in BOOLEAN /\ (waiting' => waiting /\ view'.ready /\ view'.step = 2)
    BY <1>5, <1>12 DEF StillWaiting, Inv, Flags
  <2>3. QED BY <1>1, <1>6, <1>7, <1>8, <1>12, <2>1, <2>2, SameDraftStep
<1>13. QED BY <1>9, <1>10, <1>11, <1>12 DEF ReceivePhase

\* The tab hears how the room is now.
LEMMA SnapshotSeen ==
  ASSUME Inv, down # <<>>, down' = Tail(down), Head(down).t = "snapshot",
         NEW m, m = Head(down),
         view' = [note |-> m.note, step |-> m.step, rev |-> m.rev, ready |-> TRUE]
  PROVE  /\ SeesNote(view', note, phase) /\ view'.ready
         /\ StreamOK(down', view', note, phase, receipts)
         /\ waiting => m.rev # view.rev
         /\ m.rollback \in Nat /\ m.rollback <= phase.rollback
<1>1. /\ m \in Messages /\ SnapshotOK(m, note, phase)
      /\ view.ready => view.rev < m.rev
  BY FirstMessage
<1>2. m.note \in Contents /\ m.step \in 1 .. 3 /\ m.rev \in Nat /\ m.rollback \in Nat
  BY <1>1, MessageTypes DEF MessagesTyped
<1>3. /\ view' \in Views /\ view'.note = m.note /\ view'.step = m.step
      /\ view'.rev = m.rev /\ view'.ready = TRUE
  BY <1>2 DEF Views
<1>4. SeesNote(view', note, phase)
  BY <1>1, <1>3 DEF SeesNote, SnapshotOK
<1>5. StreamOK(down', view', note, phase, receipts)
  <2>1. StreamOK(down, view, note, phase, receipts)
    BY DEF Inv
  <2>2. QED BY <1>3, <2>1, TailKeeps
<1>6. waiting => m.rev # view.rev
  BY <1>1, <1>2 DEF Inv, Flags, SeesNote, Views
<1>7. QED BY <1>1, <1>2, <1>3, <1>4, <1>5, <1>6 DEF SnapshotOK

LEMMA SnapshotDraftKeeps ==
  ASSUME Inv, UNCHANGED <<note, phase, checkpoints, receipts, session, late, lastOp,
                          inputs, outside>>,
         link' = "synced", view'.ready, SeesNote(view', note, phase),
         StreamOK(down', view', note, phase, receipts),
         NEW m, waiting => m.rev # view.rev,
         draft # NoDraft, NEW d, Alike(draft, d), d.composing = draft.composing,
         d.flight = draft.flight, d.reason \in Reasons,
         \/ SnapshotAsks(d, m)
         \/ draft' = d /\ StillWaiting(m) /\ UNCHANGED <<active, due, asking, up>>
         \/ SnapshotComposes(d, m) \/ SnapshotGoesOn(d, m)
  PROVE  Inv' /\ Kept
<1>1. /\ DraftOK(d, note, phase, receipts, lastOp) /\ d \in Drafts
      /\ SameFlight(draft, d, lastOp) /\ (~d.composing => d.committed = d.text)
  BY DraftTyped, AlikeOK DEF Alike, SameFlight
<1>2. d.flight # NoFlight => d.flight.op \in Nat
  BY DraftTyped
<1>3. CASE UNCHANGED up /\ \E why \in Reasons : Recover(d, why)
  <2>1. PutAside(d) /\ asking' = FALSE
    BY <1>1, <1>3, RecoverOK
  <2>2. Told(draft', lastOp)
    BY <1>3 DEF Told
  <2>3. QED BY <1>1, <2>1, <2>2, AsideStep
<1>4. CASE d.flight # NoFlight /\ \E why \in Reasons : RecoverAsking(d, why)
  <2>1. PutAside(d) /\ asking' = TRUE /\ Told(draft', lastOp)
    BY <1>1, <1>2, <1>4, RecoverAskingOK
  <2>2. QED BY <1>1, <2>1, AsideStep
<1>5. CASE /\ draft' = d /\ StillWaiting(m) /\ active' = active
           /\ due' \in {"no", "timer", "micro"} /\ asking' \in BOOLEAN
           /\ UNCHANGED up \/ (d.flight # NoFlight /\ Ask(d))
  <2>1. Told(draft', lastOp)
    <3>1. CASE UNCHANGED up
      BY <3>1 DEF Told
    <3>2. CASE d.flight # NoFlight /\ Ask(d)
      BY <1>2, <3>2, AskTells DEF Ask
    <3>3. QED BY <1>5, <3>1, <3>2
  <2>2. waiting' = FALSE
    BY <1>5 DEF StillWaiting, Inv, Flags
  <2>3. QED BY <1>5, <2>1, <2>2, SameDraftStep
<1>6. due \in {"no", "timer", "micro"} /\ asking \in BOOLEAN
  BY DEF Inv, Flags
<1>7. {"interrupted-composition", "not-editable", "missing", "conflict"} \subseteq Reasons
  BY DEF Reasons, Final
<1>8. CASE SnapshotAsks(d, m)
  <2>1. \/ \E why \in Reasons : RecoverAsking(d, why)
        \/ Ask(d) /\ draft' = d /\ due' = "no" /\ UNCHANGED active /\ StillWaiting(m)
    BY <1>7, <1>8 DEF SnapshotAsks
  <2>2. d.flight # NoFlight /\ (Ask(d) => asking' = TRUE)
    BY <1>8 DEF SnapshotAsks, Ask
  <2>3. QED BY <1>4, <1>5, <2>1, <2>2
<1>9. CASE draft' = d /\ StillWaiting(m) /\ UNCHANGED <<active, due, asking, up>>
  BY <1>5, <1>6, <1>9
<1>10. CASE SnapshotComposes(d, m)
  BY <1>3, <1>5, <1>6, <1>7, <1>10 DEF SnapshotComposes
<1>11. CASE SnapshotGoesOn(d, m)
  BY <1>3, <1>5, <1>6, <1>7, <1>11 DEF SnapshotGoesOn
<1>12. QED BY <1>8, <1>9, <1>10, <1>11

LEMMA ReceiveSnapshotKeeps ==
  ASSUME Inv, ReceiveSnapshot
  PROVE  Inv' /\ Kept
<1> DEFINE m == Head(down)
           d == [draft EXCEPT !.reason = IF draft.reason = "send-failed" THEN "none"
                                         ELSE draft.reason]
<1>1. /\ down # <<>> /\ down' = Tail(down) /\ m.t = "snapshot"
      /\ UNCHANGED <<note, phase, checkpoints, receipts, session, late, lastOp,
                     inputs, outside>>
  BY Received DEF ReceiveSnapshot
<1>2. /\ link' = "synced"
      /\ view' = [note |-> m.note, step |-> m.step, rev |-> m.rev, ready |-> TRUE]
      /\ \/ /\ draft = NoDraft /\ StillWaiting(m)
            /\ UNCHANGED <<draft, active, due, asking, up>>
         \/ /\ draft # NoDraft /\ RolledBack(draft, m)
            /\ Drop /\ StillWaiting(m) /\ UNCHANGED up
         \/ /\ draft # NoDraft
            /\ \/ SnapshotAsks(d, m)
               \/ draft' = d /\ StillWaiting(m) /\ UNCHANGED <<active, due, asking, up>>
               \/ SnapshotComposes(d, m) \/ SnapshotGoesOn(d, m)
  BY DEF ReceiveSnapshot
<1> HIDE DEF m, d
<1>3. /\ SeesNote(view', note, phase) /\ view'.ready
      /\ StreamOK(down', view', note, phase, receipts)
      /\ waiting => m.rev # view.rev
      /\ m.rollback \in Nat /\ m.rollback <= phase.rollback
  BY <1>1, <1>2, SnapshotSeen DEF m
<1>4. StillWaiting(m) => waiting' = FALSE
  BY <1>3 DEF StillWaiting, Inv, Flags
<1>5. CASE draft = NoDraft /\ StillWaiting(m) /\ UNCHANGED <<draft, active, due, asking, up>>
  <2>1. Told(draft', lastOp) /\ due' = "no" /\ asking' \in BOOLEAN
    BY <1>5 DEF Told, Inv, Flags
  <2>2. QED BY <1>1, <1>2, <1>3, <1>4, <1>5, <2>1, SameDraftStep
<1>6. CASE /\ draft # NoDraft /\ RolledBack(draft, m)
           /\ Drop /\ StillWaiting(m) /\ UNCHANGED up
  <2>1. draft' = NoDraft /\ due' = "no" /\ asking' = FALSE /\ active' = FALSE
        /\ waiting' = FALSE /\ Told(draft', lastOp)
    BY <1>4, <1>6 DEF Drop, Told
  <2>2. Flags'
    BY <1>1, <1>2, <1>3, <2>1 DEF Flags, Inv
  <2>3. draft.phaseRev < phase.rollback
    <3>1. draft.phaseRev \in Nat /\ phase.rollback \in Nat
      BY <1>6, DraftTyped DEF Inv, RoomOK, Phases
    <3>2. QED BY <1>3, <1>6, <3>1 DEF RolledBack
  <2>4. QED BY <1>1, <1>3, <2>1, <2>2, <2>3, UsualStep DEF Kept
<1>7. CASE /\ draft # NoDraft
           /\ \/ SnapshotAsks(d, m)
              \/ draft' = d /\ StillWaiting(m) /\ UNCHANGED <<active, due, asking, up>>
              \/ SnapshotComposes(d, m) \/ SnapshotGoesOn(d, m)
  <2>1. draft \in Drafts /\ (~draft.composing => draft.committed = draft.text)
    BY <1>7, DraftTyped
  <2> DEFINE why == IF draft.reason = "send-failed" THEN "none" ELSE draft.reason
  <2>2. why \in Reasons
    BY <2>1 DEF Drafts, Reasons
  <2>3. d = [draft EXCEPT !.reason = why]
    BY DEF d
  <2> HIDE DEF why
  <2>4. Alike(draft, d) /\ d.composing = draft.composing /\ d.flight = draft.flight
        /\ d.reason \in Reasons
    BY <2>1, <2>2, <2>3, ReasonOnly
  <2>5. QED BY <1>1, <1>2, <1>3, <1>7, <2>4, SnapshotDraftKeeps
<1>8. QED BY <1>2, <1>5, <1>6, <1>7

-----------------------------------------------------------------------------
\* The connection.

LEMMA QuietOK ==
  ASSUME NEW n, NEW p, NEW d, NEW last
  PROVE  SendsOK(Quiet, n, p, d, last)
<1>1. <<>> \in Seq(Requests) /\ DOMAIN <<>> = {}
  OBVIOUS
<1>2. Quiet \in Connections /\ Quiet.queue = <<>>
  BY <1>1 DEF Quiet, Connections
<1>3. QED BY <1>1, <1>2 DEF SendsOK

\* A connection is lost or opened: nothing that was not is on its way to the
\* room.
LEMMA ConnectionStep ==
  ASSUME Inv, UNCHANGED <<note, phase, checkpoints, receipts, lastOp>>, Flags',
         draft' = draft \/ (draft # NoDraft /\ Alike(draft, draft')),
         up' \in {up, Quiet}, \A c \in late' : c \in late \cup {up},
         SeesNote(view', note, phase), StreamOK(down', view', note, phase, receipts)
  PROVE  Inv' /\ Kept
<1>1. lastOp \in Nat /\ RoomOK
  BY DEF Inv, Flags
<1>2. RoomOK'
  BY <1>1, MoreOperations
<1>3. ASSUME draft' # NoDraft
      PROVE  DraftOK(draft', note, phase, receipts, lastOp) /\ SameFlight(draft, draft', lastOp)
  <2>1. draft # NoDraft /\ DraftOK(draft, note, phase, receipts, lastOp)
    BY <1>3 DEF Inv
  <2>2. CASE draft' = draft
    BY <2>1, <2>2 DEF SameFlight
  <2>3. CASE Alike(draft, draft')
    BY <2>1, <2>3, AlikeOK DEF Alike, SameFlight
  <2>4. QED BY <2>2, <2>3
<1>4. ASSUME NEW c \in late' \cup {up'}
      PROVE  SendsOK(c, note, phase, draft', lastOp)
  <2>1. CASE c = Quiet
    BY <2>1, QuietOK
  <2>2. CASE c \in late \cup {up}
    <3>1. SendsOK(c, note, phase, draft, lastOp)
      BY <2>2 DEF Inv
    <3>2. QED BY <1>1, <1>3, <3>1, SendsOn
  <2>3. QED BY <2>1, <2>2
<1>5. Inv'
  BY <1>2, <1>3, <1>4 DEF Inv
<1>6. Kept
  BY DraftThere DEF Kept, Alike
<1>7. QED BY <1>5, <1>6

\* The snapshot that opens a connection, before the view is ready.
LEMMA Opened ==
  ASSUME Inv, NEW v, v.rev \in Nat, v.rev <= phase.rev, v.ready = FALSE, Connect
  PROVE  StreamOK(down', v, note, phase, receipts)
<1> DEFINE e == Snapshot(note, phase)
<1>1. News(e, note, phase, receipts) /\ e.t = "snapshot" /\ SnapshotOK(e, note, phase)
  BY SnapshotIsNews DEF Inv, RoomOK
<1>2. down' = <<e>>
  BY DEF Connect
<1> HIDE DEF e
<1>3. <<e>> = Append(<<>>, e) /\ DOMAIN <<>> = {}
  OBVIOUS
<1>4. StreamOK(<<>>, v, note, phase, receipts)
  BY NothingOnTheWay
<1>5. StreamOK(Append(<<>>, e), v, note, phase, receipts)
  BY <1>1, <1>3, <1>4, AppendKeeps
<1>6. QED BY <1>2, <1>3, <1>5

\* The view of a connection that is gone.
LEMMA NotReady ==
  ASSUME Inv, view' = [view EXCEPT !.ready = FALSE]
  PROVE  /\ view'.rev = view.rev /\ view'.step = view.step /\ view'.ready = FALSE
         /\ SeesNote(view', note, phase)
<1>1. view \in Views /\ SeesNote(view, note, phase)
  BY DEF Inv, SeesNote
<1>2. /\ view' \in Views /\ view'.rev = view.rev /\ view'.step = view.step
      /\ view'.ready = FALSE /\ view'.note = view.note
  BY <1>1 DEF Views
<1>3. QED BY <1>1, <1>2 DEF SeesNote

LEMMA HearOfCutKeeps ==
  ASSUME Inv, HearOfCut
  PROVE  Inv' /\ Kept
<1>1. /\ view'.rev = view.rev /\ view'.step = view.step /\ view'.ready = FALSE
      /\ SeesNote(view', note, phase)
  BY NotReady DEF HearOfCut
<1>2. /\ UNCHANGED <<note, phase, checkpoints, receipts, session, link, up, late, down>>
      /\ UNCHANGED <<draft, active, due, lastOp, inputs, outside>>
      /\ link = "cut" /\ waiting' = FALSE /\ asking' = FALSE
  BY DEF HearOfCut, room, net
<1>3. StreamOK(down', view', note, phase, receipts)
  BY <1>1, <1>2, ViewMayRest DEF Inv
<1>4. Flags'
  BY <1>2 DEF Flags, Inv
<1>5. QED BY <1>1, <1>2, <1>3, <1>4, ConnectionStep

LEMMA ReopenKeeps ==
  ASSUME Inv, Reopen
  PROVE  Inv' /\ Kept
<1>1. /\ UNCHANGED <<note, phase, checkpoints, receipts, session, late>>
      /\ UNCHANGED <<draft, active, due, asking, waiting, view, lastOp, inputs, outside>>
      /\ Connect /\ view.ready = FALSE
  BY DEF Reopen, room, tab, Inv, SeesNote, Views
<1>2. SeesNote(view', note, phase) /\ view.rev \in Nat /\ view.rev <= phase.rev
  BY <1>1 DEF Inv, SeesNote, Views
<1>3. StreamOK(down', view', note, phase, receipts)
  BY <1>1, <1>2, Opened
<1>4. Flags'
  BY <1>1 DEF Flags, Inv, Connect
<1>5. QED BY <1>1, <1>2, <1>3, <1>4, ConnectionStep DEF Connect

LEMMA EndOfSessionKeeps ==
  ASSUME Inv, EndOfSession
  PROVE  Inv' /\ Kept
<1>1. /\ view'.rev = view.rev /\ view'.step = view.step /\ view'.ready = FALSE
      /\ SeesNote(view', note, phase)
  BY NotReady DEF EndOfSession
<1>2. /\ UNCHANGED <<note, phase, checkpoints, receipts, session, late, down, lastOp>>
      /\ UNCHANGED <<inputs, outside>> /\ up' = Quiet /\ link' = "ended"
  BY DEF EndOfSession, room
<1>3. StreamOK(down', view', note, phase, receipts)
  BY <1>1, <1>2, ViewMayRest DEF Inv
<1>4. CASE /\ draft = NoDraft /\ waiting' = FALSE /\ asking' = FALSE
           /\ UNCHANGED <<draft, active, due>>
  <2>1. Flags'
    BY <1>2, <1>4 DEF Flags, Inv
  <2>2. QED BY <1>1, <1>2, <1>3, <1>4, <2>1, ConnectionStep
<1>5. CASE draft # NoDraft /\ \E why \in Reasons : Recover(draft, why)
  <2>1. PutAside(draft) /\ asking' = FALSE
    BY <1>5, DraftTyped, RecoverOK
  <2>2. /\ Alike(draft, draft') /\ draft' # NoDraft /\ draft'.composing = draft.composing
        /\ due' = "no" /\ waiting' = FALSE /\ active' \in BOOLEAN /\ (active' => active)
    BY <2>1, DraftThere DEF PutAside
  <2>3. Flags'
    BY <1>2, <1>5, <2>1, <2>2 DEF Flags, Inv
  <2>4. QED BY <1>1, <1>2, <1>3, <1>5, <2>2, <2>3, ConnectionStep
<1>6. draft # NoDraft => \E why \in Reasons : Recover(draft, why)
  BY DEF EndOfSession, Reasons, Final
<1>7. QED BY <1>4, <1>5, <1>6 DEF EndOfSession

LEMMA LeftBehind == \A c \in Left : c \in late \cup {up}
  BY DEF Left

LEMMA BreakKeeps ==
  ASSUME Inv, Break
  PROVE  Inv' /\ Kept
<1>1. /\ UNCHANGED <<note, phase, checkpoints, receipts, session>>
      /\ UNCHANGED <<draft, active, due, asking, waiting, view, lastOp, inputs>>
      /\ link' = "cut" /\ late' = Left /\ up' = Quiet /\ down' = <<>>
  BY DEF Break, room, tab
<1>2. outside' \in 0 .. MaxOutside
  BY OutsideOK DEF Break
<1>3. SeesNote(view', note, phase)
  BY <1>1 DEF Inv
<1>4. StreamOK(down', view', note, phase, receipts)
  BY <1>1, NothingOnTheWay
<1>5. Flags'
  BY <1>1, <1>2 DEF Flags, Inv
<1>6. QED BY <1>1, <1>3, <1>4, <1>5, LeftBehind, ConnectionStep

\* A view of nothing.
LEMMA UnseenOK ==
  ASSUME Inv
  PROVE  SeesNote(Unseen, note, phase) /\ Unseen.rev = 0 /\ Unseen.ready = FALSE
         /\ phase.rev \in Nat
<1>1. Unseen \in Views
  BY BlankIsText DEF Unseen, Shown, Gone, Views, Contents
<1>2. /\ Unseen.rev = 0 /\ Unseen.step = 0 /\ Unseen.ready = FALSE
      /\ Unseen.note.vis = "gone"
  BY DEF Unseen, Shown, Gone
<1>3. phase.rev \in Nat
  BY DEF Inv, RoomOK, Phases
<1>4. QED BY <1>1, <1>2, <1>3 DEF SeesNote

LEMMA LoadKeeps ==
  ASSUME Inv, Load, session' \in BOOLEAN, outside' \in 0 .. MaxOutside,
         \A c \in late' : c \in late \cup {up}
  PROVE  Inv' /\ Kept
<1>1. /\ UNCHANGED <<note, phase, checkpoints, receipts, draft, lastOp, inputs>>
      /\ active' = FALSE /\ due' = "no" /\ asking' = FALSE /\ waiting' = FALSE
      /\ view' = Unseen /\ Connect
  BY DEF Load
<1>2. SeesNote(view', note, phase) /\ view'.rev = 0 /\ view'.ready = FALSE
      /\ phase.rev \in Nat
  BY <1>1, UnseenOK
<1>3. StreamOK(down', view', note, phase, receipts)
  <2> DEFINE v == view'
  <2>1. v.rev \in Nat /\ v.rev <= phase.rev /\ v.ready = FALSE
    BY <1>2
  <2> HIDE DEF v
  <2>2. StreamOK(down', v, note, phase, receipts)
    BY <1>1, <2>1, Opened
  <2>3. QED BY <2>2 DEF v
<1>4. Flags'
  BY <1>1, <1>2 DEF Flags, Inv, Connect
<1>5. QED BY <1>1, <1>2, <1>3, <1>4, ConnectionStep DEF Connect

LEMMA ReloadKeeps ==
  ASSUME Inv, Reload
  PROVE  Inv' /\ Kept
<1>1. Load /\ late' = Left /\ session' \in BOOLEAN /\ outside' \in 0 .. MaxOutside
  BY OutsideOK DEF Reload, Inv, Flags
<1>2. QED BY <1>1, LeftBehind, LoadKeeps

LEMMA LogInKeeps ==
  ASSUME Inv, LogIn
  PROVE  Inv' /\ Kept
<1>1. Load /\ late' = late /\ session' \in BOOLEAN /\ outside' \in 0 .. MaxOutside
  BY OutsideOK DEF LogIn
<1>2. QED BY <1>1, LoadKeeps

LEMMA ExpireKeeps ==
  ASSUME Inv, Expire
  PROVE  Inv' /\ Kept
<1>1. /\ UNCHANGED <<note, phase, checkpoints, receipts, link, up, down>>
      /\ UNCHANGED <<draft, active, due, asking, waiting, view, lastOp, inputs>>
      /\ session' = FALSE /\ late' = {}
  BY DEF Expire, tab
<1>2. outside' \in 0 .. MaxOutside
  BY OutsideOK DEF Expire
<1>3. SeesNote(view', note, phase) /\ StreamOK(down', view', note, phase, receipts)
  BY <1>1 DEF Inv
<1>4. Flags'
  BY <1>1, <1>2 DEF Flags, Inv
<1>5. QED BY <1>1, <1>3, <1>4, ConnectionStep

-----------------------------------------------------------------------------
\* The invariant holds.

LEMMA InitRoom ==
  ASSUME Init
  PROVE  /\ RoomOK /\ phase.step \in 1 .. 2 /\ phase.rev \in Nat
         /\ view = [note |-> Shown(note), step |-> phase.step, rev |-> phase.rev,
                    ready |-> TRUE]
<1>1. receipts = {} /\ lastOp = 0 /\ Blank \in Texts
  BY BlankIsText DEF Init
<1>2. /\ \A r \in receipts : ReceiptOK(r, note, phase, lastOp)
      /\ \A r, s \in receipts : r.op = s.op => r = s
  BY <1>1
<1>3. ASSUME /\ note = First.note /\ checkpoints = First.checkpoints
             /\ phase = [step |-> First.step, rev |-> First.rev, rollback |-> 0]
      PROVE  RoomOK
  <2>1. note \in Notes(lastOp)
    BY <1>1, <1>3 DEF First, Notes
  <2>2. phase \in Phases /\ phase.rollback <= phase.rev
    BY <1>3 DEF First, Phases
  <2>3. checkpoints = <<>>
    BY <1>3 DEF First
  <2>4. /\ checkpoints \in Seq([step : 1 .. 3, note : Notes(lastOp)])
        /\ DOMAIN checkpoints = {}
    BY <2>3
  <2>5. \A i \in DOMAIN checkpoints :
          /\ checkpoints[i].step < phase.step
          /\ \A j \in 1 .. i - 1 : checkpoints[j].step < checkpoints[i].step
    BY <2>4
  <2>6. QED BY <1>2, <2>1, <2>2, <2>4, <2>5 DEF RoomOK
<1>4. ASSUME \E a \in Texts, b \in Texts :
               /\ note = Shares(a, b).note /\ checkpoints = Shares(a, b).checkpoints
               /\ phase = [step |-> Shares(a, b).step, rev |-> Shares(a, b).rev,
                           rollback |-> 0]
      PROVE  RoomOK
  <2>1. PICK a \in Texts, b \in Texts :
             /\ note = Shares(a, b).note /\ checkpoints = Shares(a, b).checkpoints
             /\ phase = [step |-> Shares(a, b).step, rev |-> Shares(a, b).rev,
                         rollback |-> 0]
    BY <1>4
  <2>2. note \in Notes(lastOp)
    BY <1>1, <2>1 DEF Shares, Notes
  <2>3. phase \in Phases /\ phase.rollback <= phase.rev /\ phase.step = 2
    BY <2>1 DEF Shares, Phases
  <2> DEFINE c == [step |-> 1,
                   note |-> [content |-> a, rev |-> 1, vis |-> "private", kept |-> {}]]
  <2>4. checkpoints = <<c>> /\ c.step = 1 /\ c \in [step : 1 .. 3, note : Notes(lastOp)]
    BY <1>1, <2>1 DEF Shares, Notes
  <2> HIDE DEF c
  <2>5. /\ checkpoints \in Seq([step : 1 .. 3, note : Notes(lastOp)])
        /\ DOMAIN checkpoints = {1} /\ checkpoints[1] = c
    BY <2>4
  <2>6. \A i \in DOMAIN checkpoints :
          /\ checkpoints[i].step < phase.step
          /\ \A j \in 1 .. i - 1 : checkpoints[j].step < checkpoints[i].step
    BY <2>3, <2>4, <2>5
  <2>7. QED BY <1>2, <2>2, <2>3, <2>5, <2>6 DEF RoomOK
<1>5. \/ /\ note = First.note /\ checkpoints = First.checkpoints
         /\ phase = [step |-> First.step, rev |-> First.rev, rollback |-> 0]
      \/ \E a \in Texts, b \in Texts :
           /\ note = Shares(a, b).note /\ checkpoints = Shares(a, b).checkpoints
           /\ phase = [step |-> Shares(a, b).step, rev |-> Shares(a, b).rev,
                       rollback |-> 0]
  BY DEF Init
<1>6. phase.step \in 1 .. 2 /\ phase.rev \in Nat
  BY <1>5 DEF First, Shares
<1>7. view = [note |-> Shown(note), step |-> phase.step, rev |-> phase.rev,
              ready |-> TRUE]
  BY DEF Init
<1>8. QED BY <1>3, <1>4, <1>5, <1>6, <1>7

LEMMA InitKeeps ==
  ASSUME Init
  PROVE  Inv
<1>1. /\ RoomOK /\ phase.step \in 1 .. 2 /\ phase.rev \in Nat
      /\ view = [note |-> Shown(note), step |-> phase.step, rev |-> phase.rev,
                 ready |-> TRUE]
  BY InitRoom
<1>2. note \in Notes(lastOp)
  BY <1>1 DEF RoomOK
<1>3. /\ view \in Views /\ view.rev = phase.rev /\ view.step = phase.step /\ view.ready
      /\ view.note.rev = note.rev /\ view.note.content = note.content
  BY <1>1, <1>2 DEF Views, Shown, Contents, Notes
<1>4. StepSeen(phase, view.rev, view.step)
  BY <1>1, <1>3 DEF StepSeen
<1>5. Known(note, phase, view.rev, view.note.rev, view.note.content)
  BY <1>1, <1>3 DEF Known, From
<1>6. SeesNote(view, note, phase)
  BY <1>1, <1>3, <1>4, <1>5 DEF SeesNote
<1>7. /\ receipts = {} /\ session = TRUE
      /\ link = "synced" /\ up = Quiet /\ late = {} /\ down = <<>>
      /\ draft = NoDraft /\ active = FALSE /\ due = "no" /\ asking = FALSE
      /\ waiting = FALSE /\ lastOp = 0 /\ inputs = 0 /\ outside = 0
  BY DEF Init
<1>8. Flags
  <2>1. inputs \in 0 .. MaxInputs /\ outside \in 0 .. MaxOutside /\ lastOp \in Nat
    BY <1>7, BoundsAssumption
  <2>2. QED BY <1>3, <1>7, <2>1 DEF Flags
<1>9. \A c \in late \cup {up} : SendsOK(c, note, phase, draft, lastOp)
  BY <1>7, QuietOK
<1>10. StreamOK(down, view, note, phase, receipts)
  BY <1>7, NothingOnTheWay
<1>11. QED BY <1>1, <1>6, <1>7, <1>8, <1>9, <1>10 DEF Inv

\* What a step may do: the third part is the body of NoUnseenOverwrite, Kept
\* that of NothingTypedIsLost.
Good == Inv' /\ Kept /\ \A r \in receipts' \ receipts : note.content = r.over

LEMMA TabIsGood ==
  ASSUME Inv' /\ Kept, UNCHANGED receipts
  PROVE  Good
  BY DEF Good

LEMMA RoomIsGood ==
  ASSUME Inv', UNCHANGED draft, UNCHANGED receipts
  PROVE  Good
  BY DEF Good, Kept

LEMMA ServeIsGood ==
  ASSUME Inv, NEW c \in late \cup {up}, NEW live \in BOOLEAN, live => c = up,
         Serve(c, live)
  PROVE  Good
<1>1. draft' = draft
  BY DEF Serve, Admit, Deny, SaveContent, ContentStatus, Publish, Aside, tab
<1>2. CASE SaveContent(c, live)
  BY <1>1, <1>2, SaveContentKeeps DEF Good, Kept
<1>3. CASE Admit(c, live)
  <2>1. Inv' /\ UNCHANGED receipts
    BY <1>3, AdmitKeeps DEF Admit
  <2>2. QED BY <1>1, <2>1, RoomIsGood
<1>4. CASE Deny(c, live)
  <2>1. Inv' /\ UNCHANGED receipts
    BY <1>4, DenyKeeps DEF Deny
  <2>2. QED BY <1>1, <2>1, RoomIsGood
<1>5. CASE ContentStatus(c, live)
  <2>1. Inv' /\ UNCHANGED receipts
    BY <1>5, ContentStatusKeeps DEF ContentStatus
  <2>2. QED BY <1>1, <2>1, RoomIsGood
<1>6. CASE Publish(c, live)
  <2>1. Inv' /\ UNCHANGED receipts
    BY <1>6, PublishKeeps DEF Publish
  <2>2. QED BY <1>1, <2>1, RoomIsGood
<1>7. QED BY <1>2, <1>3, <1>4, <1>5, <1>6 DEF Serve

LEMMA PersonIsGood ==
  ASSUME Inv, Person
  PROVE  Good
<1>1. Inv' /\ Kept
  BY ChangeKeeps, CompositionStartKeeps, CompositionEndKeeps, ShareKeeps DEF Person
<1>2. UNCHANGED receipts
  BY DEF Person, Change, CompositionStart, CompositionEnd, Share, Input, room
<1>3. QED BY <1>1, <1>2, TabIsGood

LEMMA ReceivesIsGood ==
  ASSUME Inv, Receives
  PROVE  Good
<1>1. Inv' /\ Kept
  BY ReceiveSavedKeeps, ReceiveStatusKeeps, ReceiveErrorKeeps, ReceiveNoteKeeps,
     ReceiveDeletedKeeps, ReceivePhaseKeeps, ReceiveSnapshotKeeps DEF Receives
<1>2. UNCHANGED receipts
  BY DEF Receives, ReceiveSaved, ReceiveStatus, ReceiveError, ReceiveNote,
         ReceiveDeleted, ReceivePhase, ReceiveSnapshot, Receive, room
<1>3. QED BY <1>1, <1>2, TabIsGood

LEMMA ConnectionIsGood ==
  ASSUME Inv, Connection
  PROVE  Good
<1>1. Inv' /\ Kept
  BY HearOfCutKeeps, ReopenKeeps, EndOfSessionKeeps, BreakKeeps, ReloadKeeps,
     LogInKeeps, ExpireKeeps DEF Connection
<1>2. UNCHANGED receipts
  BY DEF Connection, HearOfCut, Reopen, EndOfSession, Break, Reload, LogIn, Load,
         Expire, room
<1>3. QED BY <1>1, <1>2, TabIsGood

LEMMA OthersIsGood ==
  ASSUME Inv, Others
  PROVE  Good
<1>1. Inv'
  BY OthersSaveKeeps, ShareElsewhereKeeps, DeleteKeeps, PhaseNextKeeps, RestartKeeps,
     RollbackKeeps DEF Others
<1>2. UNCHANGED draft /\ UNCHANGED receipts
  BY DEF Others, OthersSave, ShareElsewhere, Delete, PhaseNext, RestartWriting,
         Rollback, Elsewhere, tab
<1>3. QED BY <1>1, <1>2, RoomIsGood

LEMMA NextIsGood ==
  ASSUME Inv, [Next]_vars
  PROVE  Good
<1>1. CASE Flush
  BY <1>1, FlushKeeps, TabIsGood DEF Flush, room
<1>2. CASE Ring
  BY <1>2, RingKeeps, TabIsGood DEF Ring, room
<1>3. CASE Serve(up, TRUE)
  BY <1>3, ServeIsGood
<1>4. ASSUME NEW c \in late, Serve(c, FALSE)
      PROVE  Good
  BY <1>4, ServeIsGood
<1>5. ASSUME NEW c \in late, LateLost(c)
      PROVE  Good
  <2>1. Inv'
    BY <1>5, LateLostKeeps
  <2>2. UNCHANGED draft /\ UNCHANGED receipts
    BY <1>5 DEF LateLost, tab, room
  <2>3. QED BY <2>1, <2>2, RoomIsGood
<1>6. CASE UNCHANGED vars
  <2>1. /\ UNCHANGED <<note, phase, checkpoints, receipts, session, link, up, late, down>>
        /\ UNCHANGED <<draft, active, due, asking, waiting, view, lastOp, inputs, outside>>
    BY <1>6 DEF vars, room, net, tab
  <2>2. RoomOK' /\ Flags'
    BY <2>1 DEF Inv, RoomOK, Flags
  <2>3. Inv'
    BY <2>1, <2>2 DEF Inv
  <2>4. QED BY <2>1, <2>3, RoomIsGood
<1>7. QED BY <1>1, <1>2, <1>3, <1>4, <1>5, <1>6, PersonIsGood, ReceivesIsGood,
             ConnectionIsGood, OthersIsGood DEF Next

LEMMA InvTypes == Inv => TypeOK
<1> SUFFICES ASSUME Inv PROVE TypeOK
  OBVIOUS
<1>1. RoomOK /\ Flags
  BY DEF Inv
<1>2. note \in [content : Texts, rev : Nat, vis : {"private", "shared", "gone"},
                kept : SUBSET (1 .. lastOp)]
  BY <1>1 DEF RoomOK, Notes
<1>3. phase \in [step : 1 .. 3, rev : Nat, rollback : Nat] /\ phase.rollback <= phase.rev
  BY <1>1 DEF RoomOK, Phases
<1>4. ASSUME NEW i \in DOMAIN checkpoints
      PROVE  checkpoints[i].step < 3
  <2> DEFINE C == [step : 1 .. 3, note : Notes(lastOp)]
  <2>1. checkpoints \in Seq(C) /\ checkpoints[i].step < phase.step
    BY <1>1 DEF RoomOK
  <2> HIDE DEF C
  <2>2. checkpoints[i] \in C
    BY <2>1
  <2>3. checkpoints[i].step \in 1 .. 3
    BY <2>2 DEF C
  <2>4. phase.step \in 1 .. 3
    BY <1>3
  <2>5. QED BY <2>1, <2>3, <2>4
<1>5. \A r \in receipts : r.op \in 1 .. lastOp /\ r.rev = r.expRev + 1
  BY <1>1 DEF RoomOK, ReceiptOK
<1>6. \A r, s \in receipts : r.op = s.op => r = s
  BY <1>1 DEF RoomOK
<1>7. ASSUME draft # NoDraft
      PROVE  /\ draft \in Drafts
             /\ ~draft.composing => draft.committed = draft.text
             /\ active => draft.composing
             /\ draft.flight # NoFlight =>
                  draft.flight.op \in 1 .. lastOp /\ draft.flight.expRev = draft.baseRev
  BY <1>7 DEF Inv, DraftOK, Flags
<1>8. QED BY <1>1, <1>2, <1>3, <1>4, <1>5, <1>6, <1>7 DEF TypeOK, Flags

-----------------------------------------------------------------------------
\* What a draft, a save, a message and the view say of the note stays true
\* whatever the room does meanwhile (note-handlers.ts, use-note-autosave.ts).
THEOREM NoteInvariant == Spec => []Inv
<1>1. Init => Inv
  BY InitKeeps
<1>2. Inv /\ [Next]_vars => Inv'
  BY NextIsGood DEF Good
<1>3. QED BY <1>1, <1>2, PTL DEF Spec

\* The types of the room and the tab; an operation has one receipt
\* (note_content_receipts), and only a draft being composed has a composition.
THEOREM NoteTypes == Spec => []TypeOK
<1>1. QED BY NoteInvariant, InvTypes, PTL

\* No save replaces a text its writer did not have in front of them
\* (note-handlers.ts, the two revisions).
THEOREM OverwriteIsSeen == Spec => NoUnseenOverwrite
<1>1. Inv /\ [Next]_vars => [\A r \in receipts' \ receipts : note.content = r.over]_vars
  BY NextIsGood DEF Good
<1>2. QED BY <1>1, NoteInvariant, PTL DEF Spec, NoUnseenOverwrite

\* The tab forgets only what says nothing new, was taken or was rolled back
\* (use-note-autosave.ts, accept, flush and stopRolledBackDrafts).
THEOREM TypedIsKept == Spec => NothingTypedIsLost
<1>1. Inv /\ [Next]_vars =>
        [draft # NoDraft /\ draft' = NoDraft =>
           \/ draft.flight = NoFlight /\ draft.text = draft.base
           \/ draft.phaseRev < phase.rollback
           \/ \E r \in receipts :
                /\ InFlight(r.op) /\ r.content = draft.text
                /\ r.op \in note.kept \/ note.vis = "gone" \/ ~InEffect(r)]_vars
  BY NextIsGood DEF Good, Kept
<1>2. QED BY <1>1, NoteInvariant, PTL DEF Spec, NothingTypedIsLost
=============================================================================
