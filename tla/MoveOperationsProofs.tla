------------------------- MODULE MoveOperationsProofs -------------------------
(***************************************************************************)
(* Theorems about MoveOperations, for any people, connections, notes,      *)
(* operations and agenda.                                                  *)
(*                                                                         *)
(* Almost every handler is made of the same few operators on the tables:   *)
(* they end operations, take locks away, and do nothing else (Ends).  Each *)
(* is shown once to keep the tables in order; a step is then a chain of    *)
(* such operators, with a start, a commit or an undo in it at most.        *)
(* Then every step is shown to be one of NoteHolding.                      *)
(*                                                                         *)
(* The last parts are about taking moves back: what a stored history says  *)
(* of the board (UndoInv), that groups keep their key through clustering   *)
(* and reorganisation (GroupInv), and from both that an undo is exact and  *)
(* takes nothing from others.                                              *)
(***************************************************************************)
EXTENDS MoveOperations, SequenceTheorems, FiniteSetTheorems, WellFoundedInduction, TLAPS

-----------------------------------------------------------------------------
(* The tables. *)

RowFields == {"state", "late", "user", "conn", "of", "seen", "phase", "map", "before",
              "receipt", "expected"}
States == {"none", "active", "accepted", "rejected", "cancelled", "expired"}
Ended == {"rejected", "cancelled", "expired"}

Rows(op) == DOMAIN op = Ops
            /\ \A o \in Ops : DOMAIN op[o] = RowFields /\ op[o].state \in States
Locks(lock) == lock \in [NoteIds -> Ops \cup {None}]
Attachments(conn) ==
  conn \in [Conns -> [open : BOOLEAN, waiting : BOOLEAN, attached : Ops \cup {None},
                      drag : [note : NoteIds \cup {None}, live : BOOLEAN]]]

Shape(m) ==
  /\ DOMAIN m = {"op", "lock", "conn"}
  /\ Rows(m.op) /\ Locks(m.lock) /\ Attachments(m.conn)

\* An active operation holds the locks of its notes, any other holds none.
Locked(m) ==
  \A o \in Ops :
    /\ IsActive(m.op[o]) => Targets(m.op[o]) # {} /\ Targets(m.op[o]) \subseteq NoteIds
    /\ \A n \in NoteIds : m.lock[n] = o <=> IsActive(m.op[o]) /\ n \in Targets(m.op[o])

Tables(m) == Shape(m) /\ Locked(m)

\* From p to q an operation was ended at most, or its history went on.
RowFollows(p, q) ==
  /\ q.state = "none" <=> p.state = "none"
  /\ Targets(q) \subseteq Targets(p)
  /\ IsActive(q) => /\ IsActive(p)
                    /\ q.user = p.user /\ q.conn = p.conn /\ q.of = p.of /\ q.seen = p.seen
                    /\ q.phase = p.phase /\ q.map = p.map /\ q.before = p.before
  /\ q.state = "accepted" => /\ p.state = "accepted"
                             /\ q.of = p.of /\ q.receipt = p.receipt
                             /\ q.conn = p.conn /\ q.phase = p.phase
                             /\ DOMAIN q.expected.targets = DOMAIN p.expected.targets
  /\ IsFinished(p) => q.state \in {p.state, "expired"}

\* From p to q an operation was ended at most.
RowEnds(p, q) ==
  RowFollows(p, q) /\ (q.state = "accepted" => q.expected = p.expected)

ConnEnds(k, l) ==
  /\ l.open => k.open
  /\ l.waiting => k.waiting \/ k.open
  /\ l.attached \in {k.attached, None}
  /\ l.drag.live => l.drag = k.drag

OpsEnd(m, m2) == \A o \in Ops : RowEnds(m.op[o], m2.op[o])

Ends(m, m2) == OpsEnd(m, m2) /\ \A c \in Conns : ConnEnds(m.conn[c], m2.conn[c])

\* A note is in the hands of one mover or of one dragger.
Hands(m) ==
  \A n \in NoteIds : /\ \A c, d \in ActiveDrags(m, n) : c = d
                     /\ m.lock[n] # None => ActiveDrags(m, n) = {}

\* What an open connection is moving stands as it saw it, until the lease is over.
Stand(m, ns, rm) ==
  \A c \in Conns :
    LET o == m.conn[c].attached IN
    m.conn[c].open /\ o # None /\ IsActive(m.op[o]) /\ ~m.op[o].late => Presents(m, ns, rm, c)

\* Nobody gets a note.
KeepsHands(m, m2) ==
  /\ \A o \in Ops : IsActive(m2.op[o]) => IsActive(m.op[o]) /\ m2.op[o].seen = m.op[o].seen
  /\ \A c \in Conns : m2.conn[c].open =>
                        /\ m.conn[c].open
                        /\ m2.conn[c].drag.live => m2.conn[c].drag = m.conn[c].drag

\* A note that may be taken or moved by anybody.
IsFree(m, n) ==
  /\ m.lock[n] = None \/ (IsActive(m.op[m.lock[n]]) /\ m.op[m.lock[n]].late)
  /\ ActiveDrags(m, n) = {}

USE NamesAssumption

LEMMA EndsTrans ==
  ASSUME NEW m1, NEW m2, NEW m3, Ends(m1, m2), Ends(m2, m3), Shape(m1), Shape(m2), Shape(m3)
  PROVE  Ends(m1, m3)
BY DEF Ends, OpsEnd, RowEnds, RowFollows, ConnEnds, Shape, Rows, States, IsActive, IsFinished

LEMMA EndsSelf == ASSUME NEW m PROVE Ends(m, m)
BY DEF Ends, OpsEnd, RowEnds, RowFollows, ConnEnds

\* All of a row but what an ending writes.
SameOtherwise(p, q) ==
  /\ q.user = p.user /\ q.conn = p.conn /\ q.of = p.of /\ q.seen = p.seen
  /\ q.phase = p.phase /\ q.map = p.map /\ q.before = p.before
  /\ q.receipt = p.receipt /\ q.expected = p.expected

LEMMA FinishAllTables ==
  ASSUME NEW m, Tables(m), NEW ops, \A o \in ops : o \in Ops /\ IsActive(m.op[o]),
         NEW state \in Ended \cup {"accepted"}
  PROVE  /\ Tables(FinishAll(m, ops, state)) /\ FinishAll(m, ops, state).conn = m.conn
         /\ \A o \in Ops : IF o \in ops
              THEN /\ FinishAll(m, ops, state).op[o].state = state
                   /\ SameOtherwise(m.op[o], FinishAll(m, ops, state).op[o])
              ELSE FinishAll(m, ops, state).op[o] = m.op[o]
<1> DEFINE w == FinishAll(m, ops, state)
<1>1. /\ w.op = [o \in Ops |-> IF o \in ops
                   THEN [m.op[o] EXCEPT !.state = state, !.late = FALSE] ELSE m.op[o]]
      /\ w.lock = [n \in NoteIds |-> IF m.lock[n] \in ops THEN None ELSE m.lock[n]]
      /\ w.conn = m.conn
      /\ DOMAIN w = {"op", "lock", "conn"}
  BY DEF FinishAll, Tables, Shape
<1> HIDE DEF w
<1>2. ASSUME NEW o \in Ops
      PROVE  IF o \in ops THEN /\ DOMAIN w.op[o] = RowFields /\ w.op[o].state = state
                                  /\ SameOtherwise(m.op[o], w.op[o])
                          ELSE w.op[o] = m.op[o]
  <2>1. DOMAIN m.op[o] = RowFields
    BY DEF Tables, Shape, Rows
  <2>2. CASE o \in ops
    <3>1. w.op[o] = [m.op[o] EXCEPT !.state = state, !.late = FALSE]
      BY <1>1, <2>2
    <3>2. QED BY <2>1, <2>2, <3>1 DEF RowFields, SameOtherwise
  <2>3. CASE o \notin ops
    BY <1>1, <2>3
  <2>4. QED BY <2>2, <2>3
<1>3. Shape(w)
  <2>1. Rows(w.op)
    BY <1>1, <1>2 DEF Tables, Shape, Rows, Ended, States
  <2>2. Locks(w.lock)
    BY <1>1 DEF Tables, Shape, Locks
  <2>3. QED BY <1>1, <2>1, <2>2 DEF Tables, Shape
<1>4. Locked(w)
  <2>1. ASSUME NEW o \in ops PROVE ~IsActive(w.op[o]) /\ \A n \in NoteIds : w.lock[n] # o
    <3>1. ~IsActive(w.op[o])
      BY <1>2 DEF IsActive, Ended
    <3>2. ASSUME NEW n \in NoteIds PROVE w.lock[n] # o
      BY <1>1, <1>2
    <3>3. QED BY <3>1, <3>2
  <2>2. ASSUME NEW o \in Ops \ ops, NEW n \in NoteIds PROVE w.lock[n] = o <=> m.lock[n] = o
    BY <1>1
  <2>3. QED BY <1>2, <2>1, <2>2 DEF Tables, Locked
<1>5. /\ Tables(w) /\ w.conn = m.conn
      /\ \A o \in Ops : IF o \in ops
              THEN w.op[o].state = state /\ SameOtherwise(m.op[o], w.op[o])
              ELSE w.op[o] = m.op[o]
  BY <1>1, <1>2, <1>3, <1>4 DEF Tables
<1>6. QED BY <1>5 DEF w

LEMMA FinishAllEnds ==
  ASSUME NEW m, Tables(m), NEW ops, \A o \in ops : o \in Ops /\ IsActive(m.op[o]),
         NEW state \in Ended
  PROVE  Tables(FinishAll(m, ops, state)) /\ Ends(m, FinishAll(m, ops, state))
<1> DEFINE w == FinishAll(m, ops, state)
<1>0. state \in Ended \cup {"accepted"}
  OBVIOUS
<1>1. /\ Tables(w) /\ w.conn = m.conn
      /\ \A o \in Ops : IF o \in ops
              THEN w.op[o].state = state /\ SameOtherwise(m.op[o], w.op[o])
              ELSE w.op[o] = m.op[o]
  BY <1>0, FinishAllTables
<1> HIDE DEF w
<1>2. ASSUME NEW o \in ops PROVE RowEnds(m.op[o], w.op[o])
  BY <1>1 DEF RowEnds, RowFollows, IsActive, IsFinished, Ended, Targets, SameOtherwise
<1>3. ASSUME NEW o \in Ops \ ops PROVE RowEnds(m.op[o], w.op[o])
  BY <1>1 DEF RowEnds, RowFollows
<1>4. ASSUME NEW c \in Conns PROVE ConnEnds(m.conn[c], w.conn[c])
  BY <1>1 DEF ConnEnds
<1>5. QED BY <1>1, <1>2, <1>3, <1>4 DEF Ends, OpsEnd, w

\* The attachments of the sockets change alone.
LEMMA ConnsEnd ==
  ASSUME NEW m, Tables(m), NEW conn, Attachments(conn),
         \A c \in Conns : ConnEnds(m.conn[c], conn[c])
  PROVE  LET w == [m EXCEPT !.conn = conn]
         IN Tables(w) /\ Ends(m, w) /\ w.op = m.op /\ w.lock = m.lock /\ w.conn = conn
<1> DEFINE w == [m EXCEPT !.conn = conn]
<1>1. w.op = m.op /\ w.lock = m.lock /\ w.conn = conn /\ DOMAIN w = DOMAIN m
  BY DEF Tables, Shape
<1> HIDE DEF w
<1>2. Tables(w)
  BY <1>1 DEF Tables, Shape, Locked
<1>3. Ends(m, w)
  BY <1>1 DEF Ends, OpsEnd, RowEnds, RowFollows
<1>4. QED BY <1>1, <1>2, <1>3 DEF w

LEMMA SyncEnds ==
  ASSUME NEW m, NEW ns, NEW rm, Tables(m)
  PROVE  Tables(Sync(m, ns, rm)) /\ Ends(m, Sync(m, ns, rm))
<1> DEFINE gone == {c \in Conns : /\ m.conn[c].open /\ m.conn[c].attached # None
                                  /\ ~Presents(m, ns, rm, c)}
           ended == {o \in Ops : IsActive(m.op[o]) /\ \E c \in gone : m.conn[c].attached = o}
           f == FinishAll(m, ended, "cancelled")
           conn == [c \in Conns |-> IF c \in gone THEN [f.conn[c] EXCEPT !.attached = None]
                                    ELSE f.conn[c]]
<1>1. Tables(f) /\ Ends(m, f)
  BY FinishAllEnds DEF Ended
<1>2. Sync(m, ns, rm) = [f EXCEPT !.conn = conn]
  BY <1>1 DEF Sync, Tables, Shape
<1> HIDE DEF f, gone
<1>3. Attachments(conn) /\ \A c \in Conns : ConnEnds(f.conn[c], conn[c])
  BY <1>1 DEF Tables, Shape, Attachments, ConnEnds
<1>4. Tables([f EXCEPT !.conn = conn]) /\ Ends(f, [f EXCEPT !.conn = conn])
  BY <1>1, <1>3, ConnsEnd
<1>5. QED BY <1>1, <1>2, <1>4, EndsTrans DEF Tables

LEMMA SyncKeeps ==
  ASSUME NEW m, NEW ns, NEW rm, Tables(m)
  PROVE  /\ \A o \in Ops : \/ Sync(m, ns, rm).op[o] = m.op[o]
                           \/ IsActive(m.op[o]) /\ Sync(m, ns, rm).op[o].state = "cancelled"
         /\ \A c \in Conns : /\ Sync(m, ns, rm).conn[c].open = m.conn[c].open
                             /\ Sync(m, ns, rm).conn[c].drag = m.conn[c].drag
         /\ Stand(Sync(m, ns, rm), ns, rm)
<1> DEFINE gone == {c \in Conns : /\ m.conn[c].open /\ m.conn[c].attached # None
                                  /\ ~Presents(m, ns, rm, c)}
           ended == {o \in Ops : IsActive(m.op[o]) /\ \E c \in gone : m.conn[c].attached = o}
           f == FinishAll(m, ended, "cancelled")
           conn == [c \in Conns |-> IF c \in gone THEN [m.conn[c] EXCEPT !.attached = None]
                                    ELSE m.conn[c]]
           s == Sync(m, ns, rm)
<1>1. /\ Tables(f) /\ f.conn = m.conn
      /\ \A o \in Ops : IF o \in ended THEN f.op[o].state = "cancelled"
                        ELSE f.op[o] = m.op[o]
  BY FinishAllTables DEF Ended
<1>2. s = [f EXCEPT !.conn = conn]
  BY Zenon, <1>1 DEF Sync, Tables, Shape
<1>3. Tables(s)
  BY SyncEnds
<1>4. \A c \in Conns : c \in gone => m.conn[c].open /\ ~Presents(m, ns, rm, c)
  OBVIOUS
<1>5. \A c \in Conns : m.conn[c].open /\ m.conn[c].attached # None /\ c \notin gone
                         => Presents(m, ns, rm, c)
  OBVIOUS
<1>6. \A o \in ended : IsActive(m.op[o])
  OBVIOUS
<1> HIDE DEF f, gone, ended
<1>7. s.op = f.op /\ s.lock = f.lock /\ s.conn = conn
  BY <1>1, <1>2 DEF Tables, Shape
<1> HIDE DEF s
<1>8. \A o \in Ops : s.op[o] = m.op[o] \/ (IsActive(m.op[o]) /\ s.op[o].state = "cancelled")
  BY <1>1, <1>6, <1>7
<1>9. \A c \in Conns : /\ s.conn[c].open = m.conn[c].open /\ s.conn[c].drag = m.conn[c].drag
                       /\ s.conn[c].attached = IF c \in gone THEN None ELSE m.conn[c].attached
  BY <1>7 DEF Tables, Shape, Attachments
<1>10. Stand(s, ns, rm)
  <2> SUFFICES ASSUME NEW c \in Conns, s.conn[c].open, s.conn[c].attached # None,
                      IsActive(s.op[s.conn[c].attached])
               PROVE  Presents(s, ns, rm, c)
    BY DEF Stand
  <2> DEFINE o == s.conn[c].attached
  <2>1. o \in Ops /\ c \notin gone /\ m.conn[c].attached = o /\ m.conn[c].open
    BY <1>3, <1>9 DEF Tables, Shape, Attachments
  <2>2. s.op[o] = m.op[o]
    BY <1>8, <2>1 DEF IsActive
  <2>3. Presents(m, ns, rm, c)
    BY <1>5, <2>1
  <2>4. HoldsAll(s, o)
    BY SMTT(60), <1>3, <2>1 DEF HoldsAll, Tables, Locked
  <2>5. QED BY <2>1, <2>2, <2>3, <2>4 DEF Presents
<1>11. QED BY <1>8, <1>9, <1>10 DEF s

\* Where nothing is renewed, what stood stands.
LEMMA StandKept ==
  ASSUME NEW m, NEW m2, NEW ns, NEW rm, NEW rm2, Tables(m), Tables(m2), Ends(m, m2),
         Stand(m, ns, rm), \A o \in Ops : IsActive(m2.op[o]) /\ ~m2.op[o].late => ~m.op[o].late,
         rm2.step = rm.step, rm2.closed = rm.closed, rm2.phase = rm.phase, rm2.map = rm.map,
         rm2.members = rm.members
  PROVE  Stand(m2, ns, rm2)
<1> SUFFICES ASSUME NEW c \in Conns, m2.conn[c].open, m2.conn[c].attached # None,
                    IsActive(m2.op[m2.conn[c].attached]), ~m2.op[m2.conn[c].attached].late
             PROVE  Presents(m2, ns, rm2, c)
  BY DEF Stand
<1> DEFINE o == m2.conn[c].attached
<1>1. o \in Ops /\ m.conn[c].attached = o /\ m.conn[c].open
  BY DEF Tables, Shape, Attachments, Ends, ConnEnds
<1>2. RowEnds(m.op[o], m2.op[o])
  BY <1>1 DEF Ends, OpsEnd
<1>3. Presents(m, ns, rm, c)
  BY Zenon, <1>1, <1>2 DEF Stand, RowEnds, RowFollows
<1>4. HoldsAll(m2, o)
  BY <1>1 DEF HoldsAll, Tables, Locked
<1>5. /\ IsActive(m.op[o]) /\ m2.op[o].seen = m.op[o].seen /\ m2.op[o].user = m.op[o].user
      /\ m2.op[o].conn = m.op[o].conn /\ m2.op[o].phase = m.op[o].phase
      /\ m2.op[o].map = m.op[o].map
  BY Zenon, <1>2 DEF RowEnds, RowFollows
<1>6. Matches(m.op[o], ns, rm)
  BY <1>1, <1>3 DEF Presents
<1>7. Matches(m2.op[o], ns, rm2)
  BY Zenon, <1>5, <1>6 DEF Matches, Targets
<1>8. QED BY <1>1, <1>3, <1>4, <1>5, <1>7 DEF Presents

LEMMA LocksKept ==
  ASSUME NEW m, NEW m2, Tables(m), Tables(m2), NEW n \in NoteIds,
         \A o \in Ops : IsActive(m2.op[o]) /\ n \in Targets(m2.op[o])
                          => IsActive(m.op[o]) /\ m2.op[o].seen = m.op[o].seen
  PROVE  m2.lock[n] \in {m.lock[n], None}
<1>1. CASE m2.lock[n] = None
  BY <1>1
<1>2. CASE m2.lock[n] # None
  <2> DEFINE o == m2.lock[n]
  <2>1. o \in Ops
    BY <1>2 DEF Tables, Shape, Locks
  <2>2. IsActive(m2.op[o]) /\ n \in Targets(m2.op[o])
    BY <2>1 DEF Tables, Locked
  <2>3. QED BY <2>1, <2>2 DEF Tables, Locked, Targets
<1>3. QED BY <1>1, <1>2

\* Where nobody gets a note, each note stays in one hand at most.
LEMMA HandsKept ==
  ASSUME NEW m, NEW m2, Tables(m), Tables(m2), Hands(m), KeepsHands(m, m2)
  PROVE  Hands(m2)
<1> SUFFICES ASSUME NEW n \in NoteIds
             PROVE  /\ \A c, d \in ActiveDrags(m2, n) : c = d
                    /\ m2.lock[n] # None => ActiveDrags(m2, n) = {}
  BY DEF Hands
<1>1. ActiveDrags(m2, n) \subseteq ActiveDrags(m, n)
  <2> SUFFICES ASSUME NEW c \in Conns, m2.conn[c].open,
                      m2.conn[c].drag = [note |-> n, live |-> TRUE]
               PROVE  m.conn[c].open /\ m.conn[c].drag = [note |-> n, live |-> TRUE]
    BY DEF ActiveDrags
  <2>1. m2.conn[c].drag.live
    OBVIOUS
  <2>2. QED BY <2>1 DEF KeepsHands
<1>2. m2.lock[n] \in {m.lock[n], None}
  BY LocksKept DEF KeepsHands
<1>3. QED BY <1>1, <1>2 DEF Hands

LEMMA EndsKeepHands ==
  ASSUME NEW m, NEW m2, Ends(m, m2)
  PROVE  KeepsHands(m, m2)
BY DEF Ends, OpsEnd, RowEnds, RowFollows, ConnEnds, KeepsHands

LEMMA AnsweredEnds ==
  ASSUME NEW m, NEW c \in Conns, Tables(m)
  PROVE  Tables(Answered(m, c)) /\ Ends(m, Answered(m, c))
<1> DEFINE conn == [m.conn EXCEPT ![c].waiting = FALSE]
<1>1. Answered(m, c) = [m EXCEPT !.conn = conn]
  BY DEF Answered, Tables, Shape
<1>2. Attachments(conn) /\ \A d \in Conns : ConnEnds(m.conn[d], conn[d])
  BY ZenonT(60) DEF Tables, Shape, Attachments, ConnEnds
<1> HIDE DEF conn
<1>3. QED BY <1>1, <1>2, ConnsEnd

LEMMA ExpireEnds ==
  ASSUME NEW m, Tables(m)
  PROVE  Tables(Expire(m)) /\ Ends(m, Expire(m))
         /\ \A o \in Ops : IsActive(Expire(m).op[o]) => ~m.op[o].late
<1> DEFINE lapsed == {o \in Ops : IsActive(m.op[o]) /\ m.op[o].late}
           f == FinishAll(m, lapsed, "expired")
           op == [o \in Ops |-> IF IsFinished(f.op[o]) /\ f.op[o].late
                                THEN Forgotten(f.op[o]) ELSE f.op[o]]
           w == [f EXCEPT !.op = op]
<1>1. Tables(f) /\ Ends(m, f)
  BY FinishAllEnds DEF Ended
<1>2. \A o \in Ops : IsActive(f.op[o]) => ~m.op[o].late
  BY DEF FinishAll, Tables, Shape, Rows, IsActive
<1>3. Expire(m) = w
  BY DEF Expire
<1> HIDE DEF f
<1>4. w.op = op /\ w.lock = f.lock /\ w.conn = f.conn /\ DOMAIN w = DOMAIN f
  BY <1>1 DEF Tables, Shape
<1> HIDE DEF w
<1>5. ASSUME NEW o \in Ops
      PROVE  /\ \/ op[o] = f.op[o]
                \/ /\ IsFinished(f.op[o]) /\ op[o].state = "expired"
                   /\ Targets(op[o]) = {}
             /\ DOMAIN op[o] = RowFields /\ op[o].state \in States
  BY <1>1 DEF Tables, Shape, Rows, RowFields, States, Forgotten, Unused, Targets, NoTable
<1>6. Tables(w)
  <2>1. Rows(w.op)
    BY <1>4, <1>5 DEF Rows
  <2>2. Locked(w)
    BY <1>1, <1>4, <1>5 DEF Tables, Locked, IsActive, IsFinished
  <2>3. QED BY <1>1, <1>4, <2>1, <2>2 DEF Tables, Shape
<1>7. Ends(f, w)
  <2>1. ASSUME NEW o \in Ops PROVE RowEnds(f.op[o], w.op[o])
    BY <1>4, <1>5 DEF RowEnds, RowFollows, IsActive, IsFinished
  <2>2. QED BY <1>4, <2>1 DEF Ends, OpsEnd, ConnEnds
<1>8. \A o \in Ops : IsActive(w.op[o]) => ~m.op[o].late
  BY <1>2, <1>4, <1>5 DEF IsActive
<1>9. QED BY <1>1, <1>3, <1>6, <1>7, <1>8, EndsTrans DEF Tables

LEMMA RetireEnds ==
  ASSUME NEW m, Tables(m)
  PROVE  Tables(RetireAllDrags(m)) /\ Ends(m, RetireAllDrags(m))
<1> DEFINE conn == [c \in Conns |-> [m.conn[c] EXCEPT !.drag = NoDrag]]
<1>1. RetireAllDrags(m) = [m EXCEPT !.conn = conn]
  BY DEF RetireAllDrags
<1>2. Attachments(conn) /\ \A c \in Conns : ConnEnds(m.conn[c], conn[c])
  BY ZenonT(60) DEF Tables, Shape, Attachments, ConnEnds, NoDrag
<1> HIDE DEF conn
<1>3. QED BY <1>1, <1>2, ConnsEnd

LEMMA DropDragEnds ==
  ASSUME NEW m, NEW c \in Conns, Tables(m)
  PROVE  LET w == [m EXCEPT !.conn[c].drag = NoDrag] IN Tables(w) /\ Ends(m, w)
<1> DEFINE conn == [m.conn EXCEPT ![c].drag = NoDrag]
<1>1. [m EXCEPT !.conn[c].drag = NoDrag] = [m EXCEPT !.conn = conn]
  BY DEF Tables, Shape
<1>2. Attachments(conn) /\ \A d \in Conns : ConnEnds(m.conn[d], conn[d])
  BY ZenonT(60) DEF Tables, Shape, Attachments, ConnEnds, NoDrag
<1> HIDE DEF conn
<1>3. QED BY <1>1, <1>2, ConnsEnd

LEMMA CloseSocketsEnds ==
  ASSUME NEW m, NEW cs, Tables(m)
  PROVE  Tables(CloseSockets(m, cs)) /\ Ends(m, CloseSockets(m, cs))
<1> DEFINE conn == [c \in Conns |-> IF c \in cs
             THEN [m.conn[c] EXCEPT !.open = FALSE, !.attached = None, !.drag = NoDrag]
             ELSE m.conn[c]]
<1>1. CloseSockets(m, cs) = [m EXCEPT !.conn = conn]
  BY DEF CloseSockets
<1>2. Attachments(conn) /\ \A c \in Conns : ConnEnds(m.conn[c], conn[c])
  BY ZenonT(60) DEF Tables, Shape, Attachments, ConnEnds, NoDrag
<1> HIDE DEF conn
<1>3. QED BY <1>1, <1>2, ConnsEnd

LEMMA FinishEnds ==
  ASSUME NEW m, Tables(m), NEW o \in Ops, IsActive(m.op[o]), NEW state \in Ended
  PROVE  Tables(Finish(m, o, state)) /\ Ends(m, Finish(m, o, state))
BY FinishAllEnds DEF Finish

LEMMA CancelAllEnds ==
  ASSUME NEW m, Tables(m)
  PROVE  Tables(CancelAll(m)) /\ Ends(m, CancelAll(m))
         /\ \A o \in Ops : ~IsActive(CancelAll(m).op[o])
<1>1. Tables(CancelAll(m)) /\ Ends(m, CancelAll(m))
  BY FinishAllEnds DEF CancelAll, Ended
<1>2. QED BY <1>1 DEF CancelAll, FinishAll, Tables, Shape, Rows, RowFields, IsActive

LEMMA ReleaseEnds ==
  ASSUME NEW m, Tables(m), NEW c
  PROVE  Tables(ReleaseConnection(m, c)) /\ Ends(m, ReleaseConnection(m, c))
BY FinishAllEnds DEF ReleaseConnection, Ended

LEMMA SettleEnds ==
  ASSUME NEW m, NEW c \in Conns, Tables(m), SettleMoves(m, c)
  PROVE  Tables(moves') /\ Ends(m, moves') /\ Stand(moves', notes', room')
<1>1. Tables(Answered(m, c)) /\ Ends(m, Answered(m, c))
  BY AnsweredEnds
<1>2. Tables(moves') /\ Ends(Answered(m, c), moves')
  BY <1>1, SyncEnds DEF SettleMoves
<1>3. Stand(moves', notes', room')
  BY <1>1, SyncKeeps DEF SettleMoves
<1>4. QED BY <1>1, <1>2, <1>3, EndsTrans DEF Tables

LEMMA SettleKeeps ==
  ASSUME NEW m, NEW c \in Conns, Tables(m), SettleMoves(m, c)
  PROVE  /\ \A o \in Ops : \/ moves'.op[o] = m.op[o]
                           \/ IsActive(m.op[o]) /\ moves'.op[o].state = "cancelled"
         /\ \A d \in Conns : /\ moves'.conn[d].open = m.conn[d].open
                             /\ moves'.conn[d].drag = m.conn[d].drag
<1> DEFINE a == Answered(m, c)
<1>1. Tables(a)
  BY AnsweredEnds
<1>2. /\ a.op = m.op
      /\ \A d \in Conns : a.conn[d].open = m.conn[d].open /\ a.conn[d].drag = m.conn[d].drag
  BY DEF Answered, Tables, Shape, Attachments
<1>3. moves' = Sync(a, notes', room')
  BY DEF SettleMoves
<1> HIDE DEF a
<1>4. QED BY <1>1, <1>2, <1>3, SyncKeeps

\* Only lapsed operations lose their notes when leases are looked at.
LEMMA ExpireKeeps ==
  ASSUME NEW m, Tables(m)
  PROVE  /\ Expire(m).conn = m.conn
         /\ \A o \in Ops : IsActive(m.op[o]) /\ ~m.op[o].late => Expire(m).op[o] = m.op[o]
         /\ \A n \in NoteIds : Expire(m).lock[n] = None /\ ActiveDrags(Expire(m), n) = {}
                                 => IsFree(m, n)
<1> DEFINE lapsed == {o \in Ops : IsActive(m.op[o]) /\ m.op[o].late}
           f == FinishAll(m, lapsed, "expired")
           op == [o \in Ops |-> IF IsFinished(f.op[o]) /\ f.op[o].late
                                THEN Forgotten(f.op[o]) ELSE f.op[o]]
           e == Expire(m)
<1>1. /\ Tables(f) /\ f.conn = m.conn
      /\ \A o \in Ops : o \notin lapsed => f.op[o] = m.op[o]
  BY FinishAllTables DEF Ended
<1>2. e = [f EXCEPT !.op = op]
  BY DEF Expire
<1>3. Tables(e)
  BY ExpireEnds
<1> HIDE DEF f
<1>4. e.op = op /\ e.conn = m.conn
  BY <1>1, <1>2 DEF Tables, Shape
<1> HIDE DEF e
<1>5. ASSUME NEW o \in Ops, IsActive(m.op[o]), ~m.op[o].late PROVE e.op[o] = m.op[o]
  <2>1. f.op[o] = m.op[o] /\ ~IsFinished(f.op[o])
    BY <1>1, <1>5 DEF IsFinished, IsActive
  <2>2. QED BY <1>4, <2>1
<1>6. ASSUME NEW n \in NoteIds, e.lock[n] = None, ActiveDrags(e, n) = {}
      PROVE  IsFree(m, n)
  <2>1. ActiveDrags(m, n) = {}
    BY <1>4, <1>6 DEF ActiveDrags
  <2>2. ASSUME m.lock[n] # None
        PROVE  IsActive(m.op[m.lock[n]]) /\ m.op[m.lock[n]].late
    <3> DEFINE o == m.lock[n]
    <3>1. o \in Ops
      BY <2>2 DEF Tables, Shape, Locks
    <3>2. IsActive(m.op[o]) /\ n \in Targets(m.op[o])
      BY <3>1 DEF Tables, Locked
    <3>3. e.lock[n] # o
      BY <1>6, <3>1
    <3>4. e.op[o] # m.op[o]
      BY <1>3, <3>1, <3>2, <3>3 DEF Tables, Locked
    <3>5. QED BY <1>5, <3>1, <3>2, <3>4
  <2>3. QED BY <2>1, <2>2 DEF IsFree
<1>7. QED BY <1>4, <1>5, <1>6 DEF e

\* Where every lease runs and what is attached stands, nothing is ended.
LEMMA SyncSpares ==
  ASSUME NEW m, NEW ns, NEW rm, Tables(m), Stand(m, ns, rm),
         \A o \in Ops : IsActive(m.op[o]) => ~m.op[o].late
  PROVE  /\ \A o \in Ops : Sync(m, ns, rm).op[o] = m.op[o]
         /\ \A n \in NoteIds : Sync(m, ns, rm).lock[n] = m.lock[n]
<1> DEFINE gone == {c \in Conns : /\ m.conn[c].open /\ m.conn[c].attached # None
                                  /\ ~Presents(m, ns, rm, c)}
           ended == {o \in Ops : IsActive(m.op[o]) /\ \E c \in gone : m.conn[c].attached = o}
           f == FinishAll(m, ended, "cancelled")
           conn == [c \in Conns |-> IF c \in gone THEN [m.conn[c] EXCEPT !.attached = None]
                                    ELSE m.conn[c]]
<1>1. ended = {}
  BY DEF Stand
<1>2. /\ Tables(f) /\ f.conn = m.conn
      /\ \A o \in Ops : f.op[o] = m.op[o]
  BY <1>1, FinishAllTables DEF Ended
<1>3. Sync(m, ns, rm) = [f EXCEPT !.conn = conn]
  BY Zenon, <1>2 DEF Sync, Tables, Shape
<1>4. \A n \in NoteIds : f.lock[n] = m.lock[n]
  BY <1>1 DEF FinishAll, Tables, Shape
<1> HIDE DEF f, gone, conn
<1>5. QED BY <1>2, <1>3, <1>4 DEF Tables, Shape

\* The retention mark of a row is no part of what it does.
LEMMA LateEnds ==
  ASSUME NEW m, Tables(m), NEW o \in Ops, NEW late
  PROVE  LET w == [m EXCEPT !.op[o].late = late]
         IN Tables(w) /\ Ends(m, w) /\ w.lock = m.lock /\ w.conn = m.conn
<1> DEFINE w == [m EXCEPT !.op[o].late = late]
<1>1. /\ w.op = [m.op EXCEPT ![o] = [m.op[o] EXCEPT !.late = late]]
      /\ w.lock = m.lock /\ w.conn = m.conn /\ DOMAIN w = DOMAIN m
  BY DEF Tables, Shape, Rows
<1> HIDE DEF w
<1>2. ASSUME NEW q \in Ops
      PROVE  /\ \A f \in RowFields \ {"late"} : w.op[q][f] = m.op[q][f]
             /\ DOMAIN w.op[q] = RowFields
  BY <1>1 DEF Tables, Shape, Rows
<1>3. ASSUME NEW q \in Ops
      PROVE  /\ w.op[q].state = m.op[q].state /\ w.op[q].user = m.op[q].user
             /\ w.op[q].conn = m.op[q].conn /\ w.op[q].of = m.op[q].of
             /\ w.op[q].seen = m.op[q].seen /\ w.op[q].phase = m.op[q].phase
             /\ w.op[q].map = m.op[q].map /\ w.op[q].before = m.op[q].before
             /\ w.op[q].receipt = m.op[q].receipt /\ w.op[q].expected = m.op[q].expected
  BY <1>2 DEF RowFields
<1>4. Rows(w.op)
  BY <1>1, <1>2, <1>3 DEF Tables, Shape, Rows
<1>5. Locked(w)
  BY <1>1, <1>3 DEF Tables, Locked, Targets, IsActive
<1>6. Ends(m, w)
  BY <1>1, <1>3 DEF Ends, OpsEnd, ConnEnds, RowEnds, RowFollows, IsActive, IsFinished, Targets
<1>7. QED BY <1>1, <1>4, <1>5, <1>6 DEF Tables, Shape, w

-----------------------------------------------------------------------------
(* The inductive invariant. *)

NoteTable == [NoteIds -> [shared : BOOLEAN, at : Places, pos : Nat, vis : Nat]]

\* The versions only rise, and a note that lies elsewhere has another one.
BoardOnward(ns, ns2) ==
  \A n \in NoteIds : /\ ns2[n].pos >= ns[n].pos
                     /\ ns2[n].at # ns[n].at => ns2[n].pos > ns[n].pos

RoomOK == DOMAIN room = {"phase", "map", "step", "timer", "closed", "members"}

CheckpointsOK ==
  /\ checkpoints \in Seq({checkpoints[i] : i \in DOMAIN checkpoints})
  /\ \A i \in DOMAIN checkpoints : checkpoints[i].notes \in NoteTable

PlacesIn(at, ns) == DOMAIN at \subseteq ns /\ \A n \in DOMAIN at : at[n] \in Places

\* What an accepted operation stored puts notes back on the board, and only
\* notes whose versions are watched.
ReceiptOK(p) ==
  /\ PlacesIn(p.receipt.before, DOMAIN p.expected.targets)
  /\ PlacesIn(p.receipt.after, DOMAIN p.expected.targets)

RowOK(p) ==
  /\ Targets(p) \subseteq NoteIds
  /\ IsActive(p) => /\ p.of = None
                    /\ DOMAIN p.before = Targets(p) /\ PlacesIn(p.before, NoteIds)
                    /\ p.seen \in [Targets(p) -> Nat \X Nat]
  /\ p.state = "accepted" => ReceiptOK(p)

\* An active operation is of the present phase and map; a note that still has
\* the version it was picked up with lies where it was picked up.
Current(p, ns, rm) ==
  IsActive(p) =>
    /\ p.phase = rm.phase /\ p.map = rm.map
    /\ \A n \in Targets(p) : /\ ns[n].pos >= p.seen[n][1]
                             /\ ns[n].pos = p.seen[n][1] => ns[n].at = p.before[n]

MoveInv ==
  /\ Tables(moves) /\ Hands(moves) /\ Stand(moves, notes, room)
  /\ notes \in NoteTable /\ RoomOK /\ CheckpointsOK
  /\ \A o \in Ops : RowOK(moves.op[o]) /\ Current(moves.op[o], notes, room)

\* The four properties of one step.
FromSeen(o) ==
  LET p == moves.op[o] IN
  /\ \A n \in Targets(p) : Version(notes, n) = p.seen[n] /\ notes[n].at = p.before[n]
  /\ \A n, k \in Targets(p) : notes'[n].at - p.before[n] = notes'[k].at - p.before[k]
  /\ \A n \in NoteIds \ Targets(p) : notes'[n] = notes[n]

StepFor(o) ==
  /\ IsFinished(moves.op[o]) => moves'.op[o].state \in {moves.op[o].state, "expired"}
  /\ moves.op[o].state = "active" /\ moves'.op[o].state \in {"active", "accepted"}
       => room'.map = moves.op[o].map
  /\ Becomes(o, "accepted") /\ moves'.op[o].of = None => FromSeen(o)

StepOK == \A o \in Ops : StepFor(o)

\* What a step does to everything but the tables.
BoardStep ==
  /\ notes' \in NoteTable /\ RoomOK' /\ CheckpointsOK'
  /\ \/ BoardOnward(notes, notes') /\ room'.phase = room.phase /\ room'.map = room.map
     \/ \A o \in Ops : ~IsActive(moves'.op[o])

LEMMA RowStep ==
  ASSUME MoveInv, BoardStep, NEW o \in Ops, RowFollows(moves.op[o], moves'.op[o])
  PROVE  RowOK(moves'.op[o]) /\ Current(moves'.op[o], notes', room') /\ StepFor(o)
<1>1. RowOK(moves'.op[o])
  BY DEF MoveInv, RowOK, RowEnds, RowFollows, IsActive, Targets, ReceiptOK
<1>2. Current(moves'.op[o], notes', room')
  <2>1. CASE ~IsActive(moves'.op[o])
    BY <2>1 DEF Current
  <2>2. CASE IsActive(moves'.op[o])
    <3>1. /\ IsActive(moves.op[o])
          /\ Current(moves.op[o], notes, room) /\ RowOK(moves.op[o])
          /\ moves'.op[o].seen = moves.op[o].seen /\ moves'.op[o].phase = moves.op[o].phase
          /\ moves'.op[o].map = moves.op[o].map /\ moves'.op[o].before = moves.op[o].before
      BY <2>2 DEF MoveInv, RowEnds, RowFollows
    <3>2. BoardOnward(notes, notes') /\ room'.phase = room.phase /\ room'.map = room.map
      BY <2>2 DEF BoardStep
    <3>3. ASSUME NEW n \in Targets(moves.op[o])
          PROVE  /\ notes'[n].pos >= moves.op[o].seen[n][1]
                 /\ notes'[n].pos = moves.op[o].seen[n][1] => notes'[n].at = moves.op[o].before[n]
      <4>1. n \in NoteIds
        BY <3>1 DEF RowOK, PlacesIn
      <4>2. notes[n].pos \in Nat /\ notes'[n].pos \in Nat /\ moves.op[o].seen[n][1] \in Nat
        BY <3>1, <4>1 DEF MoveInv, BoardStep, NoteTable, RowOK
      <4>3. /\ notes'[n].pos >= notes[n].pos
            /\ notes'[n].at # notes[n].at => notes'[n].pos > notes[n].pos
        BY <3>2, <4>1 DEF BoardOnward
      <4>4. /\ notes[n].pos >= moves.op[o].seen[n][1]
            /\ notes[n].pos = moves.op[o].seen[n][1] => notes[n].at = moves.op[o].before[n]
        BY <3>1 DEF Current
      <4>5. QED BY <4>2, <4>3, <4>4
    <3>4. QED BY <3>1, <3>2, <3>3 DEF Current, Targets
  <2>3. QED BY <2>1, <2>2
<1>3. StepFor(o)
  BY DEF StepFor, RowEnds, RowFollows, IsActive, IsFinished, Becomes, BoardStep, MoveInv, Current
<1>4. QED BY <1>1, <1>2, <1>3

LEMMA EndingStep ==
  ASSUME MoveInv, Tables(moves'), OpsEnd(moves, moves'), BoardStep,
         Hands(moves'), Stand(moves', notes', room')
  PROVE  MoveInv' /\ StepOK
<1>1. \A o \in Ops : RowOK(moves'.op[o]) /\ Current(moves'.op[o], notes', room') /\ StepFor(o)
  BY RowStep DEF OpsEnd, RowEnds
<1>2. MoveInv'
  BY <1>1 DEF MoveInv, BoardStep, RowOK, Current, Hands, Stand
<1>3. QED BY <1>1, <1>2 DEF StepOK

\* A step that gives one operation a fate of its own.
LEMMA OwnStep ==
  ASSUME MoveInv, Tables(moves'), BoardStep, NEW o \in Ops,
         Hands(moves'), Stand(moves', notes', room'),
         \A q \in Ops \ {o} : RowFollows(moves.op[q], moves'.op[q]),
         RowOK(moves'.op[o]), Current(moves'.op[o], notes', room'), StepFor(o)
  PROVE  MoveInv' /\ StepOK
<1>1. \A q \in Ops : RowOK(moves'.op[q]) /\ Current(moves'.op[q], notes', room') /\ StepFor(q)
  BY RowStep
<1>2. MoveInv'
  BY <1>1 DEF MoveInv, BoardStep, RowOK, Current, Hands, Stand
<1>3. QED BY <1>1, <1>2 DEF StepOK

-----------------------------------------------------------------------------
(* The steps that end operations at most. *)

EndsOnly == Tables(moves') /\ Ends(moves, moves') /\ Stand(moves', notes', room')

LEMMA PlacedOK ==
  ASSUME notes \in NoteTable, NEW at, \A n \in DOMAIN at \cap NoteIds : at[n] \in Places
  PROVE  /\ Placed(notes, at) \in NoteTable
         /\ BoardOnward(notes, Placed(notes, at))
         /\ \A n \in NoteIds : /\ Placed(notes, at)[n].shared = notes[n].shared
                               /\ Placed(notes, at)[n].at =
                                    IF n \in DOMAIN at THEN at[n] ELSE notes[n].at
                               /\ n \notin DOMAIN at => Placed(notes, at)[n] = notes[n]
<1> DEFINE ns == Placed(notes, at)
<1>1. /\ ns = [n \in NoteIds |-> IF n \in DOMAIN at /\ at[n] # notes[n].at
                 THEN [notes[n] EXCEPT !.at = at[n], !.pos = notes[n].pos + 1] ELSE notes[n]]
  BY DEF Placed
<1> HIDE DEF ns
<1>2. ASSUME NEW n \in NoteIds
      PROVE  /\ ns[n] \in [shared : BOOLEAN, at : Places, pos : Nat, vis : Nat]
             /\ ns[n].pos >= notes[n].pos
             /\ ns[n].at # notes[n].at => ns[n].pos > notes[n].pos
             /\ ns[n].shared = notes[n].shared
             /\ ns[n].at = IF n \in DOMAIN at THEN at[n] ELSE notes[n].at
             /\ n \notin DOMAIN at => ns[n] = notes[n]
  <2>1. /\ notes[n] \in [shared : BOOLEAN, at : Places, pos : Nat, vis : Nat]
        /\ notes[n].pos \in Nat /\ notes[n].at \in Places /\ notes[n].vis \in Nat
        /\ notes[n].shared \in BOOLEAN
    BY DEF NoteTable
  <2>2. CASE n \in DOMAIN at /\ at[n] # notes[n].at
    <3>1. ns[n] = [notes[n] EXCEPT !.at = at[n], !.pos = notes[n].pos + 1]
      BY <1>1, <2>2
    <3>2. /\ ns[n].at = at[n] /\ ns[n].pos = notes[n].pos + 1 /\ ns[n].vis = notes[n].vis
          /\ ns[n].shared = notes[n].shared
          /\ ns[n] = [shared |-> ns[n].shared, at |-> ns[n].at, pos |-> ns[n].pos,
                      vis |-> ns[n].vis]
      BY <2>1, <3>1
    <3>3. at[n] \in Places
      BY <2>2
    <3>4. ns[n] \in [shared : BOOLEAN, at : Places, pos : Nat, vis : Nat]
      BY <2>1, <3>2, <3>3
    <3>5. ns[n].pos >= notes[n].pos /\ ns[n].pos > notes[n].pos
      BY <2>1, <3>2
    <3>6. QED BY <2>2, <3>2, <3>4, <3>5
  <2>3. CASE ~(n \in DOMAIN at /\ at[n] # notes[n].at)
    <3>1. ns[n] = notes[n]
      BY <1>1, <2>3
    <3>2. notes[n].pos >= notes[n].pos
      BY <2>1
    <3>3. notes[n].at = IF n \in DOMAIN at THEN at[n] ELSE notes[n].at
      BY <2>3
    <3>4. QED BY <2>1, <3>1, <3>2, <3>3
  <2>4. QED BY <2>2, <2>3
<1>3. ns \in NoteTable
  BY <1>1, <1>2 DEF NoteTable
<1>4. QED BY <1>2, <1>3 DEF ns, BoardOnward

LEMMA BoardKept ==
  ASSUME MoveInv, UNCHANGED <<notes, room, checkpoints>>
  PROVE  BoardStep
<1>1. notes' \in NoteTable /\ RoomOK' /\ CheckpointsOK'
  BY DEF MoveInv, RoomOK, CheckpointsOK
<1>2. BoardOnward(notes, notes')
  BY DEF MoveInv, BoardOnward, NoteTable
<1>3. QED BY <1>1, <1>2 DEF BoardStep

LEMMA NotesMoved ==
  ASSUME MoveInv, UNCHANGED <<room, checkpoints>>, NEW at,
         \A n \in DOMAIN at \cap NoteIds : at[n] \in Places, notes' = Placed(notes, at)
  PROVE  BoardStep
BY PlacedOK DEF BoardStep, MoveInv, RoomOK, CheckpointsOK

LEMMA SettlingEnds ==
  ASSUME MoveInv, NEW c \in Conns, NEW m, Tables(m), Ends(moves, m), SettleMoves(m, c)
  PROVE  EndsOnly
<1>1. Tables(moves') /\ Ends(m, moves') /\ Stand(moves', notes', room')
  BY SettleEnds
<1>2. QED BY <1>1, EndsTrans DEF MoveInv, Tables, EndsOnly

LEMMA ExpiredEnds ==
  ASSUME MoveInv
  PROVE  Tables(Expire(moves)) /\ Ends(moves, Expire(moves))
BY ExpireEnds DEF MoveInv

\* After the lapsed operations, one more ends.
LEMMA ExpiredFinishEnds ==
  ASSUME MoveInv, NEW o \in Ops, IsActive(Expire(moves).op[o]), NEW state \in Ended
  PROVE  /\ Tables(Finish(Expire(moves), o, state))
         /\ Ends(moves, Finish(Expire(moves), o, state))
<1>1. Tables(Expire(moves)) /\ Ends(moves, Expire(moves))
  BY ExpiredEnds
<1>2. /\ Tables(Finish(Expire(moves), o, state))
      /\ Ends(Expire(moves), Finish(Expire(moves), o, state))
  BY <1>1, FinishEnds
<1>3. QED BY <1>1, <1>2, EndsTrans DEF MoveInv, Tables

LEMMA PreviewEnds ==
  ASSUME MoveInv, NEW c \in Conns, NEW o \in Ops, Preview(c, o)
  PROVE  EndsOnly /\ BoardStep
<1> DEFINE e == Expire(moves)
           m == IF ~Mine(e, c, o) THEN e
                ELSE IF ~Stands(e, o) THEN Finish(e, o, "rejected")
                ELSE [e EXCEPT !.op[o].late = FALSE]
<1>1. Tables(e) /\ Ends(moves, e)
  BY ExpiredEnds
<1>2. SettleMoves(m, c) /\ UNCHANGED <<notes, room, checkpoints>>
  BY DEF Preview, KeepBoard, Inside
<1> HIDE DEF e
<1>3. CASE Mine(e, c, o) /\ Stands(e, o)
  <2>1. m = [e EXCEPT !.op[o].late = FALSE]
    BY <1>3
  <2>2. Tables(m) /\ Ends(e, m)
    BY <1>1, <2>1, LateEnds, SMTT(60)
  <2>3. Ends(moves, m)
    BY <1>1, <2>2, EndsTrans DEF MoveInv, Tables
  <2>4. QED BY <1>2, <2>2, <2>3, SettlingEnds, BoardKept
<1>4. CASE Mine(e, c, o) /\ ~Stands(e, o)
  <2>1. m = Finish(e, o, "rejected")
    BY <1>4
  <2>2. Tables(m) /\ Ends(moves, m)
    BY <1>4, <2>1, ExpiredFinishEnds DEF e, Mine, Ended
  <2>3. QED BY <1>2, <2>2, SettlingEnds, BoardKept
<1>5. CASE ~Mine(e, c, o)
  BY <1>1, <1>2, <1>5, SettlingEnds, BoardKept
<1>6. QED BY <1>3, <1>4, <1>5

LEMMA CancelEnds ==
  ASSUME MoveInv, NEW c \in Conns, NEW o \in Ops, Cancel(c, o)
  PROVE  EndsOnly /\ BoardStep
<1> DEFINE e == Expire(moves)
           m == IF Mine(e, c, o) THEN Finish(e, o, "cancelled") ELSE e
<1>1. Tables(e) /\ Ends(moves, e)
  BY ExpiredEnds
<1>2. Tables(m) /\ Ends(moves, m)
  BY <1>1, ExpiredFinishEnds DEF Mine, Ended
<1>3. moves' = Answered(e, c) \/ SettleMoves(m, c)
  BY DEF Cancel
<1>4. BoardStep
  BY BoardKept DEF Cancel, KeepBoard, Inside
<1> HIDE DEF e, m
<1>5. CASE moves' = Answered(e, c)
  <2>1. Tables(moves') /\ Ends(e, moves') /\ moves'.op = e.op
    BY <1>1, <1>5, AnsweredEnds DEF Answered, Tables, Shape
  <2>2. Ends(moves, moves')
    BY <1>1, <2>1, EndsTrans DEF MoveInv, Tables
  <2>3. \A o2 \in Ops : IsActive(moves'.op[o2]) => ~moves.op[o2].late
    BY <2>1, ExpireEnds DEF MoveInv, e
  <2>4. UNCHANGED <<notes, room>>
    BY DEF Cancel, KeepBoard
  <2>5. Stand(moves', notes', room')
    BY <2>1, <2>2, <2>3, <2>4, StandKept DEF MoveInv
  <2>6. QED BY <1>4, <2>1, <2>2, <2>5 DEF EndsOnly
<1>6. CASE SettleMoves(m, c)
  BY <1>2, <1>4, <1>6, SettlingEnds
<1>7. QED BY <1>3, <1>5, <1>6

LEMMA StatusEnds ==
  ASSUME MoveInv, NEW c \in Conns, NEW o \in Ops, Status(c, o)
  PROVE  EndsOnly /\ BoardStep
<1> DEFINE e == Expire(moves)
           m == IF room.closed /\ IsActive(e.op[o]) /\ e.op[o].user = User[c]
                THEN Finish(e, o, "cancelled") ELSE e
<1>1. Tables(e) /\ Ends(moves, e)
  BY ExpiredEnds
<1>2. Tables(m) /\ Ends(moves, m)
  BY <1>1, ExpiredFinishEnds DEF Ended
<1>3. SettleMoves(m, c)
  BY DEF Status
<1>4. BoardStep
  BY BoardKept DEF Status, KeepBoard, Inside
<1> HIDE DEF m
<1>5. QED BY <1>2, <1>3, <1>4, SettlingEnds

LEMMA SelfSettles ==
  ASSUME MoveInv, NEW c \in Conns, SettleMoves(moves, c)
  PROVE  EndsOnly
BY SettlingEnds, EndsSelf DEF MoveInv

LEMMA MoveOneEnds ==
  ASSUME MoveInv, NEW c \in Conns, NEW n \in NoteIds, NEW at \in Places, MoveOne(c, n, at)
  PROVE  EndsOnly /\ BoardStep
<1>1. EndsOnly
  BY ExpiredEnds, SettlingEnds DEF MoveOne
<1>2. CASE notes' = Placed(notes, [k \in {n} |-> at]) /\ UNCHANGED <<room, checkpoints>>
  BY <1>1, <1>2, NotesMoved
<1>3. CASE UNCHANGED <<notes, room, checkpoints>>
  BY <1>1, <1>3, BoardKept
<1>4. QED BY <1>1, <1>2, <1>3 DEF MoveOne, PlaceAndRegroup, KeepBoard

LEMMA DragMoveEnds ==
  ASSUME MoveInv, NEW c \in Conns, NEW at \in Places, DragMove(c, at)
  PROVE  EndsOnly /\ BoardStep
<1> DEFINE n == moves.conn[c].drag.note
           w == [moves EXCEPT !.conn[c].drag = NoDrag]
<1>1. SettleMoves(moves, c) \/ SettleMoves(w, c)
  BY DEF DragMove
<1>2. Tables(w) /\ Ends(moves, w)
  BY DropDragEnds DEF MoveInv
<1> HIDE DEF w
<1>3. EndsOnly
  BY <1>1, <1>2, SettlingEnds, SelfSettles
<1>4. CASE notes' = Placed(notes, [k \in {n} |-> at]) /\ UNCHANGED <<room, checkpoints>>
  BY <1>3, <1>4, NotesMoved
<1>5. CASE UNCHANGED <<notes, room, checkpoints>>
  BY <1>3, <1>5, BoardKept
<1>6. QED BY <1>3, <1>4, <1>5 DEF DragMove, KeepBoard

LEMMA DragEndEnds ==
  ASSUME MoveInv, NEW c \in Conns, NEW at \in Places, DragEnd(c, at)
  PROVE  EndsOnly /\ BoardStep
<1> DEFINE n == moves.conn[c].drag.note
           w == [moves EXCEPT !.conn[c].drag = NoDrag]
<1>1. SettleMoves(w, c)
  BY DEF DragEnd
<1>2. Tables(w) /\ Ends(moves, w)
  BY DropDragEnds DEF MoveInv
<1> HIDE DEF w
<1>3. EndsOnly
  BY <1>1, <1>2, SettlingEnds
<1>4. CASE notes' = Placed(notes, [k \in {n} |-> at]) /\ UNCHANGED <<room, checkpoints>>
  BY <1>3, <1>4, NotesMoved
<1>5. CASE UNCHANGED <<notes, room, checkpoints>>
  BY <1>3, <1>5, BoardKept
<1>6. QED BY <1>3, <1>4, <1>5 DEF DragEnd, PlaceAndRegroup, KeepBoard, Inside

LEMMA CursorLeaveEnds ==
  ASSUME MoveInv, NEW c \in Conns, CursorLeave(c)
  PROVE  EndsOnly /\ BoardStep
<1> DEFINE left == IF moves.conn[c].attached = None THEN moves
                   ELSE Sync(ReleaseConnection(moves, c), notes, room)
           drag == IF left.conn[c].drag.live THEN NoDrag ELSE left.conn[c].drag
           dropped == [left EXCEPT !.conn[c].drag = drag]
           conn == [left.conn EXCEPT ![c].drag = drag]
<1>1. Tables(left) /\ Ends(moves, left) /\ Stand(left, notes, room)
  <2>1. Tables(ReleaseConnection(moves, c)) /\ Ends(moves, ReleaseConnection(moves, c))
    BY ReleaseEnds DEF MoveInv
  <2>2. /\ Tables(Sync(ReleaseConnection(moves, c), notes, room))
        /\ Ends(moves, Sync(ReleaseConnection(moves, c), notes, room))
        /\ Stand(Sync(ReleaseConnection(moves, c), notes, room), notes, room)
    BY <2>1, SyncEnds, SyncKeeps, EndsTrans DEF MoveInv, Tables
  <2>3. QED BY <2>2, EndsSelf DEF MoveInv
<1>2. moves' = Answered(dropped, c)
  BY <1>1 DEF CursorLeave, Tables, Shape, Attachments
<1> HIDE DEF left
<1>3. dropped = [left EXCEPT !.conn = conn]
  BY <1>1 DEF Tables, Shape
<1>4. Attachments(conn) /\ \A d \in Conns : ConnEnds(left.conn[d], conn[d])
  BY <1>1, ZenonT(60) DEF Tables, Shape, Attachments, ConnEnds, NoDrag
<1> HIDE DEF conn
<1>5. Tables(dropped) /\ Ends(left, dropped) /\ dropped.op = left.op
  BY <1>1, <1>3, <1>4, ConnsEnd
<1> HIDE DEF dropped
<1>6. Tables(moves') /\ Ends(dropped, moves') /\ moves'.op = dropped.op
  BY <1>2, <1>5, AnsweredEnds DEF Answered, Tables, Shape
<1>7. Ends(moves, moves')
  BY <1>1, <1>5, <1>6, EndsTrans DEF MoveInv, Tables
<1>8. BoardStep /\ UNCHANGED <<notes, room>>
  BY BoardKept DEF CursorLeave, KeepBoard
<1>9. Stand(moves', notes', room')
  <2>1. Ends(left, moves')
    BY <1>1, <1>5, <1>6, EndsTrans DEF Tables
  <2>2. QED BY <1>1, <1>5, <1>6, <1>8, <2>1, StandKept
<1>10. QED BY <1>6, <1>7, <1>8, <1>9 DEF EndsOnly

\* Sharing a note, or taking it back, is seen in its other version.
LEMMA ShownChanged ==
  ASSUME MoveInv, UNCHANGED <<room, checkpoints>>, NEW ns \in NoteTable,
         BoardOnward(notes, ns), NEW n \in NoteIds, NEW shared \in BOOLEAN,
         notes' = [ns EXCEPT ![n].shared = shared, ![n].vis = ns[n].vis + 1]
  PROVE  BoardStep
<1>1. ns[n] \in [shared : BOOLEAN, at : Places, pos : Nat, vis : Nat] /\ ns[n].vis + 1 \in Nat
  BY DEF NoteTable
<1>2. ASSUME NEW k \in NoteIds
      PROVE  /\ notes'[k] \in [shared : BOOLEAN, at : Places, pos : Nat, vis : Nat]
             /\ notes'[k].pos = ns[k].pos /\ notes'[k].at = ns[k].at
  BY <1>1 DEF NoteTable
<1>3. notes' \in NoteTable
  BY <1>2 DEF NoteTable
<1>4. BoardOnward(notes, notes')
  BY <1>2 DEF BoardOnward
<1>5. QED BY <1>3, <1>4 DEF BoardStep, MoveInv, RoomOK, CheckpointsOK

LEMMA UnpublishEnds ==
  ASSUME MoveInv, NEW c \in Conns, NEW n \in NoteIds, Unpublish(c, n)
  PROVE  EndsOnly /\ BoardStep
<1> DEFINE e == Expire(moves)
           w == [e EXCEPT !.conn[c].drag = NoDrag]
<1>1. SettleMoves(w, c) \/ SettleMoves(e, c)
  BY DEF Unpublish
<1>2. Tables(e) /\ Ends(moves, e)
  BY ExpiredEnds
<1> HIDE DEF e
<1>3. Tables(w) /\ Ends(e, w)
  BY <1>2, DropDragEnds
<1> HIDE DEF w
<1>4. EndsOnly
  BY <1>1, <1>2, <1>3, SettlingEnds, EndsTrans DEF MoveInv, Tables
<1>5. BoardOnward(notes, notes)
  BY DEF BoardOnward, MoveInv, NoteTable
<1>6. BoardStep
  BY <1>5, ShownChanged DEF Unpublish, MoveInv
<1>7. QED BY <1>4, <1>6

LEMMA PublishEnds ==
  ASSUME MoveInv, NEW c \in Conns, NEW n \in NoteIds, NEW at \in Places, Publish(c, n, at)
  PROVE  EndsOnly /\ BoardStep
<1> DEFINE ns == Placed(notes, [k \in {n} |-> at])
<1>1. EndsOnly
  BY SelfSettles DEF Publish
<1>2. ns \in NoteTable /\ BoardOnward(notes, ns)
  BY PlacedOK DEF MoveInv
<1>3. /\ notes' = [ns EXCEPT ![n].shared = TRUE, ![n].vis = ns[n].vis + 1]
      /\ UNCHANGED <<room, checkpoints>>
  BY DEF Publish
<1> HIDE DEF ns
<1>4. QED BY <1>1, <1>2, <1>3, ShownChanged

LEMMA GroupEnds ==
  ASSUME MoveInv, NEW c \in Conns,
         (\E k \in DOMAIN ClustersOf(notes) : CreateGroup(c, ClustersOf(notes)[k]))
         \/ (\E k \in DOMAIN groups : RenameGroup(c, k))
  PROVE  EndsOnly /\ BoardStep
<1>1. SettleMoves(moves, c) /\ UNCHANGED <<notes, room, checkpoints>>
  BY DEF CreateGroup, RenameGroup
<1>2. QED BY <1>1, SelfSettles, BoardKept

\* No lock, no active operation: the map may be resized.
LEMMA ResizeEnds ==
  ASSUME MoveInv, NEW c \in Conns, Resize(c)
  PROVE  EndsOnly /\ BoardStep
<1> DEFINE e == Expire(moves)
<1>1. Tables(e) /\ Ends(moves, e)
  BY ExpiredEnds
<1>2. SettleMoves(e, c) /\ (\A n \in NoteIds : e.lock[n] = None)
      /\ UNCHANGED <<notes, checkpoints>> /\ room' = [room EXCEPT !.map = room.map + 1]
  BY DEF Resize
<1> HIDE DEF e
<1>3. EndsOnly /\ Ends(e, moves')
  BY <1>1, <1>2, SettlingEnds, SettleEnds
<1>4. \A o \in Ops : ~IsActive(e.op[o])
  BY <1>1, <1>2 DEF Tables, Locked
<1>5. \A o \in Ops : ~IsActive(moves'.op[o])
  BY <1>3, <1>4 DEF Ends, OpsEnd, RowEnds, RowFollows
<1>6. QED BY <1>2, <1>3, <1>5 DEF BoardStep, MoveInv, RoomOK, CheckpointsOK

LEMMA BoundaryEnds ==
  ASSUME MoveInv, Boundary(moves)
  PROVE  /\ EndsOnly /\ \A o \in Ops : ~IsActive(moves'.op[o])
         /\ \A c \in Conns : moves'.conn[c].drag = NoDrag
<1>1. /\ Tables(CancelAll(moves)) /\ Ends(moves, CancelAll(moves))
      /\ \A o \in Ops : ~IsActive(CancelAll(moves).op[o])
  BY CancelAllEnds DEF MoveInv
<1>2. Tables(moves') /\ Ends(CancelAll(moves), moves')
  BY <1>1, RetireEnds DEF Boundary
<1>3. \A o \in Ops : ~IsActive(moves'.op[o])
  BY <1>1, <1>2 DEF Ends, OpsEnd, RowEnds, RowFollows
<1>4. \A c \in Conns : moves'.conn[c].drag = NoDrag
  BY <1>1 DEF Boundary, RetireAllDrags, Tables, Shape, Attachments
<1>5. Stand(moves', notes', room')
  <2>1. ASSUME NEW c \in Conns, moves'.conn[c].attached # None
        PROVE  ~IsActive(moves'.op[moves'.conn[c].attached])
    BY <1>2, <1>3, <2>1 DEF Tables, Shape, Attachments
  <2>2. QED BY <2>1 DEF Stand
<1>6. QED BY <1>1, <1>2, <1>3, <1>4, <1>5, EndsTrans DEF EndsOnly, MoveInv, Tables

LEMMA NextStepEnds ==
  ASSUME MoveInv, NextStep
  PROVE  EndsOnly /\ BoardStep
<1> DEFINE saved == [notes |-> notes, groups |-> groups, step |-> room.step,
                     timer |-> room.timer]
<1>1. EndsOnly /\ \A o \in Ops : ~IsActive(moves'.op[o])
  BY BoundaryEnds DEF NextStep
<1>2. checkpoints' = Append(checkpoints, saved) /\ UNCHANGED notes
      /\ room' = [room EXCEPT !.phase = room.phase + 1, !.step = Agenda[Position + 1],
                              !.timer = "idle"]
  BY DEF NextStep
<1>3. saved.notes \in NoteTable
  BY DEF MoveInv
<1> HIDE DEF saved
<1>4. CheckpointsOK'
  BY <1>2, <1>3 DEF MoveInv, CheckpointsOK
<1>5. RoomOK'
  BY <1>2 DEF MoveInv, RoomOK
<1>6. QED BY <1>1, <1>2, <1>4, <1>5 DEF BoardStep, MoveInv

LEMMA RollbackEnds ==
  ASSUME MoveInv, Rollback
  PROVE  EndsOnly /\ BoardStep
<1>1. EndsOnly /\ \A o \in Ops : ~IsActive(moves'.op[o])
  BY BoundaryEnds DEF Rollback
<1>2. /\ checkpoints # << >> /\ checkpoints' = Front(checkpoints)
      /\ notes' = Last(checkpoints).notes
      /\ room' = [room EXCEPT !.phase = room.phase + 1, !.map = room.map + 1,
                    !.step = Last(checkpoints).step,
                    !.timer = IF Last(checkpoints).timer = "idle" THEN "idle" ELSE "running"]
  BY DEF Rollback
<1>3. Len(checkpoints) \in DOMAIN checkpoints /\ Len(checkpoints) \in Nat
  BY <1>2 DEF MoveInv, CheckpointsOK
<1>4. notes' \in NoteTable
  BY <1>2, <1>3 DEF MoveInv, CheckpointsOK, Last
<1>5. CheckpointsOK'
  <2> DEFINE S == {checkpoints[i] : i \in DOMAIN checkpoints}
             T == {checkpoints'[i] : i \in DOMAIN checkpoints'}
             len == Len(checkpoints) - 1
  <2>1. checkpoints \in Seq(S) /\ len \in Nat /\ DOMAIN checkpoints = 1 .. (len + 1)
    BY <1>3 DEF MoveInv, CheckpointsOK
  <2>2. \A i \in 1 .. len : checkpoints[i] \in S /\ checkpoints[i].notes \in NoteTable
    BY <2>1 DEF MoveInv, CheckpointsOK
  <2>3. checkpoints' = SubSeq(checkpoints, 1, len)
    BY <1>2 DEF Front
  <2> HIDE DEF S, len
  <2>4. /\ checkpoints' \in Seq(S) /\ (len >= 1 => Len(checkpoints') = len)
        /\ (len < 1 => Len(checkpoints') = 0)
        /\ \A i \in 1 .. len : checkpoints'[i] = checkpoints[i]
    BY <2>1, <2>2, <2>3, SubSeqProperties
  <2>5. DOMAIN checkpoints' = 1 .. len /\ checkpoints' = [i \in 1 .. len |-> checkpoints'[i]]
    BY <2>1, <2>4
  <2>6. checkpoints' \in Seq(T)
    <3>1. checkpoints' \in [1 .. len -> T]
      BY <2>5
    <3>2. len \in Nat
      BY <2>1
    <3> HIDE DEF T
    <3>3. QED BY <3>1, <3>2
  <2>7. QED BY <2>2, <2>4, <2>5, <2>6 DEF CheckpointsOK
<1>6. RoomOK'
  BY <1>2 DEF MoveInv, RoomOK
<1>7. QED BY <1>1, <1>4, <1>5, <1>6 DEF BoardStep

LEMMA SetTimerEnds ==
  ASSUME MoveInv, NEW state, SetTimer(state)
  PROVE  EndsOnly /\ BoardStep
<1>2. room' = [room EXCEPT !.timer = state] /\ UNCHANGED <<notes, moves, checkpoints>>
  BY DEF SetTimer
<1>1. EndsOnly
  <2>1. /\ room'.step = room.step /\ room'.closed = room.closed /\ room'.phase = room.phase
        /\ room'.map = room.map /\ room'.members = room.members
    BY <1>2 DEF MoveInv, RoomOK
  <2>2. Tables(moves') /\ Ends(moves, moves')
    BY <1>2, EndsSelf DEF MoveInv
  <2>3. Stand(moves', notes', room')
    BY <1>2, <2>1, <2>2, StandKept DEF MoveInv
  <2>4. QED BY <2>2, <2>3 DEF EndsOnly
<1>3. RoomOK' /\ CheckpointsOK' /\ room'.phase = room.phase /\ room'.map = room.map
  BY <1>2 DEF MoveInv, RoomOK, CheckpointsOK
<1>4. BoardOnward(notes, notes')
  BY <1>2 DEF MoveInv, BoardOnward, NoteTable
<1>5. QED BY <1>1, <1>2, <1>3, <1>4 DEF BoardStep, MoveInv

LEMMA AdoptEnds ==
  ASSUME MoveInv, NEW c \in Conns, Adopt(c)
  PROVE  EndsOnly /\ BoardStep
<1> DEFINE m == RetireAllDrags(CancelAll(moves))
<1>1. Tables(CancelAll(moves)) /\ Ends(moves, CancelAll(moves))
  BY CancelAllEnds DEF MoveInv
<1>2. Tables(m) /\ Ends(moves, m)
  BY <1>1, RetireEnds, EndsTrans DEF MoveInv, Tables
<1>3. SettleMoves(m, c)
  BY DEF Adopt
<1>4. BoardStep
  BY BoardKept DEF Adopt, KeepBoard
<1> HIDE DEF m
<1>5. QED BY <1>2, <1>3, <1>4, SettlingEnds

\* The room changes in what no operation depends on.
LEMMA RoomChanged ==
  ASSUME MoveInv, UNCHANGED <<notes, checkpoints>>, NEW members, NEW closed,
         room' = [room EXCEPT !.members = members, !.closed = closed]
  PROVE  BoardStep
<1>1. RoomOK' /\ CheckpointsOK' /\ room'.phase = room.phase /\ room'.map = room.map
  BY DEF MoveInv, RoomOK, CheckpointsOK
<1>2. BoardOnward(notes, notes')
  BY DEF MoveInv, BoardOnward, NoteTable
<1>3. QED BY <1>1, <1>2 DEF BoardStep, MoveInv

LEMMA CompleteEnds ==
  ASSUME MoveInv, Complete
  PROVE  EndsOnly /\ BoardStep
<1>1. EndsOnly
  BY SyncEnds, SyncKeeps DEF Complete, MoveInv, EndsOnly
<1>2. room' = [room EXCEPT !.members = room.members, !.closed = TRUE]
  BY DEF Complete, MoveInv, RoomOK
<1>3. BoardStep
  BY <1>2, RoomChanged DEF Complete
<1>4. QED BY <1>1, <1>3

LEMMA LeaveEnds ==
  ASSUME MoveInv, NEW u \in Users, Leave(u)
  PROVE  EndsOnly /\ BoardStep
<1> DEFINE mine == {o \in Ops : moves.op[o].user = u}
           active == {o \in mine : IsActive(moves.op[o])}
           f == FinishAll(moves, active, "cancelled")
           trigger == [f EXCEPT !.lock = [n \in NoteIds |-> IF f.lock[n] \in mine THEN None
                                                            ELSE f.lock[n]]]
           s == Sync(trigger, notes, room')
           cs == {c \in Conns : User[c] = u}
<1>1. Tables(f) /\ Ends(moves, f)
  BY FinishAllEnds DEF MoveInv, Ended
<1>2. \A n \in NoteIds : f.lock[n] \notin mine
  \* a lock of theirs belonged to an active operation, which is ended
  <2>1. ASSUME NEW o \in mine PROVE ~IsActive(f.op[o])
    <3>1. DOMAIN moves = {"op", "lock", "conn"} /\ DOMAIN moves.op[o] = RowFields
      BY SMTT(60) DEF MoveInv, Tables, Shape, Rows
    <3>2. f.op[o] = IF o \in active THEN [moves.op[o] EXCEPT !.state = "cancelled", !.late = FALSE]
                    ELSE moves.op[o]
      BY <3>1, SMTT(60) DEF FinishAll
    <3>3. QED BY <3>1, <3>2, ZenonT(60) DEF RowFields, IsActive
  <2>2. QED BY <1>1, <2>1 DEF Tables, Locked
<1>3. moves' = CloseSockets(s, cs) /\ UNCHANGED <<notes, checkpoints>>
      /\ room' = [room EXCEPT !.members = room.members \ {u}]
  BY ZenonT(60) DEF Leave
<1>4. trigger = f
  <2>1. [n \in NoteIds |-> IF f.lock[n] \in mine THEN None ELSE f.lock[n]] = f.lock
    BY <1>1, <1>2, ZenonT(60) DEF Tables, Shape, Locks
  <2>2. DOMAIN f = {"op", "lock", "conn"}
    BY <1>1, SMTT(60) DEF Tables, Shape
  <2>3. trigger = [f EXCEPT !.lock = f.lock]
    BY Zenon, <2>1
  <2> HIDE DEF f, trigger
  <2>4. f = [i \in DOMAIN f |-> f[i]]
    <3> DEFINE op == [o \in Ops |-> IF o \in active
                         THEN [moves.op[o] EXCEPT !.state = "cancelled", !.late = FALSE]
                         ELSE moves.op[o]]
               lock == [n \in NoteIds |-> IF moves.lock[n] \in active THEN None
                                          ELSE moves.lock[n]]
    <3>1. f = [moves EXCEPT !.op = op, !.lock = lock]
      BY DEF f, FinishAll
    <3> HIDE DEF op, lock
    <3>2. QED BY <3>1
  <2>5. QED BY <2>2, <2>3, <2>4, SMTT(60)
<1> HIDE DEF f, trigger
<1>5. Tables(s) /\ Ends(moves, s) /\ Stand(s, notes, room')
  BY <1>1, <1>4, SyncEnds, SyncKeeps, EndsTrans DEF MoveInv, Tables
<1> HIDE DEF s
<1>6. EndsOnly
  <2>1. Tables(moves') /\ Ends(s, moves') /\ moves'.op = s.op
    BY <1>3, <1>5, CloseSocketsEnds DEF CloseSockets, Tables, Shape
  <2>2. Stand(moves', notes', room')
    BY <1>3, <1>5, <2>1, StandKept
  <2>3. QED BY <1>5, <2>1, <2>2, EndsTrans DEF EndsOnly, MoveInv, Tables
<1>7. room' = [room EXCEPT !.members = room.members \ {u}, !.closed = room.closed]
  BY <1>3 DEF MoveInv, RoomOK
<1>8. QED BY <1>3, <1>6, <1>7, RoomChanged

LEMMA SocketClosesEnds ==
  ASSUME MoveInv, NEW c \in Conns, NEW waiting \in BOOLEAN, SocketCloses(c, waiting)
  PROVE  EndsOnly /\ BoardStep
<1> DEFINE r == ReleaseConnection(moves, c)
           k == CloseSockets(r, {c})
           s == Sync(k, notes, room)
           conn == [s.conn EXCEPT ![c].waiting = waiting]
<1>1. Tables(r) /\ Ends(moves, r)
  BY ReleaseEnds DEF MoveInv
<1>2. moves' = [s EXCEPT !.conn[c].waiting = waiting]
  BY DEF SocketCloses
<1>3. BoardStep /\ UNCHANGED <<notes, room>>
  BY BoardKept DEF SocketCloses, KeepBoard
<1> HIDE DEF r
<1>4. Tables(k) /\ Ends(moves, k)
  BY <1>1, CloseSocketsEnds, EndsTrans DEF MoveInv, Tables
<1> HIDE DEF k
<1>5. Tables(s) /\ Ends(moves, s) /\ Stand(s, notes, room)
  BY <1>4, SyncEnds, SyncKeeps, EndsTrans DEF MoveInv, Tables
<1> HIDE DEF s
<1>6. moves' = [s EXCEPT !.conn = conn]
  BY <1>2, <1>5 DEF Tables, Shape
<1>7. /\ Attachments(conn)
      /\ \A d \in Conns : /\ conn[d].open = s.conn[d].open /\ conn[d].drag = s.conn[d].drag
                          /\ conn[d].attached = s.conn[d].attached
                          /\ d # c => conn[d] = s.conn[d]
  BY <1>5 DEF Tables, Shape, Attachments
<1> HIDE DEF conn
<1>8. Tables(moves') /\ moves'.op = s.op /\ moves'.lock = s.lock /\ moves'.conn = conn
  <2>1. moves'.op = s.op /\ moves'.lock = s.lock /\ moves'.conn = conn /\ DOMAIN moves' = DOMAIN s
    BY <1>5, <1>6 DEF Tables, Shape
  <2>2. QED BY <1>5, <1>7, <2>1 DEF Tables, Shape, Locked
<1>9. Stand(moves', notes', room')
  BY <1>3, <1>5, <1>7, <1>8 DEF Stand, Presents, HoldsAll
<1>10. ASSUME NEW d \in Conns PROVE ConnEnds(moves.conn[d], moves'.conn[d])
  <2>1. ConnEnds(moves.conn[d], s.conn[d]) /\ moves.conn[c].open
    BY <1>5 DEF Ends, SocketCloses
  <2>2. QED BY <1>7, <1>8, <2>1 DEF ConnEnds
<1>11. Ends(moves, moves')
  BY <1>5, <1>8, <1>10 DEF Ends, OpsEnd
<1>12. QED BY <1>3, <1>8, <1>9, <1>11 DEF EndsOnly

LEMMA TimeEndsEnds ==
  ASSUME MoveInv, NEW o \in Ops, TimeEnds(o)
  PROVE  EndsOnly /\ BoardStep
<1>1. BoardStep /\ UNCHANGED <<notes, room>>
  BY BoardKept DEF TimeEnds
<1>2. Tables(moves') /\ Ends(moves, moves')
  BY LateEnds DEF TimeEnds, MoveInv
<1>3. \A q \in Ops : ~moves'.op[q].late => ~moves.op[q].late
  BY DEF TimeEnds, MoveInv, Tables, Shape, Rows, RowFields
<1>4. Stand(moves', notes', room')
  BY <1>1, <1>2, <1>3, StandKept DEF MoveInv
<1>5. QED BY <1>1, <1>2, <1>4 DEF EndsOnly

LEMMA DragLapsesEnds ==
  ASSUME MoveInv, NEW c \in Conns, DragLapses(c)
  PROVE  EndsOnly /\ BoardStep
<1> DEFINE drag == [moves.conn[c].drag EXCEPT !.live = FALSE]
           conn == [moves.conn EXCEPT ![c].drag = drag]
<1>1. moves' = [moves EXCEPT !.conn = conn]
  <2>1. /\ DOMAIN moves = {"op", "lock", "conn"} /\ DOMAIN moves.conn = Conns
        /\ DOMAIN moves.conn[c] = {"open", "waiting", "attached", "drag"}
    BY DEF MoveInv, Tables, Shape, Attachments
  <2>2. QED BY <2>1 DEF DragLapses
<1>0. drag \in [note : NoteIds \cup {None}, live : BOOLEAN] /\ ~drag.live
  BY ZenonT(60) DEF MoveInv, Tables, Shape, Attachments
<1> HIDE DEF drag
<1>2. Attachments(conn) /\ \A d \in Conns : ConnEnds(moves.conn[d], conn[d])
  BY <1>0 DEF MoveInv, Tables, Shape, Attachments, ConnEnds
<1> HIDE DEF conn
<1>3. Tables(moves') /\ Ends(moves, moves') /\ moves'.op = moves.op
  BY <1>1, <1>2, ConnsEnd DEF MoveInv
<1>4. BoardStep /\ UNCHANGED <<notes, room>>
  BY BoardKept DEF DragLapses
<1>5. Stand(moves', notes', room')
  BY <1>3, <1>4, StandKept DEF MoveInv
<1>6. QED BY <1>3, <1>4, <1>5 DEF EndsOnly

LEMMA AlarmEnds ==
  ASSUME MoveInv, Alarm
  PROVE  EndsOnly /\ BoardStep
<1> DEFINE e == Expire(moves)
           s == Sync(e, notes, room)
           conn == [c \in Conns |-> IF s.conn[c].drag.live THEN s.conn[c]
                                    ELSE [s.conn[c] EXCEPT !.drag = NoDrag]]
<1>1. Tables(e) /\ Ends(moves, e)
  BY ExpiredEnds
<1>2. moves' = [s EXCEPT !.conn = conn]
  BY DEF Alarm
<1> HIDE DEF e
<1>3. Tables(s) /\ Ends(moves, s) /\ Stand(s, notes, room)
  BY <1>1, SyncEnds, SyncKeeps, EndsTrans DEF MoveInv, Tables
<1> HIDE DEF s
<1>4. Attachments(conn) /\ \A c \in Conns : ConnEnds(s.conn[c], conn[c])
  BY <1>3, ZenonT(60) DEF Tables, Shape, Attachments, ConnEnds, NoDrag
<1> HIDE DEF conn
<1>5. Tables(moves') /\ Ends(s, moves') /\ moves'.op = s.op
  BY <1>2, <1>3, <1>4, ConnsEnd
<1>6. BoardStep /\ UNCHANGED <<notes, room>>
  BY BoardKept DEF Alarm, KeepBoard, Inside
<1>7. Stand(moves', notes', room')
  BY <1>3, <1>5, <1>6, StandKept
<1>8. QED BY <1>3, <1>5, <1>6, <1>7, EndsTrans DEF EndsOnly, MoveInv, Tables

LEMMA EndsOnlyStep ==
  ASSUME MoveInv, EndsOnly /\ BoardStep
  PROVE  MoveInv' /\ StepOK /\ KeepsHands(moves, moves')
<1>1. KeepsHands(moves, moves') /\ Hands(moves')
  BY EndsKeepHands, HandsKept DEF EndsOnly, MoveInv
<1>2. QED BY <1>1, EndingStep DEF EndsOnly, Ends

-----------------------------------------------------------------------------
(* What a step does to the histories. *)

\* A socket that is closed, with nothing on its way, stays so.
SocketsOnward ==
  \A c \in Conns : moves'.conn[c].open \/ moves'.conn[c].waiting
                     => moves.conn[c].open \/ moves.conn[c].waiting

\* Nobody's history changes.
Still ==
  SocketsOnward /\ \A o \in Ops : moves'.op[o].state = "accepted"
                                    => RowEnds(moves.op[o], moves'.op[o])

\* A history after its own connection has changed the notes of D and the groups.
Carried(e, D) ==
  [targets |-> [n \in DOMAIN e.targets |->
                  IF n \in D /\ e.targets[n] = Version(notes, n) THEN Version(notes', n)
                  ELSE e.targets[n]],
   groups  |->
      IF \E i \in DOMAIN e.groups : gver[i] # e.groups[i] THEN e.groups
      ELSE [i \in DOMAIN e.groups \cup
                  {g.id : g \in {h \in ToSet(groups') : /\ gver[h.id] # gver'[h.id]
                                                        /\ Touches(h, DOMAIN e.targets)}}
              |-> gver'[i]]]

CarriedBy(p, q, c) ==
  q.expected = p.expected \/ (p.conn = Identity(c) /\ \E D : q.expected = Carried(p.expected, D))

\* The effect of a commit on its own row.
Committed(o) ==
  \E changed \in BOOLEAN :
    LET p == moves.op[o]
        r == Receipt(Targets(p), {}, notes', ToSet(groups) \ ToSet(groups'),
                     ToSet(groups') \ ToSet(groups), p.before, changed)
        x == ExpectedFrom(r, gver', groups')
    IN /\ Targets(p) \subseteq NoteIds /\ DOMAIN p.before = Targets(p)
       /\ \A n \in Targets(p) : notes[n].at = p.before[n]
       /\ moves'.op[o].of = None
       /\ moves'.op[o].receipt = [r EXCEPT !.known = DOMAIN x.groups]
       /\ moves'.op[o].expected = x

\* The row may be taken back by the connection (MayUndo).
Undoable(p, c) ==
  LET r == p.receipt
      e == p.expected
  IN /\ moves.conn[c].open \/ moves.conn[c].waiting
     /\ p.state = "accepted" /\ r # None /\ p.conn = Identity(c) /\ p.phase = room.phase
     /\ \A i \in DOMAIN e.groups : gver[i] = e.groups[i]
     /\ \A n \in DOMAIN e.targets : Version(notes, n) = e.targets[n]
     /\ \A n \in DOMAIN r.after : notes[n].at = r.after[n]
     /\ r.groupsAfter \subseteq ToSet(groups)
     /\ \A g \in r.groupsBefore : \/ g.id \in {h.id : h \in r.groupsAfter}
                                  \/ g.id \notin {h.id : h \in ToSet(groups)}

\* The effect of an undo on the board and on its own row.
TakenBack(o, src, c) ==
  LET p == moves.op[src]
      r == p.receipt
      u == [changed |-> TRUE, before |-> r.after, after |-> r.before,
            groupsBefore |-> r.groupsAfter,
            groupsAfter |-> {g \in ToSet(groups') : g.id \in {h.id : h \in r.groupsBefore}},
            affected |-> [n \in DOMAIN p.expected.targets |-> Version(notes', n)],
            known |-> {}]
      x == ExpectedFrom(u, gver', groups')
  IN /\ Undoable(p, c) /\ moves'.op[o].of = src
     /\ notes' = Placed(notes, r.before)
     /\ groups' = UndoneGroups(r) /\ gver' = UndoneVersions(r)
     /\ moves'.op[o].receipt = [u EXCEPT !.known = DOMAIN x.groups]
     /\ moves'.op[o].expected = x

\* A connection changes the board by an operation: its histories follow.
Changes(c, o) ==
  /\ SocketsOnward
  /\ moves.conn[c].open \/ (~moves'.conn[c].open /\ ~moves'.conn[c].waiting)
  /\ UNCHANGED room
  /\ \A q \in Ops \ {o} : moves'.op[q].state = "accepted" =>
       RowFollows(moves.op[q], moves'.op[q]) /\ CarriedBy(moves.op[q], moves'.op[q], c)
  /\ moves.op[o].state # "accepted" /\ moves'.op[o].state = "accepted"
  /\ moves'.op[o].conn = Identity(c) /\ moves'.op[o].phase = room.phase
  /\ \/ Committed(o) /\ gver' = Counted(groups, groups')
     \/ \E src \in Ops : TakenBack(o, src, c)

LEMMA EndsStill ==
  ASSUME OpsEnd(moves, moves'), SocketsOnward
  PROVE  Still
BY DEF OpsEnd, Still

LEMMA EndsOnlyStill ==
  ASSUME EndsOnly
  PROVE  Still
BY DEF EndsOnly, Ends, OpsEnd, ConnEnds, Still, SocketsOnward

LEMMA SettledSockets ==
  ASSUME NEW m, Tables(m), NEW c \in Conns, SettleMoves(m, c),
         \A d \in Conns : /\ m.conn[d].open = moves.conn[d].open
                          /\ m.conn[d].waiting = moves.conn[d].waiting
  PROVE  /\ SocketsOnward
         /\ moves.conn[c].open \/ (~moves'.conn[c].open /\ ~moves'.conn[c].waiting)
<1> DEFINE a == Answered(m, c)
<1>1. Tables(a)
  BY AnsweredEnds
<1>2. /\ \A d \in Conns : /\ a.conn[d].open = m.conn[d].open
                          /\ a.conn[d].waiting => m.conn[d].waiting
      /\ ~a.conn[c].waiting
  BY DEF Answered, Tables, Shape, Attachments
<1>3. moves' = Sync(a, notes', room')
  BY DEF SettleMoves
<1> HIDE DEF a
<1>4. \A d \in Conns : ConnEnds(a.conn[d], moves'.conn[d])
  BY <1>1, <1>3, SyncEnds DEF Ends
<1>5. QED BY <1>2, <1>4 DEF ConnEnds, SocketsOnward

-----------------------------------------------------------------------------
(* The steps that begin something. *)

\* A connection that drags nothing takes a free note in hand.
TakesDrag(c, n) ==
  /\ IsFree(moves, n)
  /\ moves.conn[c].open /\ ~moves.conn[c].drag.live
  /\ moves'.conn[c].open /\ moves'.conn[c].drag = [note |-> n, live |-> TRUE]
  /\ \A d \in Conns \ {c} : /\ moves'.conn[d].open = moves.conn[d].open
                            /\ moves'.conn[d].drag = moves.conn[d].drag
  /\ moves'.lock[n] = None

LEMMA DragTaken ==
  ASSUME MoveInv, Tables(moves'), OpsEnd(moves, moves'), NEW c \in Conns, NEW n \in NoteIds,
         TakesDrag(c, n)
  PROVE  Hands(moves')
<1> SUFFICES ASSUME NEW k \in NoteIds
             PROVE  /\ \A d1, d2 \in ActiveDrags(moves', k) : d1 = d2
                    /\ moves'.lock[k] # None => ActiveDrags(moves', k) = {}
  BY DEF Hands
<1>1. moves'.lock[k] \in {moves.lock[k], None}
  BY LocksKept DEF MoveInv, OpsEnd, RowEnds, RowFollows
<1>2. \A d \in Conns \ {c} : d \in ActiveDrags(moves', k) => d \in ActiveDrags(moves, k)
  BY DEF ActiveDrags, TakesDrag
<1>3. CASE k = n
  BY <1>2, <1>3 DEF TakesDrag, IsFree, ActiveDrags
<1>4. CASE k # n
  <2>1. c \notin ActiveDrags(moves', k)
    BY <1>4 DEF ActiveDrags, TakesDrag
  <2>2. ActiveDrags(moves', k) \subseteq ActiveDrags(moves, k)
    BY <1>2, <2>1 DEF ActiveDrags
  <2>3. QED BY <1>1, <2>2 DEF MoveInv, Hands
<1>5. QED BY <1>3, <1>4

\* An older client takes a note in hand: only the attachments change.
LEMMA DragStarts ==
  ASSUME MoveInv, NEW c \in Conns, NEW n \in NoteIds, DragStart(c, n)
  PROVE  /\ Tables(moves') /\ OpsEnd(moves, moves') /\ BoardStep
         /\ Hands(moves') /\ Stand(moves', notes', room') /\ UNCHANGED <<notes, room>>
         /\ KeepsHands(moves, moves') \/ TakesDrag(c, n)
         /\ Still
<1> DEFINE e == Expire(moves)
           drag == [note |-> n, live |-> TRUE]
           w == [e EXCEPT !.conn[c].drag = drag]
           conn == [e.conn EXCEPT ![c].drag = drag]
<1>1. \/ SettleMoves(e, c)
      \/ SettleMoves(w, c) /\ e.lock[n] = None /\ ActiveDrags(e, n) \subseteq {c}
  BY DEF DragStart
<1>2. Tables(e) /\ Ends(moves, e) /\ e.conn = moves.conn
  BY ExpiredEnds, ExpireKeeps DEF MoveInv
<1>3. BoardStep /\ UNCHANGED <<notes, room>>
  BY BoardKept DEF DragStart, KeepBoard
<1>4. e.lock[n] = None /\ ActiveDrags(e, n) = {} => IsFree(moves, n)
  BY ExpireKeeps DEF MoveInv
<1> HIDE DEF e
<1>5. w = [e EXCEPT !.conn = conn] /\ Attachments(conn)
  BY <1>2 DEF Tables, Shape, Attachments
<1>6. /\ conn[c].open = moves.conn[c].open /\ conn[c].drag = drag
      /\ \A d \in Conns \ {c} : conn[d] = moves.conn[d]
  BY <1>2 DEF Tables, Shape, Attachments
<1> HIDE DEF conn
<1>7. w.op = e.op /\ w.lock = e.lock /\ w.conn = conn /\ DOMAIN w = DOMAIN e
  BY <1>2, <1>5 DEF Tables, Shape
<1> HIDE DEF w
<1>8. Tables(w)
  BY <1>2, <1>5, <1>7 DEF Tables, Shape, Locked
<1>9. CASE SettleMoves(e, c)
  <2>1. EndsOnly
    BY <1>2, <1>9, SettlingEnds
  <2>2. KeepsHands(moves, moves') /\ Hands(moves')
    BY <2>1, EndsKeepHands, HandsKept DEF EndsOnly, MoveInv
  <2>3. QED BY <1>3, <2>1, <2>2, EndsOnlyStill DEF EndsOnly, Ends
<1>10. CASE SettleMoves(w, c) /\ e.lock[n] = None /\ ActiveDrags(e, n) \subseteq {c}
  <2>1. Tables(moves') /\ Ends(w, moves') /\ Stand(moves', notes', room')
    BY <1>8, <1>10, SettleEnds
  <2>2. ASSUME NEW o \in Ops PROVE RowEnds(moves.op[o], moves'.op[o])
    <3>1. RowEnds(moves.op[o], e.op[o]) /\ w.op[o] = e.op[o] /\ RowEnds(w.op[o], moves'.op[o])
      BY <1>2, <1>7, <2>1 DEF Ends, OpsEnd
    <3>2. e.op[o].state \in States /\ moves.op[o].state \in States /\ moves'.op[o].state \in States
      BY <1>2, <2>1 DEF Tables, Shape, Rows, MoveInv
    <3>3. QED BY <3>1, <3>2 DEF RowEnds, RowFollows, IsActive, IsFinished, States
  <2>3. OpsEnd(moves, moves')
    BY <2>2 DEF OpsEnd
  <2>4. \A d \in Conns : /\ moves'.conn[d].open = conn[d].open
                         /\ moves'.conn[d].drag = conn[d].drag
    BY <1>7, <1>8, <1>10, SettleKeeps
  <2>8. Still
    <3>1. \A d \in Conns : conn[d].open = moves.conn[d].open /\ conn[d].waiting = moves.conn[d].waiting
      BY <1>2 DEF conn, Tables, Shape, Attachments
    <3>2. SocketsOnward
      BY <1>7, <1>8, <1>10, <3>1, SettledSockets
    <3>3. QED BY <2>3, <3>2, EndsStill
  <2>5. CASE ~moves.conn[c].open \/ moves.conn[c].drag = drag
    <3>1. KeepsHands(moves, moves')
      BY <1>6, <2>3, <2>4, <2>5 DEF KeepsHands, OpsEnd, RowEnds, RowFollows
    <3>2. QED BY <1>3, <2>1, <2>3, <2>8, <3>1, HandsKept DEF MoveInv
  <2>6. CASE moves.conn[c].open /\ moves.conn[c].drag # drag
    <3>1. ~moves.conn[c].drag.live
      <4>1. moves.conn[c].drag.live => moves.conn[c].drag.note = n
        BY <2>6 DEF DragStart
      <4>2. moves.conn[c].drag \in [note : NoteIds \cup {None}, live : BOOLEAN]
        BY DEF MoveInv, Tables, Shape, Attachments
      <4>3. QED BY <2>6, <4>1, <4>2
    <3>2. c \notin ActiveDrags(e, n)
      BY <1>2, <2>6 DEF ActiveDrags
    <3>3. IsFree(moves, n)
      BY <1>4, <1>10, <3>2
    <3>4. moves'.lock[n] = None
      <4>1. moves'.lock[n] \in {w.lock[n], None}
        BY <1>8, <2>1, LocksKept DEF Ends, OpsEnd, RowEnds, RowFollows
      <4>2. QED BY <1>7, <1>10, <4>1
    <3>5. TakesDrag(c, n)
      BY <1>6, <2>4, <2>6, <3>1, <3>3, <3>4 DEF TakesDrag
    <3>6. QED BY <1>3, <2>1, <2>3, <2>8, <3>5, DragTaken
  <2>7. QED BY <2>5, <2>6
<1>11. QED BY <1>1, <1>9, <1>10

\* A granted start writes a row of its own and takes the locks.
LEMMA StartedTables ==
  ASSUME NEW m, Tables(m), NEW o \in Ops, ~IsActive(m.op[o]),
         NEW p, DOMAIN p = RowFields, p.state = "active",
         Targets(p) # {}, Targets(p) \subseteq NoteIds,
         \A n \in Targets(p) : m.lock[n] = None,
         NEW conn, Attachments(conn)
  PROVE  Tables([op |-> [m.op EXCEPT ![o] = p],
                 lock |-> [n \in NoteIds |-> IF n \in Targets(p) THEN o ELSE m.lock[n]],
                 conn |-> conn])
<1> DEFINE w == [op |-> [m.op EXCEPT ![o] = p],
                 lock |-> [n \in NoteIds |-> IF n \in Targets(p) THEN o ELSE m.lock[n]],
                 conn |-> conn]
<1>1. /\ w.op[o] = p /\ \A q \in Ops \ {o} : w.op[q] = m.op[q]
      /\ \A n \in NoteIds : w.lock[n] = IF n \in Targets(p) THEN o ELSE m.lock[n]
      /\ w.conn = conn /\ DOMAIN w = {"op", "lock", "conn"}
      /\ DOMAIN w.op = Ops /\ DOMAIN w.lock = NoteIds
  BY DEF Tables, Shape, Rows
<1>2. Locks(w.lock)
  BY DEF Tables, Shape, Locks
<1> HIDE DEF w
<1>3. Rows(w.op)
  BY <1>1 DEF Tables, Shape, Rows, States
<1>4. ASSUME NEW q \in Ops
      PROVE  /\ IsActive(w.op[q]) => Targets(w.op[q]) # {} /\ Targets(w.op[q]) \subseteq NoteIds
             /\ \A n \in NoteIds : w.lock[n] = q <=> IsActive(w.op[q]) /\ n \in Targets(w.op[q])
  <2>1. CASE q = o
    <3>1. \A n \in NoteIds : m.lock[n] # o
      BY DEF Tables, Locked
    <3>2. IsActive(p)
      BY DEF IsActive
    <3>3. QED BY <1>1, <2>1, <3>1, <3>2
  <2>2. CASE q # o
    BY <1>1, <2>2 DEF Tables, Locked
  <2>3. QED BY <2>1, <2>2
<1>5. QED BY <1>1, <1>2, <1>3, <1>4 DEF Tables, Shape, Locked, w

\* An operation takes free notes in hand; nobody else gets any.
TakesNotes(o) ==
  /\ ~IsActive(moves.op[o])
  /\ \A q \in Ops \ {o} : RowEnds(moves.op[q], moves'.op[q])
  /\ \A c \in Conns : moves'.conn[c].open =>
                        /\ moves.conn[c].open
                        /\ moves'.conn[c].drag.live => moves'.conn[c].drag = moves.conn[c].drag
  /\ IsActive(moves'.op[o]) => \A n \in Targets(moves'.op[o]) : IsFree(moves, n)

LEMMA NotesTaken ==
  ASSUME MoveInv, Tables(moves'), NEW o \in Ops, TakesNotes(o)
  PROVE  Hands(moves')
<1> SUFFICES ASSUME NEW n \in NoteIds
             PROVE  /\ \A d1, d2 \in ActiveDrags(moves', n) : d1 = d2
                    /\ moves'.lock[n] # None => ActiveDrags(moves', n) = {}
  BY DEF Hands
<1>1. ActiveDrags(moves', n) \subseteq ActiveDrags(moves, n)
  <2> SUFFICES ASSUME NEW d \in Conns, moves'.conn[d].open,
                      moves'.conn[d].drag = [note |-> n, live |-> TRUE]
               PROVE  moves.conn[d].open /\ moves.conn[d].drag = [note |-> n, live |-> TRUE]
    BY DEF ActiveDrags
  <2>1. moves'.conn[d].drag.live
    OBVIOUS
  <2>2. QED BY <2>1 DEF TakesNotes
<1>2. ASSUME moves'.lock[n] # None PROVE ActiveDrags(moves, n) = {}
  <2> DEFINE q == moves'.lock[n]
  <2>1. q \in Ops
    BY <1>2 DEF Tables, Shape, Locks
  <2>2. IsActive(moves'.op[q]) /\ n \in Targets(moves'.op[q])
    BY <2>1 DEF Tables, Locked
  <2>3. CASE q = o
    BY <2>2, <2>3 DEF TakesNotes, IsFree
  <2>4. CASE q # o
    <3>1. IsActive(moves.op[q]) /\ n \in Targets(moves.op[q])
      BY <2>1, <2>2, <2>4 DEF TakesNotes, RowEnds, RowFollows, Targets
    <3>2. moves.lock[n] # None
      BY <2>1, <3>1 DEF MoveInv, Tables, Locked
    <3>3. QED BY <3>2 DEF MoveInv, Hands
  <2>5. QED BY <2>3, <2>4
<1>3. QED BY <1>1, <1>2 DEF MoveInv, Hands

LEMMA StartStep ==
  ASSUME MoveInv, NEW c \in Conns, NEW o \in Ops,
         NEW targets, IsNew(o) => targets \in Selections,
         NEW stale \in BOOLEAN, Start(c, o, targets, stale)
  PROVE  /\ MoveInv' /\ StepOK /\ UNCHANGED <<notes, room>>
         /\ KeepsHands(moves, moves') \/ TakesNotes(o)
         /\ Still
<1> DEFINE seen == [n \in targets |-> <<notes[n].pos, notes[n].vis + (IF stale THEN 1 ELSE 0)>>]
           before == [n \in targets |-> notes[n].at]
           e == Expire(moves)
           s == Sync(e, notes, room)
           p == [Unused EXCEPT !.state = "active", !.user = User[c], !.conn = Identity(c),
                               !.seen = seen, !.phase = room.phase, !.map = room.map,
                               !.before = before]
           w == [s EXCEPT
                   !.op[o] = p,
                   !.lock = [n \in NoteIds |-> IF n \in targets THEN o ELSE @[n]],
                   !.conn[c].attached = IF moves.conn[c].open THEN o ELSE @]
           conn == [s.conn EXCEPT ![c].attached = IF moves.conn[c].open THEN o ELSE @]
           op == [s.op EXCEPT ![o] = p]
           lock == [n \in NoteIds |-> IF n \in targets THEN o ELSE s.lock[n]]
<1>1. \/ SettleMoves(e, c)
      \/ SettleMoves(s, c)
      \/ /\ SettleMoves(w, c) /\ e.op[o].state = "none"
         /\ \A n \in targets : s.lock[n] = None
         /\ Valid(s, p)
  BY DEF Start
<1>2. /\ Tables(e) /\ Ends(moves, e) /\ e.conn = moves.conn
      /\ \A q \in Ops : IsActive(e.op[q]) => ~e.op[q].late /\ ~moves.op[q].late
      /\ \A n \in NoteIds : e.lock[n] = None /\ ActiveDrags(e, n) = {} => IsFree(moves, n)
  <2>1. ASSUME NEW q \in Ops, IsActive(e.op[q]) PROVE ~e.op[q].late /\ ~moves.op[q].late
    <3>1. ~moves.op[q].late
      BY <2>1, ExpireEnds DEF MoveInv
    <3>2. IsActive(moves.op[q])
      BY <2>1, ExpiredEnds DEF Ends, OpsEnd, RowEnds, RowFollows
    <3>3. e.op[q] = moves.op[q]
      BY <3>1, <3>2, ExpireKeeps DEF MoveInv
    <3>4. QED BY <3>1, <3>3
  <2>2. QED BY <2>1, ExpiredEnds, ExpireKeeps DEF MoveInv
<1>3. BoardStep /\ UNCHANGED <<notes, room>>
  BY BoardKept DEF Start, KeepBoard, Inside
<1> HIDE DEF e
<1>4. /\ Tables(s) /\ Ends(e, s)
      /\ \A n \in NoteIds : s.lock[n] = e.lock[n] /\ ActiveDrags(s, n) = ActiveDrags(e, n)
      /\ \A d \in Conns : /\ s.conn[d].open = moves.conn[d].open
                          /\ s.conn[d].drag = moves.conn[d].drag
  <2>1. Stand(e, notes, room)
    BY <1>2, StandKept DEF MoveInv
  <2>2. \A d \in Conns : s.conn[d].open = e.conn[d].open /\ s.conn[d].drag = e.conn[d].drag
    BY <1>2, SyncKeeps
  <2>3. \A n \in NoteIds : ActiveDrags(s, n) = ActiveDrags(e, n)
    BY <2>2 DEF ActiveDrags
  <2>4. QED BY <1>2, <2>1, <2>2, <2>3, SyncEnds, SyncSpares
<1>5. Ends(moves, s)
  BY <1>2, <1>4, EndsTrans DEF MoveInv, Tables
<1> HIDE DEF s
<1>6. CASE SettleMoves(e, c) \/ SettleMoves(s, c)
  <2>1. EndsOnly
    BY <1>2, <1>4, <1>5, <1>6, SettlingEnds
  <2>2. QED BY <1>3, <2>1, EndsOnlyStep, EndsOnlyStill
<1>7. CASE /\ SettleMoves(w, c) /\ e.op[o].state = "none"
           /\ \A n \in targets : s.lock[n] = None
           /\ Valid(s, p)
  <2>1. /\ s.op[o].state = "none" /\ moves.op[o].state = "none"
    BY <1>2, <1>4, <1>7 DEF Ends, OpsEnd, RowEnds, RowFollows
  <2>2. targets # {} /\ targets \subseteq NoteIds
    BY <2>1, SelectionsAssumption DEF IsNew
  <2>3. /\ DOMAIN p = RowFields /\ p.state = "active" /\ p.of = None /\ p.seen = seen
        /\ p.phase = room.phase /\ p.map = room.map /\ p.before = before
    BY DEF Unused, RowFields
  <2> HIDE DEF p
  <2>4. Targets(p) = targets
    BY <2>3 DEF Targets
  <2>17. \A n \in targets : IsFree(moves, n)
    BY <1>2, <1>4, <1>7, <2>2, <2>4 DEF Valid
  <2>5. Attachments(conn)
    BY <1>4 DEF Tables, Shape, Attachments
  <2>6. w = [op |-> op, lock |-> lock, conn |-> conn]
    <3>1. DOMAIN s = {"op", "lock", "conn"}
      BY <1>4 DEF Tables, Shape
    <3>2. w = [s EXCEPT !.op = op, !.lock = lock, !.conn = conn]
      BY <3>1
    <3> HIDE DEF w, op, lock, conn
    <3>3. QED BY <3>1, <3>2
  <2> HIDE DEF conn, w
  <2>7. Tables(w)
    <3>1. ~IsActive(s.op[o])
      BY <2>1 DEF IsActive
    <3>2. Tables([op |-> op, lock |-> [n \in NoteIds |-> IF n \in Targets(p) THEN o
                                                          ELSE s.lock[n]], conn |-> conn])
      BY <1>4, <1>7, <2>2, <2>3, <2>4, <2>5, <3>1, StartedTables
    <3>3. QED BY <2>4, <2>6, <3>2
  <2>8. Tables(moves') /\ Ends(w, moves') /\ Stand(moves', notes', room')
    BY <1>7, <2>7, SettleEnds
  <2>9. w.op[o] = p /\ \A q \in Ops \ {o} : w.op[q] = s.op[q]
    BY <1>4, <2>6 DEF Tables, Shape, Rows
  <2>10. ASSUME NEW q \in Ops \ {o} PROVE RowEnds(moves.op[q], moves'.op[q])
    <3>1. RowEnds(moves.op[q], s.op[q]) /\ RowEnds(s.op[q], moves'.op[q])
      BY <1>5, <2>8, <2>9 DEF Ends, OpsEnd
    <3>2. s.op[q].state \in States /\ moves.op[q].state \in States /\ moves'.op[q].state \in States
      BY <1>4, <2>8 DEF Tables, Shape, Rows, MoveInv
    <3>3. QED BY <3>1, <3>2 DEF RowEnds, RowFollows, IsActive, IsFinished, States
  <2>11. RowEnds(p, moves'.op[o])
    BY <2>8, <2>9 DEF Ends, OpsEnd
  <2>12. /\ seen \in [targets -> Nat \X Nat] /\ PlacesIn(before, NoteIds) /\ DOMAIN before = targets
         /\ \A n \in targets : seen[n][1] = notes[n].pos /\ before[n] = notes[n].at
    BY <2>2 DEF MoveInv, NoteTable, PlacesIn
  <2>13. RowOK(moves'.op[o])
    BY <2>2, <2>3, <2>4, <2>11, <2>12 DEF RowOK, RowEnds, RowFollows, IsActive, Targets
  <2>14. Current(moves'.op[o], notes', room')
    <3>1. \A n \in targets : notes[n].pos >= notes[n].pos
      BY <2>2 DEF MoveInv, NoteTable
    <3>2. QED BY <1>3, <2>3, <2>4, <2>11, <2>12, <3>1 DEF Current, RowEnds, RowFollows, IsActive, Targets
  <2>15. StepFor(o)
    BY <2>1, <2>3, <2>11 DEF StepFor, RowEnds, RowFollows, IsFinished, Becomes
  <2>18. TakesNotes(o)
    <3>1. \A d \in Conns : /\ w.conn[d].open = moves.conn[d].open
                           /\ w.conn[d].drag = moves.conn[d].drag
      BY <1>4, <2>6 DEF conn, Tables, Shape, Attachments
    <3>2. \A d \in Conns : /\ moves'.conn[d].open = moves.conn[d].open
                           /\ moves'.conn[d].drag = moves.conn[d].drag
      BY <1>7, <2>7, <3>1, SettleKeeps
    <3>3. IsActive(moves'.op[o]) => Targets(moves'.op[o]) = targets
      BY <2>4, <2>11 DEF RowEnds, RowFollows, Targets
    <3>4. QED BY <2>1, <2>10, <2>17, <3>2, <3>3 DEF TakesNotes, IsActive
  <2>19. Hands(moves')
    BY <2>8, <2>18, NotesTaken
  <2>20. \A q \in Ops \ {o} : RowFollows(moves.op[q], moves'.op[q])
    BY <2>10 DEF RowEnds
  <2>21. Still
    <3>1. SocketsOnward
      <4>1. \A d \in Conns : w.conn[d].open = s.conn[d].open /\ w.conn[d].waiting = s.conn[d].waiting
        BY <1>4, <2>6 DEF conn, Tables, Shape, Attachments
      <4>2. \A d \in Conns : ConnEnds(moves.conn[d], s.conn[d]) /\ ConnEnds(w.conn[d], moves'.conn[d])
        BY <1>5, <2>8 DEF Ends
      <4>3. QED BY <4>1, <4>2 DEF ConnEnds, SocketsOnward
    <3>2. moves'.op[o].state # "accepted"
      BY <2>3, <2>11 DEF RowEnds, RowFollows
    <3>3. QED BY <2>10, <3>1, <3>2 DEF Still
  <2>16. QED BY <1>3, <2>8, <2>13, <2>14, <2>15, <2>18, <2>19, <2>20, <2>21, OwnStep
<1>8. QED BY <1>1, <1>6, <1>7

-----------------------------------------------------------------------------
(* Putting notes down. *)

LEMMA Least ==
  ASSUME NEW S, S \subseteq Nat, S # {}
  PROVE  \E x \in S : \A y \in S : x <= y
<1> DEFINE Less == OpToRel(<, Nat)
<1>1. IsWellFoundedOn(Less, Nat)
  BY NatLessThanWellFounded
<1>2. PICK x \in S : \A y \in S : ~(<<y, x>> \in Less)
  BY <1>1, WFMin
<1>3. ASSUME NEW y \in S PROVE x <= y
  <2>1. <<y, x>> \notin OpToRel(<, Nat) /\ x \in Nat /\ y \in Nat
    BY <1>2
  <2>2. <<y, x>> \in Nat \X Nat
    BY <2>1
  <2>3. QED BY <2>1, <2>2 DEF OpToRel
<1>4. QED BY <1>3

\* The notes of a move stay on the board together.
LEMMA ClampedStays ==
  ASSUME notes \in NoteTable, NEW ns, ns # {}, ns \subseteq NoteIds, NEW delta \in Int
  PROVE  /\ Clamped(notes, ns, delta) \in Int
         /\ \A n \in ns : notes[n].at + Clamped(notes, ns, delta) \in Places
<1> DEFINE S == {notes[n].at : n \in ns}
           T == {MaxPlace - notes[n].at : n \in ns}
           IsLow(a) == (\E n \in ns : notes[n].at = a) /\ \A n \in ns : notes[n].at >= a
           IsHigh(a) == (\E n \in ns : notes[n].at = a) /\ \A n \in ns : notes[n].at <= a
           low == CHOOSE a \in Places : IsLow(a)
           high == CHOOSE a \in Places : IsHigh(a)
<1>1. MaxPlace \in Nat
  BY BoundsAssumption
<1>2. \A n \in ns : notes[n].at \in Places
  BY DEF NoteTable
<1>3. S \subseteq Nat /\ S # {} /\ T \subseteq Nat /\ T # {}
  BY <1>1, <1>2 DEF Places
<1>4. low \in Places /\ IsLow(low)
  <2>1. PICK x \in S : \A y \in S : x <= y
    BY <1>3, Least
  <2>2. x \in Places /\ IsLow(x)
    BY <1>2, <2>1 DEF Places
  <2>3. QED BY <2>2
<1>5. high \in Places /\ IsHigh(high)
  <2>1. PICK x \in T : \A y \in T : x <= y
    BY <1>3, Least
  <2>2. PICK n \in ns : x = MaxPlace - notes[n].at
    BY <2>1
  <2>3. ASSUME NEW k \in ns PROVE notes[k].at <= notes[n].at
    <3>1. MaxPlace - notes[n].at <= MaxPlace - notes[k].at
      BY <2>1, <2>2
    <3>2. notes[n].at \in Nat /\ notes[k].at \in Nat
      BY <1>1, <1>2 DEF Places
    <3>3. QED BY <1>1, <3>1, <3>2
  <2>4. notes[n].at \in Places /\ IsHigh(notes[n].at)
    BY <1>2, <2>3
  <2>5. QED BY <2>4
<1>6. Clamped(notes, ns, delta) = IF low + delta < 0 THEN 0 - low
                                  ELSE IF high + delta > MaxPlace THEN MaxPlace - high ELSE delta
  BY DEF Clamped
<1> HIDE DEF low, high
<1>7. QED BY <1>1, <1>2, <1>4, <1>5, <1>6 DEF Places

\* A history that goes on keeps watching the same notes.
Followed(p, q) ==
  \/ q = p
  \/ /\ p.state = "accepted"
     /\ \E x : q = [p EXCEPT !.expected = x] /\ DOMAIN x.targets = DOMAIN p.expected.targets

LEMMA AdvancedFollows ==
  ASSUME NEW op, NEW c, NEW before, NEW after, NEW gbefore, NEW gafter, NEW gs, NEW o \in Ops
  PROVE  Followed(op[o], Advanced(op, c, before, after, gbefore, gafter, gs)[o])
<1> DEFINE x == op[o].expected
           f == [targets |-> [n \in DOMAIN x.targets |->
                          IF n \in DOMAIN before /\ x.targets[n] = before[n]
                          THEN after[n] ELSE x.targets[n]],
                   groups  |->
              IF \E i \in DOMAIN x.groups : gbefore[i] # x.groups[i] THEN x.groups
              ELSE [i \in DOMAIN x.groups \cup
                          {g.id : g \in {h \in ToSet(gs) : /\ gbefore[h.id] # gafter[h.id]
                                                           /\ Touches(h, DOMAIN x.targets)}}
                      |-> gafter[i]]]
           q == Advanced(op, c, before, after, gbefore, gafter, gs)[o]
<1>1. q = op[o] \/ (op[o].state = "accepted" /\ q = [op[o] EXCEPT !.expected = f])
  BY DEF Advanced
<1>2. DOMAIN f.targets = DOMAIN x.targets
  OBVIOUS
<1> HIDE DEF f, q
<1>3. Followed(op[o], q)
  BY <1>1, <1>2 DEF Followed
<1>4. QED BY <1>3 DEF q

LEMMA AdvancedCarries ==
  ASSUME NEW op, NEW c, NEW D, NEW after, DOMAIN after = D,
         \A n \in D : after[n] = Version(notes', n), NEW q \in Ops, "expected" \in DOMAIN op[q]
  PROVE  CarriedBy(op[q], Advanced(op, c, [n \in D |-> Version(notes, n)], after,
                                   gver, gver', groups')[q], c)
<1> DEFINE e == op[q].expected
           before == [n \in D |-> Version(notes, n)]
           f == [targets |-> [n \in DOMAIN e.targets |->
                          IF n \in DOMAIN before /\ e.targets[n] = before[n]
                          THEN after[n] ELSE e.targets[n]],
                 groups  |->
              IF \E i \in DOMAIN e.groups : gver[i] # e.groups[i] THEN e.groups
              ELSE [i \in DOMAIN e.groups \cup
                          {g.id : g \in {h \in ToSet(groups') : /\ gver[h.id] # gver'[h.id]
                                                           /\ Touches(h, DOMAIN e.targets)}}
                      |-> gver'[i]]]
           a == Advanced(op, c, before, after, gver, gver', groups')[q]
<1>1. \/ a = op[q]
      \/ op[q].conn = Identity(c) /\ a = [op[q] EXCEPT !.expected = f]
  BY DEF Advanced
<1>2. f = Carried(e, D)
  <2>1. [n \in DOMAIN e.targets |-> IF n \in DOMAIN before /\ e.targets[n] = before[n]
                                    THEN after[n] ELSE e.targets[n]]
          = [n \in DOMAIN e.targets |->
                  IF n \in D /\ e.targets[n] = Version(notes, n) THEN Version(notes', n)
                  ELSE e.targets[n]]
    OBVIOUS
  <2>2. QED BY <2>1 DEF Carried
<1> HIDE DEF f, a, e
<1>3. CASE a = op[q]
  BY <1>3 DEF CarriedBy, a, before
<1>4. CASE op[q].conn = Identity(c) /\ a = [op[q] EXCEPT !.expected = f]
  <2>1. a.expected = Carried(op[q].expected, D)
    BY <1>2, <1>4 DEF e
  <2>2. QED BY <1>4, <2>1 DEF CarriedBy, a, before
<1>5. QED BY <1>1, <1>3, <1>4

LEMMA FollowedEnds ==
  ASSUME NEW m, Tables(m), NEW op, DOMAIN op = Ops, \A o \in Ops : Followed(m.op[o], op[o])
  PROVE  /\ Rows(op)
         /\ \A o \in Ops : /\ RowFollows(m.op[o], op[o])
                           /\ m.op[o].state # "accepted" => op[o] = m.op[o]
                           /\ op[o].state = m.op[o].state /\ op[o].seen = m.op[o].seen
<1>1. ASSUME NEW o \in Ops
      PROVE  /\ RowFollows(m.op[o], op[o]) /\ DOMAIN op[o] = RowFields
             /\ m.op[o].state # "accepted" => op[o] = m.op[o]
             /\ op[o].state = m.op[o].state /\ op[o].seen = m.op[o].seen
  <2>1. DOMAIN m.op[o] = RowFields
    BY DEF Tables, Shape, Rows
  <2>2. CASE op[o] = m.op[o]
    BY <2>1, <2>2 DEF RowEnds, RowFollows
  <2>3. CASE /\ m.op[o].state = "accepted"
             /\ \E x : /\ op[o] = [m.op[o] EXCEPT !.expected = x]
                       /\ DOMAIN x.targets = DOMAIN m.op[o].expected.targets
    <3>1. PICK x : /\ op[o] = [m.op[o] EXCEPT !.expected = x]
                   /\ DOMAIN x.targets = DOMAIN m.op[o].expected.targets
      BY <2>3
    <3>2. DOMAIN op[o] = RowFields /\ op[o].state = "accepted" /\ op[o].of = m.op[o].of
          /\ op[o].receipt = m.op[o].receipt /\ op[o].expected = x /\ op[o].seen = m.op[o].seen
      BY <2>1, <2>3, <3>1 DEF RowFields
    <3>3. QED BY <2>3, <3>1, <3>2 DEF RowEnds, RowFollows, IsActive, IsFinished, Targets
  <2>4. QED BY <2>2, <2>3 DEF Followed
<1>2. QED BY <1>1 DEF Tables, Shape, Rows

\* Rows that keep their states and their notes keep the locks in order.
LEMMA RowsKept ==
  ASSUME NEW m, Tables(m), NEW op, Rows(op),
         \A o \in Ops : op[o].state = m.op[o].state /\ op[o].seen = m.op[o].seen
  PROVE  LET w == [m EXCEPT !.op = op]
         IN Tables(w) /\ w.op = op /\ w.conn = m.conn
<1> DEFINE w == [m EXCEPT !.op = op]
<1>1. w.op = op /\ w.lock = m.lock /\ w.conn = m.conn /\ DOMAIN w = DOMAIN m
  BY DEF Tables, Shape
<1> HIDE DEF w
<1>2. Locked(w)
  BY <1>1 DEF Tables, Locked, IsActive, Targets
<1>3. QED BY <1>1, <1>2 DEF Tables, Shape, w

\* What an accepted move leaves behind can be put back.
LEMMA ReceiptRestores ==
  ASSUME NEW ts, ts \subseteq NoteIds, NEW ns \in NoteTable, NEW gsBefore, NEW gsAfter,
         NEW before, DOMAIN before = ts, PlacesIn(before, NoteIds),
         NEW changed, NEW gv, NEW gs, NEW known
  PROVE  LET r == Receipt(ts, {}, ns, gsBefore, gsAfter, before, changed)
         IN ReceiptOK([receipt |-> [r EXCEPT !.known = known],
                       expected |-> ExpectedFrom(r, gv, gs)])
<1> DEFINE r == Receipt(ts, {}, ns, gsBefore, gsAfter, before, changed)
           k == [r EXCEPT !.known = known]
           x == ExpectedFrom(r, gv, gs)
<1>1. /\ DOMAIN r = {"changed", "before", "after", "groupsBefore", "groupsAfter", "affected",
                     "known"}
      /\ r.before = before /\ r.after = [n \in ts |-> ns[n].at]
      /\ ts \subseteq DOMAIN r.affected
  BY DEF Receipt
<1>2. x.targets = r.affected
  BY DEF ExpectedFrom
<1> HIDE DEF r
<1>3. k.before = before /\ k.after = [n \in ts |-> ns[n].at]
  BY <1>1
<1> HIDE DEF k, x
<1>4. PlacesIn(k.before, DOMAIN x.targets)
  BY <1>1, <1>2, <1>3 DEF PlacesIn
<1>5. PlacesIn(k.after, DOMAIN x.targets)
  BY <1>1, <1>2, <1>3 DEF PlacesIn, NoteTable
<1>6. QED BY <1>4, <1>5 DEF ReceiptOK, k, x, r

\* A mover whose lease runs puts its notes down at the same distance.
PutsDown(o) ==
  /\ IsActive(moves.op[o]) /\ ~moves.op[o].late
  /\ moves'.op[o].state = "accepted" /\ moves'.op[o].of = None
  /\ \A n \in Targets(moves.op[o]) : notes[n].shared
  /\ \A n \in NoteIds : notes'[n].shared = notes[n].shared
  /\ \E d \in Int : \A n \in NoteIds :
       notes'[n].at = IF n \in Targets(moves.op[o]) THEN notes[n].at + d ELSE notes[n].at

\* Only notes nobody has in hand come to lie elsewhere.
MovesFree ==
  \A n \in NoteIds : /\ notes'[n].shared = notes[n].shared
                     /\ notes'[n].at # notes[n].at => IsFree(moves, n)

LEMMA CommitAccepts ==
  ASSUME MoveInv, NEW c \in Conns, NEW o \in Ops, NEW delta \in Int,
         Mine(Expire(moves), c, o), Stands(Expire(moves), o),
         CommitEffect(c, o, delta, Expire(moves)), UNCHANGED checkpoints
  PROVE  MoveInv' /\ StepOK /\ KeepsHands(moves, moves') /\ PutsDown(o) /\ Changes(c, o)
<1> DEFINE e == Expire(moves)
           p == e.op[o]
           ts == Targets(p)
           d == Clamped(notes, ts, delta)
           r == Receipt(ts, {}, notes', ToSet(groups) \ ToSet(groups'),
                        ToSet(groups') \ ToSet(groups), p.before, d # 0)
           advanced == Advanced(e.op, c, [n \in DOMAIN r.affected |-> Version(notes, n)],
                                r.affected, gver, gver', groups')
           followed == IF d = 0 THEN e.op ELSE advanced
           x == ExpectedFrom(r, gver', groups')
           k == [r EXCEPT !.known = DOMAIN x.groups]
           op == [followed EXCEPT ![o].receipt = k, ![o].expected = x]
           w == [e EXCEPT !.op = op]
           f == Finish(w, o, "accepted")
           at == [n \in ts |-> notes[n].at + d]
<1>1. /\ notes' = Placed(notes, at) /\ UNCHANGED room /\ SettleMoves(f, c)
  BY Zenon DEF CommitEffect
<1>2. Tables(e) /\ Ends(moves, e) /\ e.conn = moves.conn
  BY ExpiredEnds, ExpireKeeps DEF MoveInv
<1>3. /\ IsActive(p) /\ Matches(p, notes, room)
      /\ p.conn = Identity(c) /\ p.phase = room.phase
  BY DEF Mine, Stands, Valid, Matches
<1>4. /\ IsActive(moves.op[o]) /\ p.seen = moves.op[o].seen /\ p.before = moves.op[o].before
      /\ p.of = None /\ ~moves.op[o].late
  <2>1. RowEnds(moves.op[o], p)
    BY <1>2 DEF Ends, OpsEnd
  <2>2. ~moves.op[o].late
    BY <1>3, ExpireEnds DEF MoveInv
  <2>3. QED BY <1>3, <2>1, <2>2 DEF RowEnds, RowFollows, MoveInv, RowOK
<1> HIDE DEF e
<1>5. ts = Targets(moves.op[o]) /\ ts # {} /\ ts \subseteq NoteIds
  BY <1>2, <1>3, <1>4 DEF Tables, Locked, Targets
<1>6. DOMAIN p.before = ts /\ PlacesIn(p.before, NoteIds)
  BY <1>4, <1>5 DEF MoveInv, RowOK, Targets
<1>7. \A n \in ts : Version(notes, n) = p.seen[n] /\ notes[n].at = p.before[n]
  <2>1. ASSUME NEW n \in ts PROVE Version(notes, n) = p.seen[n] /\ notes[n].at = p.before[n]
    <3>1. Version(notes, n) = p.seen[n]
      BY <1>3 DEF Matches
    <3>2. notes[n].pos = p.seen[n][1]
      BY <3>1 DEF Version
    <3>3. QED BY <1>4, <1>5, <3>1, <3>2 DEF MoveInv, Current
  <2>2. QED BY <2>1
<1> HIDE DEF p, ts
<1>8. d \in Int /\ \A n \in ts : notes[n].at + d \in Places
  BY <1>5, ClampedStays DEF MoveInv
<1> HIDE DEF d
<1>9. /\ notes' \in NoteTable /\ BoardOnward(notes, notes')
      /\ \A n \in NoteIds : /\ n \in ts => notes'[n].at = notes[n].at + d
                            /\ n \notin ts => notes'[n] = notes[n]
                            /\ notes'[n].shared = notes[n].shared
  <2>1. DOMAIN at = ts /\ \A n \in ts : at[n] = notes[n].at + d
    BY SMTT(60)
  <2> HIDE DEF at
  <2>2. notes \in NoteTable /\ \A n \in DOMAIN at \cap NoteIds : at[n] \in Places
    BY <1>5, <1>8, <2>1, SMTT(60) DEF MoveInv
  <2>3. /\ Placed(notes, at) \in NoteTable /\ BoardOnward(notes, Placed(notes, at))
        /\ \A n \in NoteIds :
             /\ Placed(notes, at)[n].at = IF n \in DOMAIN at THEN at[n] ELSE notes[n].at
             /\ n \notin DOMAIN at => Placed(notes, at)[n] = notes[n]
             /\ Placed(notes, at)[n].shared = notes[n].shared
    BY <2>2, PlacedOK, SMTT(60)
  <2>4. QED BY <1>1, <1>5, <2>1, <2>3
<1>10. BoardStep
  BY Zenon, <1>1, <1>9 DEF BoardStep, MoveInv, RoomOK, CheckpointsOK
<1>11. ReceiptOK([receipt |-> k, expected |-> x])
  BY <1>5, <1>6, <1>9, ReceiptRestores
<1> HIDE DEF k, x, r
<1>12. /\ Rows(followed) /\ followed[o] = p
       /\ \A q \in Ops : /\ RowFollows(e.op[q], followed[q])
                         /\ followed[q].state = e.op[q].state /\ followed[q].seen = e.op[q].seen
  <2>1. p.state # "accepted"
    BY <1>3 DEF IsActive
  <2>2. CASE d = 0
    BY <1>2, <2>2 DEF p, RowEnds, RowFollows, Tables, Shape
  <2>3. CASE d # 0
    <3>1. DOMAIN advanced = Ops /\ \A q \in Ops : Followed(e.op[q], advanced[q])
      <4> DEFINE before == [n \in DOMAIN r.affected |-> Version(notes, n)]
                 after == r.affected
      <4>1. DOMAIN advanced = Ops
        BY DEF Advanced
      <4> HIDE DEF before, after
      <4>2. ASSUME NEW q \in Ops PROVE Followed(e.op[q], advanced[q])
        <5>1. Followed(e.op[q], Advanced(e.op, c, before, after, gver, gver', groups')[q])
          BY AdvancedFollows
        <5>2. QED BY <5>1 DEF before, after
      <4>3. QED BY <4>1, <4>2
    <3> HIDE DEF advanced
    <3>2. /\ Rows(advanced)
          /\ \A q \in Ops : /\ RowFollows(e.op[q], advanced[q])
                            /\ e.op[q].state # "accepted" => advanced[q] = e.op[q]
                            /\ advanced[q].state = e.op[q].state
                            /\ advanced[q].seen = e.op[q].seen
      BY <1>2, <3>1, FollowedEnds
    <3>3. followed = advanced
      BY <2>3
    <3>4. QED BY <2>1, <3>2, <3>3 DEF p
  <2>4. QED BY <2>2, <2>3
<1> HIDE DEF followed
<1>13. /\ Rows(op) /\ \A q \in Ops \ {o} : op[q] = followed[q]
       /\ op[o].state = p.state /\ op[o].seen = p.seen /\ op[o].of = p.of
       /\ op[o].conn = p.conn /\ op[o].phase = p.phase
       /\ op[o].receipt = k /\ op[o].expected = x
  <2>1. DOMAIN followed = Ops /\ DOMAIN p = RowFields
    BY <1>12 DEF Rows
  <2>2. op = [followed EXCEPT ![o] = [p EXCEPT !.receipt = k, !.expected = x]]
    BY <1>12, <2>1
  <2> DEFINE row == [p EXCEPT !.receipt = k, !.expected = x]
  <2>3. DOMAIN row = RowFields /\ row.state = p.state /\ row.seen = p.seen /\ row.of = p.of
        /\ row.receipt = k /\ row.expected = x /\ row.conn = p.conn /\ row.phase = p.phase
    BY <2>1 DEF RowFields
  <2> HIDE DEF row, op
  <2>4. op[o] = row /\ (\A q \in Ops \ {o} : op[q] = followed[q]) /\ DOMAIN op = Ops
    BY <2>1, <2>2 DEF row
  <2>5. Rows(op)
    BY <1>12, <2>3, <2>4 DEF Rows
  <2>6. QED BY <2>3, <2>4, <2>5
<1> HIDE DEF op
<1>14. Tables(w) /\ w.op = op /\ w.conn = moves.conn
  <2>1. \A q \in Ops : op[q].state = e.op[q].state /\ op[q].seen = e.op[q].seen
    BY <1>12, <1>13 DEF p
  <2>2. QED BY <1>2, <1>13, <2>1, RowsKept
<1> HIDE DEF w
<1>15. /\ Tables(f) /\ f.op[o].state = "accepted" /\ SameOtherwise(op[o], f.op[o])
       /\ f.conn = moves.conn
       /\ \A q \in Ops \ {o} : f.op[q] = followed[q]
  <2>1. IsActive(w.op[o]) /\ "accepted" \in Ended \cup {"accepted"}
    BY <1>3, <1>13, <1>14 DEF IsActive
  <2>2. /\ Tables(f) /\ f.conn = w.conn
        /\ \A q \in Ops : IF q \in {o} THEN f.op[q].state = "accepted" /\ SameOtherwise(w.op[q], f.op[q])
                          ELSE f.op[q] = w.op[q]
    BY <1>14, <2>1, FinishAllTables DEF Finish
  <2>3. QED BY <1>13, <1>14, <2>2
<1> HIDE DEF f
<1>16. Tables(moves') /\ Ends(f, moves') /\ Stand(moves', notes', room')
  BY <1>1, <1>15, SettleEnds
<1>17. ASSUME NEW q \in Ops \ {o} PROVE RowFollows(moves.op[q], moves'.op[q])
  <2>1. /\ RowEnds(moves.op[q], e.op[q]) /\ RowFollows(e.op[q], followed[q])
        /\ RowEnds(followed[q], moves'.op[q])
    BY <1>2, <1>12, <1>15, <1>16 DEF Ends, OpsEnd
  <2>2. e.op[q].state \in States /\ moves.op[q].state \in States /\ moves'.op[q].state \in States
        /\ followed[q].state \in States
    BY <1>2, <1>12, <1>16 DEF Tables, Shape, Rows, MoveInv
  <2>3. RowFollows(moves.op[q], followed[q])
    BY <2>1, <2>2 DEF RowEnds, RowFollows, IsActive, IsFinished, States
  <2>4. QED BY <2>1, <2>2, <2>3 DEF RowEnds, RowFollows, IsActive, IsFinished, States
<1>18. RowEnds(f.op[o], moves'.op[o])
  BY <1>16 DEF Ends, OpsEnd
<1>19. RowOK(moves'.op[o]) /\ Current(moves'.op[o], notes', room')
  <2>1. Targets(f.op[o]) = ts
    BY <1>13, <1>15 DEF Targets, SameOtherwise, ts
  <2>2. QED BY <1>5, <1>11, <1>13, <1>15, <1>18, <2>1
    DEF RowOK, Current, RowEnds, RowFollows, IsActive, IsFinished, ReceiptOK, SameOtherwise
<1>20. StepFor(o)
  <2>1. room'.map = moves.op[o].map
    BY <1>1, <1>4 DEF MoveInv, Current
  <2>2. FromSeen(o)
    <3>1. \A n \in Targets(moves.op[o]) : /\ Version(notes, n) = moves.op[o].seen[n]
                                          /\ notes[n].at = moves.op[o].before[n]
      BY <1>4, <1>5, <1>7
    <3>2. ASSUME NEW n \in ts PROVE notes'[n].at - moves.op[o].before[n] = d
      <4>1. notes[n].at \in Nat
        BY <1>5, BoundsAssumption DEF MoveInv, NoteTable, Places
      <4>2. notes'[n].at = notes[n].at + d /\ moves.op[o].before[n] = notes[n].at
        BY <1>4, <1>5, <1>7, <1>9
      <4>3. QED BY <1>8, <4>1, <4>2
    <3>3. \A n \in NoteIds \ ts : notes'[n] = notes[n]
      BY <1>9
    <3>4. QED BY <1>5, <3>1, <3>2, <3>3 DEF FromSeen
  <2>3. ~IsFinished(moves.op[o])
    BY <1>4 DEF IsActive, IsFinished
  <2>4. QED BY <2>1, <2>2, <2>3 DEF StepFor
<1>21. /\ moves'.op[o].state = "accepted" /\ moves'.op[o].of = None
       /\ KeepsHands(moves, moves')
  <2>1. moves'.op[o].state = "accepted"
    BY <1>1, <1>15, SettleKeeps DEF IsActive
  <2>2. moves'.op[o].of = None
    BY <1>4, <1>13, <1>15, <1>18, <2>1 DEF RowEnds, RowFollows, SameOtherwise
  <2>3. \A q \in Conns : /\ moves'.conn[q].open = moves.conn[q].open
                         /\ moves'.conn[q].drag = moves.conn[q].drag
    BY <1>1, <1>15, SettleKeeps
  <2>4. \A q \in Ops : IsActive(moves'.op[q]) =>
                         IsActive(moves.op[q]) /\ moves'.op[q].seen = moves.op[q].seen
    BY <1>17, <2>1 DEF RowEnds, RowFollows, IsActive
  <2>5. QED BY <2>1, <2>2, <2>3, <2>4 DEF KeepsHands
<1>22. Hands(moves')
  BY <1>16, <1>21, HandsKept DEF MoveInv
<1>23. PutsDown(o)
  <2>1. \A n \in ts : notes[n].shared
    BY <1>3 DEF Matches, ts
  <2>2. \A n \in NoteIds : notes'[n].at = IF n \in ts THEN notes[n].at + d ELSE notes[n].at
    BY <1>9
  <2>3. QED BY <1>4, <1>5, <1>8, <1>9, <1>21, <2>1, <2>2 DEF PutsDown
<1>24. MoveInv' /\ StepOK
  BY <1>10, <1>16, <1>17, <1>19, <1>20, <1>22, OwnStep, SMTT(60)
<1>26. Changes(c, o)
  <2>1. /\ SocketsOnward
        /\ moves.conn[c].open \/ (~moves'.conn[c].open /\ ~moves'.conn[c].waiting)
    BY <1>1, <1>15, SettledSockets
  <2>2. \A q \in Ops : moves'.op[q].state = "accepted" => moves'.op[q] = f.op[q]
    BY <1>1, <1>15, SettleKeeps
  <2>3. ASSUME NEW q \in Ops \ {o}, moves'.op[q].state = "accepted"
        PROVE  CarriedBy(moves.op[q], moves'.op[q], c)
    <3>1. moves'.op[q] = followed[q]
      BY <1>15, <2>2, <2>3
    <3>2. e.op[q].state = "accepted" /\ RowEnds(moves.op[q], e.op[q])
      BY <1>2, <1>12, <2>3, <3>1 DEF Ends, OpsEnd
    <3>3. e.op[q].conn = moves.op[q].conn /\ e.op[q].expected = moves.op[q].expected
      BY <3>2 DEF RowEnds, RowFollows
    <3>4. CarriedBy(e.op[q], followed[q], c)
      <4>1. CASE d = 0
        BY <4>1 DEF followed, CarriedBy
      <4>2. CASE d # 0
        <5>1. followed = Advanced(e.op, c, [n \in DOMAIN r.affected |-> Version(notes, n)],
                                  r.affected, gver, gver', groups')
          BY <4>2 DEF followed
        <5>2. \A n \in DOMAIN r.affected : r.affected[n] = Version(notes', n)
          BY DEF r, Receipt
        <5>3. "expected" \in DOMAIN e.op[q]
          BY <1>2 DEF Tables, Shape, Rows, RowFields
        <5>4. QED BY <5>1, <5>2, <5>3, AdvancedCarries
      <4>3. QED BY <4>1, <4>2
    <3>5. QED BY <3>1, <3>3, <3>4 DEF CarriedBy
  <2>4. moves'.op[o].conn = Identity(c) /\ moves'.op[o].phase = room.phase
    BY <1>3, <1>13, <1>15, <1>21, <2>2 DEF SameOtherwise
  <2>5. Committed(o)
    <3>1. moves'.op[o].receipt = k /\ moves'.op[o].expected = x
      BY <1>13, <1>15, <1>21, <2>2 DEF SameOtherwise
    <3>2. r = Receipt(Targets(moves.op[o]), {}, notes', ToSet(groups) \ ToSet(groups'),
                      ToSet(groups') \ ToSet(groups), moves.op[o].before, d # 0)
      BY <1>4, <1>5 DEF r
    <3>3. /\ Targets(moves.op[o]) \subseteq NoteIds
          /\ DOMAIN moves.op[o].before = Targets(moves.op[o])
          /\ \A n \in Targets(moves.op[o]) : notes[n].at = moves.op[o].before[n]
      BY <1>4, <1>5, <1>6, <1>7
    <3>4. (d # 0) \in BOOLEAN
      OBVIOUS
    <3>5. QED BY <1>21, <3>1, <3>2, <3>3, <3>4 DEF Committed, k, x
  <2>6. moves.op[o].state # "accepted" /\ gver' = Counted(groups, groups')
    BY Zenon, <1>4 DEF IsActive, CommitEffect
  <2>7. QED BY <1>1, <1>17, <1>21, <2>1, <2>3, <2>4, <2>5, <2>6 DEF Changes
<1>25. QED BY <1>21, <1>23, <1>24, <1>26

LEMMA CommitStep ==
  ASSUME MoveInv, NEW c \in Conns, NEW o \in Ops, NEW delta \in {-1, 0, 1}, Commit(c, o, delta)
  PROVE  /\ MoveInv' /\ StepOK /\ KeepsHands(moves, moves') /\ UNCHANGED room
         /\ UNCHANGED notes \/ PutsDown(o)
         /\ Still \/ Changes(c, o)
<1> DEFINE e == Expire(moves)
           m == IF Mine(e, c, o) THEN Finish(e, o, "rejected") ELSE e
<1>1. CASE Mine(e, c, o) /\ Stands(e, o)
  <2>1. CommitEffect(c, o, delta, e) /\ UNCHANGED checkpoints /\ delta \in Int
    BY <1>1 DEF Commit, Inside
  <2>2. UNCHANGED room
    BY Zenon, <2>1 DEF CommitEffect
  <2>3. QED BY <1>1, <2>1, <2>2, CommitAccepts
<1>2. CASE ~(Mine(e, c, o) /\ Stands(e, o))
  <2>1. SettleMoves(m, c) /\ BoardStep /\ UNCHANGED <<notes, room>>
    BY <1>2, BoardKept DEF Commit, KeepBoard, Inside
  <2>2. Tables(m) /\ Ends(moves, m)
    BY ExpiredEnds, ExpiredFinishEnds DEF Mine, Ended
  <2> HIDE DEF m
  <2>3. EndsOnly
    BY <2>1, <2>2, SettlingEnds
  <2>4. QED BY <2>1, <2>3, EndsOnlyStep, EndsOnlyStill
<1>3. QED BY <1>1, <1>2

-----------------------------------------------------------------------------
(* Taking a move back. *)

\* A row that is written over one that holds nothing, and holds nothing.
LEMMA RowWritten ==
  ASSUME NEW m, Tables(m), NEW op, Rows(op), NEW o \in Ops, ~IsActive(m.op[o]),
         NEW row, DOMAIN row = RowFields, row.state \in States, ~IsActive(row),
         \A q \in Ops : op[q].state = m.op[q].state /\ op[q].seen = m.op[q].seen
  PROVE  LET w == [m EXCEPT !.op = [op EXCEPT ![o] = row]]
         IN Tables(w) /\ w.conn = m.conn /\ w.op[o] = row /\ \A q \in Ops \ {o} : w.op[q] = op[q]
<1> DEFINE op2 == [op EXCEPT ![o] = row]
           w == [m EXCEPT !.op = op2]
<1>1. op2[o] = row /\ (\A q \in Ops \ {o} : op2[q] = op[q]) /\ DOMAIN op2 = Ops
  BY DEF Rows
<1> HIDE DEF op2
<1>2. w.op = op2 /\ w.lock = m.lock /\ w.conn = m.conn /\ DOMAIN w = DOMAIN m
  BY DEF Tables, Shape
<1> HIDE DEF w
<1>3. Rows(w.op)
  BY <1>1, <1>2 DEF Rows
<1>4. Locked(w)
  BY <1>1, <1>2 DEF Tables, Locked, IsActive, Targets
<1>5. Tables(w) /\ w.conn = m.conn /\ w.op[o] = row /\ \A q \in Ops \ {o} : w.op[q] = op[q]
  BY <1>1, <1>2, <1>3, <1>4 DEF Tables, Shape
<1>6. QED BY <1>5 DEF w, op2

\* A new row that nobody holds a note by, after which the tables settle.
LEMMA NewRowStep ==
  ASSUME MoveInv, NEW c \in Conns, NEW o \in Ops, BoardStep,
         NEW e, Tables(e), Ends(moves, e), e.op[o].state = "none",
         NEW w, Tables(w), w.conn = moves.conn, \A q \in Ops \ {o} : RowFollows(e.op[q], w.op[q]),
         w.op[o].state \in {"accepted", "rejected"}, w.op[o].of # None,
         Targets(w.op[o]) \subseteq NoteIds,
         w.op[o].state = "accepted" => ReceiptOK(w.op[o]),
         SettleMoves(w, c)
  PROVE  MoveInv' /\ StepOK /\ KeepsHands(moves, moves')
<1>1. Tables(moves') /\ Ends(w, moves') /\ Stand(moves', notes', room')
  BY SettleEnds
<1>2. moves.op[o].state = "none"
  BY DEF Ends, OpsEnd, RowEnds, RowFollows
<1>3. ASSUME NEW q \in Ops \ {o} PROVE RowFollows(moves.op[q], moves'.op[q])
  <2>1. RowEnds(moves.op[q], e.op[q]) /\ RowFollows(e.op[q], w.op[q]) /\ RowEnds(w.op[q], moves'.op[q])
    BY <1>1 DEF Ends, OpsEnd
  <2>2. e.op[q].state \in States /\ moves.op[q].state \in States /\ moves'.op[q].state \in States
        /\ w.op[q].state \in States
    BY <1>1 DEF Tables, Shape, Rows, MoveInv
  <2>3. RowFollows(moves.op[q], w.op[q])
    BY <2>1, <2>2 DEF RowEnds, RowFollows, IsActive, IsFinished, States
  <2>4. QED BY <2>1, <2>2, <2>3 DEF RowEnds, RowFollows, IsActive, IsFinished, States
<1>4. RowEnds(w.op[o], moves'.op[o])
  BY <1>1 DEF Ends, OpsEnd
<1>5. RowOK(moves'.op[o]) /\ Current(moves'.op[o], notes', room')
  BY <1>4 DEF RowOK, Current, RowEnds, RowFollows, IsActive, IsFinished, ReceiptOK
<1>6. StepFor(o)
  BY <1>2, <1>4 DEF StepFor, RowEnds, RowFollows, IsActive, IsFinished, Becomes
<1>7. KeepsHands(moves, moves')
  <2>1. \A q \in Ops : IsActive(moves'.op[q]) =>
                         IsActive(moves.op[q]) /\ moves'.op[q].seen = moves.op[q].seen
    BY <1>3, <1>4 DEF RowEnds, RowFollows, IsActive
  <2>2. QED BY <2>1, SettleKeeps DEF KeepsHands
<1>8. Hands(moves')
  BY <1>1, <1>7, HandsKept DEF MoveInv
<1>9. QED BY <1>1, <1>3, <1>5, <1>6, <1>7, <1>8, OwnStep

\* What comes back under an undo can be put away again.
LEMMA UndoRestores ==
  ASSUME NEW p, ReceiptOK(p), NEW u, NEW known, NEW gv, NEW gs,
         DOMAIN u = {"changed", "before", "after", "groupsBefore", "groupsAfter", "affected",
                     "known"},
         u.before = p.receipt.after, u.after = p.receipt.before,
         DOMAIN u.affected = DOMAIN p.expected.targets
  PROVE  ReceiptOK([receipt |-> [u EXCEPT !.known = known], expected |-> ExpectedFrom(u, gv, gs)])
<1> DEFINE k == [u EXCEPT !.known = known]
           x == ExpectedFrom(u, gv, gs)
<1>1. k.before = u.before /\ k.after = u.after
  OBVIOUS
<1>2. x.targets = u.affected
  BY DEF ExpectedFrom
<1> HIDE DEF k, x
<1>3. QED BY <1>1, <1>2 DEF ReceiptOK, PlacesIn, k, x

LEMMA TakeBackUndoes ==
  ASSUME MoveInv, NEW c \in Conns, NEW o \in Ops, NEW src \in Ops,
         Expire(moves).op[o].state = "none", MayUndo(Expire(moves), c, src),
         UndoEffect(c, o, src, Expire(moves)), UNCHANGED checkpoints, Handles(c)
  PROVE  MoveInv' /\ StepOK /\ KeepsHands(moves, moves') /\ MovesFree /\ Changes(c, o)
<1> DEFINE e == Expire(moves)
           p == e.op[src]
           r == p.receipt
           ns == Placed(notes, r.before)
           gs == UndoneGroups(r)
           gv == UndoneVersions(r)
           affected == [n \in DOMAIN p.expected.targets |-> Version(ns, n)]
           u == [changed |-> TRUE, before |-> r.after, after |-> r.before,
                 groupsBefore |-> r.groupsAfter,
                 groupsAfter |-> {g \in ToSet(gs) : g.id \in {h.id : h \in r.groupsBefore}},
                 affected |-> affected, known |-> {}]
           x == ExpectedFrom(u, gv, gs)
           k == [u EXCEPT !.known = DOMAIN x.groups]
           seen == [n \in DOMAIN u.affected |-> Version(notes, n)]
           followed == Advanced(e.op, c, seen, u.affected, gver, gv, gs)
           row == [Unused EXCEPT !.state = "accepted", !.user = User[c], !.conn = Identity(c),
                                 !.of = src, !.phase = p.phase, !.map = p.map,
                                 !.before = u.before, !.receipt = k, !.expected = x]
           w == [e EXCEPT !.op = [followed EXCEPT ![o] = row]]
<1>1. notes' = ns /\ groups' = gs /\ gver' = gv /\ UNCHANGED room /\ SettleMoves(w, c)
  BY ZenonT(60) DEF UndoEffect
<1>15. Undoable(p, c)
  BY DEF MayUndo, Undoable, Handles
<1>2. Tables(e) /\ Ends(moves, e) /\ e.op[o].state = "none" /\ p.state = "accepted"
  BY ExpiredEnds, SMTT(60) DEF MayUndo
<1>14. e.conn = moves.conn
       /\ \A n \in NoteIds : n \in DOMAIN p.expected.targets => IsFree(moves, n)
  <2>1. \A n \in DOMAIN p.expected.targets : e.lock[n] = None /\ ActiveDrags(e, n) = {}
    BY DEF MayUndo
  <2>2. QED BY <2>1, ExpireKeeps DEF MoveInv
<1> HIDE DEF e
<1>3. ReceiptOK(p)
  BY <1>2, SMTT(60) DEF MoveInv, RowOK, ReceiptOK, Ends, OpsEnd, RowEnds, RowFollows
<1>4. BoardStep /\ MovesFree
  <2>1. \A n \in DOMAIN r.before : r.before[n] \in Places
    BY <1>3 DEF ReceiptOK, PlacesIn
  <2>2. BoardStep
    BY Zenon, <1>1, <2>1, NotesMoved
  <2>3. \A n \in NoteIds : /\ notes'[n].shared = notes[n].shared
                           /\ n \notin DOMAIN r.before => notes'[n] = notes[n]
    BY Zenon, <1>1, <2>1, PlacedOK DEF MoveInv
  <2>4. QED BY <1>3, <1>14, <2>2, <2>3 DEF MovesFree, ReceiptOK, PlacesIn
<1> HIDE DEF ns, gs, gv
<1>5. /\ DOMAIN u = {"changed", "before", "after", "groupsBefore", "groupsAfter", "affected",
                     "known"}
      /\ u.before = r.after /\ u.after = r.before /\ DOMAIN u.affected = DOMAIN p.expected.targets
  OBVIOUS
<1>6. DOMAIN followed = Ops /\ \A q \in Ops : Followed(e.op[q], followed[q])
  <2>1. DOMAIN followed = Ops
    BY DEF Advanced
  <2> HIDE DEF seen, u
  <2>2. ASSUME NEW q \in Ops PROVE Followed(e.op[q], followed[q])
    BY AdvancedFollows
  <2>3. QED BY <2>1, <2>2
<1> HIDE DEF u, seen, followed
<1>7. ReceiptOK([receipt |-> k, expected |-> x])
  BY <1>3, <1>5, UndoRestores
<1> HIDE DEF k, x, p
<1>8. /\ DOMAIN row = RowFields /\ row.state = "accepted" /\ row.of = src
      /\ row.receipt = k /\ row.expected = x /\ row.conn = Identity(c) /\ row.phase = p.phase
      /\ row.seen = NoTable
  BY DEF Unused, RowFields
<1> HIDE DEF row
<1>9. /\ Rows(followed)
      /\ \A q \in Ops : /\ RowFollows(e.op[q], followed[q])
                        /\ followed[q].state = e.op[q].state
                        /\ followed[q].seen = e.op[q].seen
  BY <1>2, <1>6, FollowedEnds
<1>10. /\ Tables(w) /\ w.conn = moves.conn /\ w.op[o] = row
       /\ \A q \in Ops \ {o} : w.op[q] = followed[q]
  <2>1. row.state \in States /\ ~IsActive(row) /\ ~IsActive(e.op[o])
    BY <1>2, <1>8 DEF States, IsActive
  <2>2. QED BY <1>2, <1>8, <1>9, <1>14, <2>1, RowWritten
<1> HIDE DEF w
<1>11. /\ ReceiptOK(w.op[o]) /\ w.op[o].state \in {"accepted", "rejected"} /\ w.op[o].of # None
       /\ Targets(w.op[o]) \subseteq NoteIds
  BY <1>7, <1>8, <1>10 DEF ReceiptOK, Targets, NoTable
<1>12. \A q \in Ops \ {o} : RowFollows(e.op[q], w.op[q])
  BY <1>9, <1>10
<1>13. MoveInv' /\ StepOK /\ KeepsHands(moves, moves')
  BY <1>1, <1>2, <1>4, <1>10, <1>11, <1>12, NewRowStep, SMTT(60)
<1>16. Changes(c, o)
  <2>1. /\ SocketsOnward
        /\ moves.conn[c].open \/ (~moves'.conn[c].open /\ ~moves'.conn[c].waiting)
    BY <1>1, <1>10, SettledSockets
  <2>2. \A q \in Ops : moves'.op[q].state = "accepted" => moves'.op[q] = w.op[q]
    BY <1>1, <1>10, SettleKeeps
  <2>3. moves'.op[o] = row /\ moves.op[o].state # "accepted"
    <3>1. moves'.op[o] = row
      BY <1>1, <1>8, <1>10, SettleKeeps DEF IsActive
    <3>2. RowEnds(moves.op[o], e.op[o])
      BY <1>2 DEF Ends, OpsEnd
    <3>3. QED BY <1>2, <3>1, <3>2 DEF RowEnds, RowFollows
  <2>4. ASSUME NEW q \in Ops \ {o}, moves'.op[q].state = "accepted"
        PROVE  RowFollows(moves.op[q], moves'.op[q]) /\ CarriedBy(moves.op[q], moves'.op[q], c)
    <3>1. moves'.op[q] = followed[q]
      BY <1>10, <2>2, <2>4
    <3>2. e.op[q].state = "accepted" /\ RowEnds(moves.op[q], e.op[q])
          /\ RowFollows(e.op[q], followed[q])
      BY <1>2, <1>9, <2>4, <3>1 DEF Ends, OpsEnd
    <3>3. e.op[q].conn = moves.op[q].conn /\ e.op[q].expected = moves.op[q].expected
      BY <3>2 DEF RowEnds, RowFollows
    <3>4. CarriedBy(e.op[q], followed[q], c)
      <4>1. followed = Advanced(e.op, c, [n \in DOMAIN u.affected |-> Version(notes, n)],
                                u.affected, gver, gver', groups')
        BY <1>1 DEF followed, seen
      <4>2. \A n \in DOMAIN u.affected : u.affected[n] = Version(notes', n)
        BY <1>1 DEF u
      <4>3. "expected" \in DOMAIN e.op[q]
        BY <1>2 DEF Tables, Shape, Rows, RowFields
      <4>4. QED BY <4>1, <4>2, <4>3, AdvancedCarries
    <3>5. RowFollows(moves.op[q], followed[q])
      BY <1>13, <2>4, <3>1, <3>2 DEF RowEnds, RowFollows, IsActive, IsFinished
    <3>6. QED BY <3>1, <3>3, <3>4, <3>5 DEF CarriedBy
  <2>5. /\ moves.op[src].receipt = r /\ moves.op[src].expected = p.expected
        /\ moves.op[src].conn = p.conn /\ moves.op[src].phase = p.phase
        /\ moves.op[src].state = "accepted"
    BY <1>2 DEF Ends, OpsEnd, RowEnds, RowFollows, p
  <2>6. TakenBack(o, src, c)
    <3>1. Undoable(moves.op[src], c)
      BY <1>2, <1>15, <2>5 DEF Undoable
    <3>2. u = [changed |-> TRUE, before |-> r.after, after |-> r.before,
               groupsBefore |-> r.groupsAfter,
               groupsAfter |-> {g \in ToSet(groups') : g.id \in {h.id : h \in r.groupsBefore}},
               affected |-> [n \in DOMAIN p.expected.targets |-> Version(notes', n)],
               known |-> {}]
      BY <1>1 DEF u
    <3>3. x = ExpectedFrom(u, gver', groups') /\ k = [u EXCEPT !.known = DOMAIN x.groups]
      BY <1>1 DEF x, k
    <3>4. notes' = Placed(notes, r.before) /\ groups' = UndoneGroups(r)
          /\ gver' = UndoneVersions(r)
      BY <1>1 DEF ns, gs, gv
    <3>5. QED BY <1>8, <2>3, <2>5, <3>1, <3>2, <3>3, <3>4 DEF TakenBack
  <2>7. moves'.op[o].conn = Identity(c) /\ moves'.op[o].phase = room.phase
    BY <1>8, <1>15, <2>3 DEF Undoable
  <2>8. QED BY <1>1, <1>8, <2>1, <2>3, <2>4, <2>6, <2>7 DEF Changes
<1>17. QED BY <1>4, <1>13, <1>16

LEMMA TakeBackStep ==
  ASSUME MoveInv, NEW c \in Conns, NEW o \in Ops, NEW src \in Ops, NEW stale \in BOOLEAN,
         TakeBack(c, o, src, stale)
  PROVE  /\ MoveInv' /\ StepOK /\ KeepsHands(moves, moves') /\ MovesFree /\ UNCHANGED room
         /\ Still \/ Changes(c, o)
<1> DEFINE e == Expire(moves)
<1>1. Tables(e) /\ Ends(moves, e) /\ e.conn = moves.conn
  BY ExpiredEnds, ExpireKeeps DEF MoveInv
<1>2. CASE KeepBoard /\ SettleMoves(e, c)
  <2>1. BoardStep /\ MovesFree /\ UNCHANGED room
    BY <1>2, BoardKept DEF TakeBack, KeepBoard, Inside, MovesFree
  <2>2. EndsOnly
    BY <1>1, <1>2, SettlingEnds
  <2>3. QED BY <2>1, <2>2, EndsOnlyStep, EndsOnlyStill
<1>3. CASE e.op[o].state = "none" /\ KeepBoard /\ SettleMoves(Denied(e, c, o, src), c)
  <2> DEFINE row == [Unused EXCEPT !.state = "rejected", !.user = User[c],
                                   !.conn = Identity(c), !.of = src]
             w == [e EXCEPT !.op = [e.op EXCEPT ![o] = row]]
  <2>1. BoardStep /\ MovesFree /\ UNCHANGED room
    BY <1>3, BoardKept DEF TakeBack, KeepBoard, Inside, MovesFree
  <2>2. Denied(e, c, o, src) = w
    BY <1>1 DEF Denied, Tables, Shape
  <2>3. /\ DOMAIN row = RowFields /\ row.state = "rejected" /\ row.of = src
        /\ Targets(row) = {}
    BY DEF Unused, RowFields, Targets, NoTable
  <2> HIDE DEF row, e
  <2>4. Rows(e.op) /\ ~IsActive(e.op[o]) /\ row.state \in States /\ ~IsActive(row)
    BY <1>1, <1>3, <2>3 DEF Tables, Shape, IsActive, States
  <2>5. /\ Tables(w) /\ w.conn = moves.conn /\ w.op[o] = row
        /\ \A q \in Ops \ {o} : w.op[q] = e.op[q]
    BY <1>1, <2>3, <2>4, RowWritten
  <2> HIDE DEF w
  <2>6. \A q \in Ops \ {o} : RowFollows(e.op[q], w.op[q])
    BY <2>5 DEF RowEnds, RowFollows
  <2>7. Still
    <3>1. \A q \in Ops : moves'.op[q].state = "accepted" => moves'.op[q] = w.op[q]
      BY <1>3, <2>2, <2>5, SettleKeeps
    <3>2. \A q \in Ops : moves'.op[q].state = "accepted" => moves'.op[q] = e.op[q]
      BY <2>3, <2>5, <3>1
    <3>3. SocketsOnward
      BY <1>3, <2>2, <2>5, SettledSockets
    <3>4. QED BY <1>1, <3>2, <3>3 DEF Still, Ends, OpsEnd
  <2>8. QED BY <1>1, <1>3, <2>1, <2>2, <2>3, <2>5, <2>6, <2>7, NewRowStep
<1>4. CASE /\ e.op[o].state = "none" /\ MayUndo(e, c, src) /\ UndoEffect(c, o, src, e)
           /\ UNCHANGED checkpoints /\ Handles(c)
  <2>1. UNCHANGED room
    BY Zenon, <1>4 DEF UndoEffect
  <2>2. QED BY <1>4, <2>1, TakeBackUndoes
<1>5. QED BY <1>2, <1>3, <1>4 DEF TakeBack, Inside

-----------------------------------------------------------------------------
(* The theorems. *)

LEMMA InitOK == Init => MoveInv
<1> SUFFICES ASSUME Init PROVE MoveInv
  OBVIOUS
<1>1. Tables(moves)
  <2>1. /\ DOMAIN moves = {"op", "lock", "conn"} /\ moves.op = [o \in Ops |-> Unused]
        /\ moves.lock = [n \in NoteIds |-> None]
        /\ moves.conn = [c \in Conns |-> [open |-> TRUE, waiting |-> FALSE,
                                          attached |-> None, drag |-> NoDrag]]
    BY DEF Init
  <2>2. Rows(moves.op) /\ Locks(moves.lock)
    BY <2>1 DEF Rows, Locks, Unused, RowFields, States
  <2>3. Attachments(moves.conn)
    BY <2>1 DEF Attachments, NoDrag
  <2>4. Locked(moves)
    BY <2>1 DEF Locked, IsActive, Unused
  <2>5. QED BY <2>1, <2>2, <2>3, <2>4 DEF Tables, Shape
<1>2. notes \in NoteTable
  BY BoardAssumption DEF Init, NoteTable
<1>3. RoomOK /\ CheckpointsOK
  BY DEF Init, RoomOK, CheckpointsOK
<1>4. ASSUME NEW o \in Ops PROVE RowOK(moves.op[o]) /\ Current(moves.op[o], notes, room)
  BY DEF Init, RowOK, Current, IsActive, Unused, Targets, NoTable
<1>5. Hands(moves) /\ Stand(moves, notes, room)
  BY DEF Init, Hands, Stand, ActiveDrags, NoDrag
<1>6. QED BY <1>1, <1>2, <1>3, <1>4, <1>5 DEF MoveInv

LEMMA FirstIsBoolean ==
  ASSUME NEW o
  PROVE  First(o, BOOLEAN) \subseteq BOOLEAN
<1>1. (CHOOSE x \in BOOLEAN : TRUE) \in BOOLEAN
  OBVIOUS
<1>2. QED BY <1>1 DEF First

\* A request to take something back names an operation.
LEMMA ASource ==
  ASSUME NEW c,
         \E o \in Ops : \E src \in IF IsNew(o) THEN Sources ELSE Sources \cap {o} :
           \E stale \in First(o, BOOLEAN) : TakeBack(c, o, src, stale)
  PROVE  \E o \in Ops, src \in Ops, stale \in BOOLEAN : TakeBack(c, o, src, stale)
<1>1. Sources \subseteq Ops
  BY DEF Sources
<1>2. PICK o \in Ops : \E src \in IF IsNew(o) THEN Sources ELSE Sources \cap {o} :
          \E stale \in First(o, BOOLEAN) : TakeBack(c, o, src, stale)
  OBVIOUS
<1>3. PICK src \in IF IsNew(o) THEN Sources ELSE Sources \cap {o} :
          \E stale \in First(o, BOOLEAN) : TakeBack(c, o, src, stale)
  BY <1>2
<1>4. src \in Ops /\ First(o, BOOLEAN) \subseteq BOOLEAN
  BY <1>1, <1>3, FirstIsBoolean
<1>5. QED BY <1>3, <1>4

LEMMA MessageStep ==
  ASSUME MoveInv, NEW c \in Conns, Message(c)
  PROVE  MoveInv' /\ StepOK
<1>1. \A o \in Ops : First(o, BOOLEAN) \subseteq BOOLEAN
  BY FirstIsBoolean
<1>2. CASE \E o \in Ops : \E targets \in First(o, Selections), stale \in First(o, BOOLEAN) :
              Start(c, o, targets, stale)
  <2>1. PICK o \in Ops : \E targets \in First(o, Selections), stale \in First(o, BOOLEAN) :
               Start(c, o, targets, stale)
    BY <1>2
  <2>2. PICK targets \in First(o, Selections), stale \in First(o, BOOLEAN) :
               Start(c, o, targets, stale)
    BY <2>1
  <2>3. (IsNew(o) => targets \in Selections) /\ stale \in BOOLEAN
    BY <1>1, <2>2 DEF First
  <2>4. QED BY <2>2, <2>3, StartStep
<1>3. CASE \E o \in {o \in Ops : ~IsNew(o)} : Preview(c, o) \/ Cancel(c, o) \/ Status(c, o)
  BY <1>3, PreviewEnds, CancelEnds, StatusEnds, EndsOnlyStep
<1>4. CASE \E o \in Ops : \E delta \in IF IsActive(moves.op[o]) THEN {-1, 0, 1} ELSE {0} :
              Commit(c, o, delta)
  BY <1>4, CommitStep
<1>5. CASE \E o \in Ops : \E src \in IF IsNew(o) THEN Sources ELSE Sources \cap {o} :
           \E stale \in First(o, BOOLEAN) : TakeBack(c, o, src, stale)
  <2>1. PICK o \in Ops, src \in Ops, stale \in BOOLEAN : TakeBack(c, o, src, stale)
    BY <1>5, ASource
  <2>2. QED BY <2>1, TakeBackStep
<1>6. QED BY <1>2, <1>3, <1>4, <1>5 DEF Message

LEMMA OldMessageStep ==
  ASSUME MoveInv, NEW c \in Conns, OldMessage(c)
  PROVE  MoveInv' /\ StepOK
<1>1. CASE \E n \in NoteIds, at \in Places : MoveOne(c, n, at) \/ Publish(c, n, at)
  BY <1>1, MoveOneEnds, PublishEnds, EndsOnlyStep
<1>2. CASE \E n \in NoteIds : DragStart(c, n)
  BY <1>2, DragStarts, EndingStep
<1>3. CASE \E n \in NoteIds : Unpublish(c, n)
  BY <1>3, UnpublishEnds, EndsOnlyStep
<1>4. CASE \E at \in Places : DragMove(c, at) \/ DragEnd(c, at)
  BY <1>4, DragMoveEnds, DragEndEnds, EndsOnlyStep
<1>5. CASE \/ \E k \in DOMAIN ClustersOf(notes) : CreateGroup(c, ClustersOf(notes)[k])
           \/ \E k \in DOMAIN groups : RenameGroup(c, k)
  BY <1>5, GroupEnds, EndsOnlyStep
<1>6. CASE CursorLeave(c) \/ Resize(c) \/ Adopt(c)
  BY <1>6, CursorLeaveEnds, ResizeEnds, AdoptEnds, EndsOnlyStep
<1>7. QED BY <1>1, <1>2, <1>3, <1>4, <1>5, <1>6 DEF OldMessage

LEMMA EventStep ==
  ASSUME MoveInv, Event
  PROVE  MoveInv' /\ StepOK
<1>1. EndsOnly /\ BoardStep
  BY NextStepEnds, RollbackEnds, CompleteEnds, SetTimerEnds, LeaveEnds, SocketClosesEnds,
     TimeEndsEnds, DragLapsesEnds DEF Event
<1>2. QED BY <1>1, EndsOnlyStep

LEMMA StepKeeps ==
  ASSUME MoveInv, [Next]_vars
  PROVE  MoveInv' /\ StepOK
<1>1. CASE Next
  BY <1>1, AlarmEnds, EndsOnlyStep, EventStep, MessageStep, OldMessageStep DEF Next
<1>2. CASE UNCHANGED vars
  <2>1. EndsOnly /\ BoardStep
    BY <1>2, EndsSelf, BoardKept DEF vars, EndsOnly, MoveInv, Stand, Presents, Matches, HoldsAll
  <2>2. QED BY SMTT(60), <2>1, EndsOnlyStep
<1>3. QED BY <1>1, <1>2

\* The rows, the locks, the versions and the places stay in order whatever
\* clients, leases, phases and broken connections do.
THEOREM MoveInvariant == Spec => []MoveInv
<1>1. MoveInv /\ [Next]_vars => MoveInv'
  BY StepKeeps
<1>2. QED BY InitOK, <1>1, PTL DEF Spec

\* Every lock belongs to an active move of that note, and an active move holds
\* all its notes: no handler, trigger or broken connection leaves one behind.
THEOREM LocksBelongToMoves == Spec => []LocksMatchOperations
<1>1. MoveInv => LocksMatchOperations
  <2> SUFFICES ASSUME MoveInv, NEW o \in Ops
               PROVE {n \in NoteIds : moves.lock[n] = o}
                       = IF IsActive(moves.op[o]) THEN Targets(moves.op[o]) ELSE {}
    BY DEF LocksMatchOperations
  <2>1. QED BY DEF MoveInv, Tables, Locked
<1>2. QED BY MoveInvariant, <1>1, PTL

\* An identifier is good for one effect: what is over stays over, also after
\* the receipt was dropped.
THEOREM IdentifiersStayUsed == Spec => IdentifiersAreUsedOnce
<1>1. MoveInv /\ [Next]_vars =>
        [\A o \in Ops : IsFinished(moves.op[o]) =>
             moves'.op[o].state \in {moves.op[o].state, "expired"}]_vars
  BY StepKeeps DEF StepOK, StepFor
<1>2. QED BY MoveInvariant, <1>1, PTL DEF Spec, IdentifiersAreUsedOnce

\* While a move is under way the map keeps its size.
THEOREM MapKeepsItsSize == Spec => MapStandsStill
<1>1. MoveInv /\ [Next]_vars =>
        [\A o \in Ops : moves.op[o].state = "active" /\ moves'.op[o].state \in {"active", "accepted"}
             => room'.map = moves.op[o].map]_vars
  BY StepKeeps DEF StepOK, StepFor
<1>2. QED BY MoveInvariant, <1>1, PTL DEF Spec, MapStandsStill

\* A move is accepted only from where its owner picked the notes up: they have
\* not been anywhere else meanwhile, keep their distances, and nothing else
\* moves with them.
THEOREM CommitsAreFromWhereSeen == Spec => CommitsFromWhereSeen
<1>1. MoveInv /\ [Next]_vars =>
        [\A o \in Ops : Becomes(o, "accepted") /\ moves'.op[o].of = None =>
           LET p == moves.op[o] IN
           /\ \A n \in Targets(p) : /\ Version(notes, n) = p.seen[n]
                                    /\ notes[n].at = p.before[n]
           /\ \A n, k \in Targets(p) : notes'[n].at - p.before[n] = notes'[k].at - p.before[k]
           /\ \A n \in NoteIds \ Targets(p) : notes'[n] = notes[n]]_vars
  BY StepKeeps DEF StepOK, StepFor, FromSeen
<1>2. QED BY MoveInvariant, <1>1, PTL DEF Spec, CommitsFromWhereSeen
-----------------------------------------------------------------------------
(* Moving notes implements NoteHolding. *)

HolderIn(m, n) ==
  IF m.lock[n] # None THEN m.lock[n]
  ELSE IF ActiveDrags(m, n) = {} THEN None
  ELSE CHOOSE c \in Conns : c \in ActiveDrags(m, n)

Held(m, h) == {n \in NoteIds : HolderIn(m, n) = h}

LiesAt(ns, n) == IF ns[n].shared THEN ns[n].at ELSE None

Displaced == {n \in NoteIds : LiesAt(notes', n) # LiesAt(notes, n)}

NobodyTakes == \A h \in Ops \cup Conns : Held(moves', h) \in {Held(moves, h), {}}

LEMMA HolderIs ==
  ASSUME NEW m, Tables(m), Hands(m), NEW n \in NoteIds
  PROVE  /\ \A o \in Ops : HolderIn(m, n) = o <=> m.lock[n] = o
         /\ \A c \in Conns : HolderIn(m, n) = c <=> c \in ActiveDrags(m, n)
<1>1. m.lock[n] \in Ops \cup {None} /\ ActiveDrags(m, n) \subseteq Conns
  BY DEF Tables, Shape, Locks, ActiveDrags
<1>2. CASE m.lock[n] # None
  <2>1. HolderIn(m, n) = m.lock[n] /\ ActiveDrags(m, n) = {}
    BY <1>2 DEF HolderIn, Hands
  <2>2. QED BY <1>1, <1>2, <2>1
<1>3. CASE m.lock[n] = None /\ ActiveDrags(m, n) = {}
  BY <1>3 DEF HolderIn
<1>4. CASE m.lock[n] = None /\ ActiveDrags(m, n) # {}
  <2>1. HolderIn(m, n) \in ActiveDrags(m, n)
    BY <1>1, <1>4 DEF HolderIn
  <2>2. QED BY <1>1, <1>4, <2>1 DEF Hands
<1>5. QED BY <1>2, <1>3, <1>4

\* What movers and draggers hold.
LEMMA HeldIs ==
  ASSUME NEW m, Tables(m), Hands(m)
  PROVE  /\ \A o \in Ops : Held(m, o) = IF IsActive(m.op[o]) THEN Targets(m.op[o]) ELSE {}
         /\ \A c \in Conns : Held(m, c) = {n \in NoteIds : c \in ActiveDrags(m, n)}
<1>1. ASSUME NEW o \in Ops
      PROVE  Held(m, o) = IF IsActive(m.op[o]) THEN Targets(m.op[o]) ELSE {}
  <2>1. \A n \in NoteIds : HolderIn(m, n) = o <=> IsActive(m.op[o]) /\ n \in Targets(m.op[o])
    BY HolderIs DEF Tables, Locked
  <2>2. IsActive(m.op[o]) => Targets(m.op[o]) \subseteq NoteIds
    BY DEF Tables, Locked
  <2>3. QED BY <2>1, <2>2 DEF Held
<1>2. ASSUME NEW c \in Conns PROVE Held(m, c) = {n \in NoteIds : c \in ActiveDrags(m, n)}
  BY HolderIs DEF Held
<1>3. QED BY <1>1, <1>2

LEMMA DragHeld ==
  ASSUME NEW m, Tables(m), Hands(m), NEW c \in Conns, NEW n \in NoteIds,
         c \in ActiveDrags(m, n)
  PROVE  Held(m, c) = {n}
<1>1. m.conn[c].drag.note = n
  BY DEF ActiveDrags
<1>2. \A k \in NoteIds : c \in ActiveDrags(m, k) => k = n
  BY <1>1 DEF ActiveDrags
<1>3. QED BY <1>2, HeldIs

LEMMA HeldKept ==
  ASSUME NEW m, NEW m2, Tables(m), Tables(m2), Hands(m), Hands(m2), NEW h \in Ops \cup Conns,
         h \in Ops => (IsActive(m2.op[h]) => IsActive(m.op[h]) /\ m2.op[h].seen = m.op[h].seen),
         h \in Conns => (m2.conn[h].open => /\ m.conn[h].open
                                            /\ m2.conn[h].drag.live
                                                 => m2.conn[h].drag = m.conn[h].drag)
  PROVE  Held(m2, h) \in {Held(m, h), {}}
<1>1. CASE h \in Ops
  BY <1>1, HeldIs DEF Targets
<1>2. CASE h \in Conns
  <2>1. CASE m2.conn[h].open /\ m2.conn[h].drag.live
    <3>1. \A n \in NoteIds : h \in ActiveDrags(m2, n) <=> h \in ActiveDrags(m, n)
      BY <1>2, <2>1 DEF ActiveDrags
    <3>2. /\ Held(m, h) = {n \in NoteIds : h \in ActiveDrags(m, n)}
          /\ Held(m2, h) = {n \in NoteIds : h \in ActiveDrags(m2, n)}
      BY <1>2, HeldIs
    <3>3. Held(m2, h) = Held(m, h)
      BY <3>1, <3>2
    <3>4. QED BY <3>3
  <2>2. CASE ~(m2.conn[h].open /\ m2.conn[h].drag.live)
    <3>1. \A n \in NoteIds : h \notin ActiveDrags(m2, n)
      <4>1. ASSUME NEW n \in NoteIds, h \in ActiveDrags(m2, n) PROVE FALSE
        <5>1. m2.conn[h].open /\ m2.conn[h].drag = [note |-> n, live |-> TRUE]
          BY <4>1 DEF ActiveDrags
        <5>2. m2.conn[h].drag.live
          BY <5>1
        <5>3. QED BY <2>2, <5>1, <5>2
      <4>2. QED BY <4>1
    <3>2. QED BY <1>2, <3>1, HeldIs
  <2>3. QED BY <2>1, <2>2
<1>3. QED BY <1>1, <1>2

LEMMA NobodyTook ==
  ASSUME MoveInv, MoveInv', KeepsHands(moves, moves')
  PROVE  NobodyTakes
<1>1. Tables(moves) /\ Tables(moves') /\ Hands(moves) /\ Hands(moves')
  BY DEF MoveInv, Tables, Hands
<1>2. QED BY <1>1, HeldKept DEF KeepsHands, NobodyTakes

\* NoteHolding's view of a state and of a step.
LEMMA HoldingView ==
  /\ Holding!Moved = Displaced
  /\ \A n \in NoteIds : HolderOf(n) = HolderIn(moves, n) /\ HolderOf(n)' = HolderIn(moves', n)
BY DEF Holding!Moved, Displaced, LiesAt, HolderOf, HolderIn, ActiveDrags

LEMMA HoldingSees ==
  ASSUME NEW h
  PROVE  Holding!Holding(h) = Held(moves, h) /\ Holding!Holding(h)' = Held(moves', h)
BY HoldingView DEF Holding!Holding, Held

LEMMA OnlyTakes ==
  ASSUME NEW who, \A h \in (Ops \cup Conns) \ {who} : Held(moves', h) \in {Held(moves, h), {}}
  PROVE  Holding!OnlyTaker(who)
BY HoldingSees DEF Holding!OnlyTaker, Holding!Holders

LEMMA NoTaker ==
  ASSUME NobodyTakes
  PROVE  Holding!OnlyTaker(None)
BY OnlyTakes DEF NobodyTakes

LEMMA IsFreeThere ==
  ASSUME MoveInv, NEW n \in NoteIds, IsFree(moves, n)
  PROVE  Holding!Free(n)
<1>1. HolderOf(n) = None
      \/ HolderOf(n) \in {o \in Ops : IsActive(moves.op[o]) /\ moves.op[o].late}
  BY DEF MoveInv, Tables, Shape, Locks, IsFree, HolderOf
<1>2. QED BY <1>1 DEF Holding!Free

\* The kinds of steps.
LEMMA GivesBack ==
  ASSUME NobodyTakes, Displaced = {}, room'.phase = room.phase
  PROVE  Holding!Next
BY NoTaker, HoldingView DEF Holding!Next, Holding!GiveBack

LEMMA MovesFreeNotes ==
  ASSUME MoveInv, NobodyTakes, \A n \in Displaced : IsFree(moves, n),
         room'.phase = room.phase
  PROVE  Holding!Next
<1>1. CASE Displaced = {}
  BY <1>1, GivesBack
<1>2. CASE Displaced # {}
  <2>1. \A n \in Displaced : Holding!Free(n)
    BY IsFreeThere DEF Displaced
  <2>2. Holding!MoveFree
    BY <1>2, <2>1, NoTaker, HoldingView DEF Holding!MoveFree
  <2>3. QED BY <2>2 DEF Holding!Next
<1>3. QED BY <1>1, <1>2

LEMMA Takes ==
  ASSUME MoveInv, NEW h \in Ops \cup Conns, Held(moves, h) = {}, Held(moves', h) # {},
         \A n \in Held(moves', h) : IsFree(moves, n),
         \A g \in (Ops \cup Conns) \ {h} : Held(moves', g) \in {Held(moves, g), {}},
         Displaced = {}, room'.phase = room.phase
  PROVE  Holding!Next
<1>1. \A n \in Held(moves', h) : Holding!Free(n)
  BY IsFreeThere DEF Held
<1>2. Holding!Take(h)
  BY <1>1, OnlyTakes, HoldingView, HoldingSees DEF Holding!Take
<1>3. QED BY <1>2 DEF Holding!Next, Holding!Holders

LEMMA Puts ==
  ASSUME MoveInv, MoveInv', NEW o \in Ops, PutsDown(o), NobodyTakes, room'.phase = room.phase
  PROVE  Holding!Next
<1> DEFINE ts == Targets(moves.op[o])
<1>1. /\ Tables(moves) /\ Tables(moves') /\ Hands(moves) /\ Hands(moves')
      /\ notes \in NoteTable
  BY DEF MoveInv, Tables, Hands
<1>2. Held(moves, o) = ts /\ ts # {} /\ ts \subseteq NoteIds
  BY <1>1, HeldIs DEF PutsDown, Tables, Locked
<1>3. Held(moves', o) = {}
  BY <1>1, HeldIs DEF PutsDown, IsActive
<1>4. PICK d \in Int : \A n \in NoteIds :
        notes'[n].at = IF n \in ts THEN notes[n].at + d ELSE notes[n].at
  BY DEF PutsDown
<1>5. \A n \in NoteIds : notes[n].at \in Int
  BY <1>1, BoundsAssumption DEF NoteTable, Places
<1>6. \A n \in NoteIds : notes'[n].shared = notes[n].shared
  BY DEF PutsDown
<1>7. \A n \in ts : LiesAt(notes, n) = notes[n].at /\ LiesAt(notes', n) = notes[n].at + d
  BY <1>2, <1>4, <1>6 DEF LiesAt, PutsDown
<1>8. \A n \in NoteIds \ ts : LiesAt(notes', n) = LiesAt(notes, n)
  BY <1>4, <1>6 DEF LiesAt
<1>9. CASE d = 0
  <2>1. Displaced = {}
    BY <1>5, <1>7, <1>8, <1>9 DEF Displaced
  <2>2. QED BY <2>1, GivesBack
<1>10. CASE d # 0
  <2>1. Displaced = ts
    BY <1>2, <1>5, <1>7, <1>8, <1>10 DEF Displaced
  <2>2. \A n, k \in ts : LiesAt(notes', n) - LiesAt(notes, n) = LiesAt(notes', k) - LiesAt(notes, k)
    <3>1. ASSUME NEW n \in ts PROVE LiesAt(notes', n) - LiesAt(notes, n) = d
      BY <1>2, <1>5, <1>7
    <3>2. QED BY <3>1
  <2> DEFINE lies == [n \in NoteIds |-> IF notes[n].shared THEN notes[n].at ELSE None]
  <2>3. \A n \in NoteIds : lies[n] = LiesAt(notes, n) /\ lies'[n] = LiesAt(notes', n)
    BY DEF LiesAt
  <2>4. \A n, k \in ts : lies'[n] - lies[n] = lies'[k] - lies[k]
    BY <1>2, <2>2, <2>3
  <2>5. /\ o \notin {q \in Ops : IsActive(moves.op[q]) /\ moves.op[q].late}
        /\ o \in {q \in Ops : moves.op[q].state = "accepted" /\ moves.op[q].of = None}'
                   \ {q \in Ops : moves.op[q].state = "accepted" /\ moves.op[q].of = None}
    BY DEF PutsDown, IsActive
  <2> HIDE DEF ts
  <2>6. Holding!Put(o)
    BY <1>2, <1>3, <2>1, <2>4, <2>5, NoTaker, HoldingView, HoldingSees DEF Holding!Put
  <2>7. QED BY <2>6 DEF Holding!Next
<1>11. QED BY <1>9, <1>10

\* A dragger changes the place of the note it drags and of no other.
LEMMA Writes ==
  ASSUME MoveInv, NEW c \in Conns, NEW n \in NoteIds, c \in ActiveDrags(moves, n),
         Displaced \subseteq {n}, NobodyTakes, room'.phase = room.phase
  PROVE  Holding!Next
<1>1. CASE Displaced = {}
  BY <1>1, GivesBack
<1>2. CASE Displaced = {n}
  <2>1. Held(moves, c) = {n}
    BY DragHeld DEF MoveInv
  <2>2. Holding!Cardinality({n}) = 1
    <3>1. Cardinality({n}) = 1
      BY FS_Singleton
    <3>2. Holding!Cardinality({n}) = Cardinality({n})
      BY DEF Holding!Cardinality, Cardinality
    <3>3. QED BY <3>1, <3>2
  <2>3. c \notin {o \in Ops : IsActive(moves.op[o]) /\ moves.op[o].late}
    OBVIOUS
  <2>4. Holding!Write(c)
    BY <1>2, <2>1, <2>2, <2>3, NoTaker, HoldingView, HoldingSees DEF Holding!Write
  <2>5. QED BY <2>4 DEF Holding!Next
<1>3. QED BY <1>1, <1>2

LEMMA Appears ==
  ASSUME NEW n \in NoteIds, ~notes[n].shared, Displaced \subseteq {n}, NobodyTakes,
         room'.phase = room.phase
  PROVE  Holding!Next
<1>1. CASE Displaced = {}
  BY <1>1, GivesBack
<1>2. CASE Displaced = {n}
  <2>1. [k \in NoteIds |-> IF notes[k].shared THEN notes[k].at ELSE None][n] = None
    OBVIOUS
  <2>2. Holding!Appear(n)
    BY <1>2, <2>1, NoTaker, HoldingView DEF Holding!Appear
  <2>3. QED BY <2>2 DEF Holding!Next
<1>3. QED BY <1>1, <1>2

LEMMA Rewinds ==
  ASSUME Tables(moves'), \A o \in Ops : ~IsActive(moves'.op[o]),
         \A c \in Conns : moves'.conn[c].drag = NoDrag, room'.phase = room.phase + 1
  PROVE  Holding!Next
<1>1. \A n \in NoteIds : moves'.lock[n] = None
  BY DEF Tables, Shape, Locks, Locked
<1>2. \A n \in NoteIds : ActiveDrags(moves', n) = {}
  BY DEF ActiveDrags, NoDrag
<1>3. \A n \in NoteIds : HolderOf(n)' = None
  BY <1>1, <1>2, HoldingView DEF HolderIn
<1>4. [n \in NoteIds |-> HolderOf(n)]' = [n \in NoteIds |-> None]
  BY <1>3
<1>5. Holding!Rewind
  BY <1>4 DEF Holding!Rewind
<1>6. QED BY <1>5 DEF Holding!Next

-----------------------------------------------------------------------------
(* Every step of the room is one of these. *)

LEMMA QuietStep ==
  ASSUME MoveInv, MoveInv', KeepsHands(moves, moves'), UNCHANGED notes,
         room'.phase = room.phase
  PROVE  Holding!Next
<1>1. Displaced = {}
  BY DEF Displaced
<1>2. QED BY <1>1, NobodyTook, GivesBack

LEMMA EndsKept ==
  ASSUME MoveInv, EndsOnly
  PROVE  KeepsHands(moves, moves')
BY EndsKeepHands DEF EndsOnly

LEMMA OnePlaced ==
  ASSUME MoveInv, NEW n, NEW at \in Places, notes' = Placed(notes, [k \in {n} |-> at])
  PROVE  Displaced \subseteq {n}
<1>1. \A k \in NoteIds : k # n => notes'[k] = notes[k]
  BY PlacedOK DEF MoveInv
<1>2. QED BY <1>1 DEF Displaced, LiesAt

LEMMA StartHolds ==
  ASSUME MoveInv, NEW c \in Conns, NEW o \in Ops,
         NEW targets, IsNew(o) => targets \in Selections,
         NEW stale \in BOOLEAN, Start(c, o, targets, stale)
  PROVE  Holding!Next
<1>1. /\ MoveInv' /\ UNCHANGED <<notes, room>>
      /\ KeepsHands(moves, moves') \/ TakesNotes(o)
  BY StartStep
<1>2. CASE KeepsHands(moves, moves')
  BY <1>1, <1>2, QuietStep
<1>3. CASE TakesNotes(o)
  <2>1. Tables(moves) /\ Tables(moves') /\ Hands(moves) /\ Hands(moves')
    BY <1>1 DEF MoveInv, Tables, Hands
  <2>2. \A h \in (Ops \cup Conns) \ {o} : Held(moves', h) \in {Held(moves, h), {}}
    BY <1>3, <2>1, HeldKept DEF TakesNotes, RowEnds, RowFollows
  <2>3. Displaced = {}
    BY <1>1 DEF Displaced
  <2>4. Held(moves, o) = {}
    BY <1>3, <2>1, HeldIs DEF TakesNotes
  <2>5. CASE Held(moves', o) = {}
    <3>1. NobodyTakes
      BY <2>2, <2>5 DEF NobodyTakes
    <3>2. QED BY <1>1, <2>3, <3>1, GivesBack
  <2>6. CASE Held(moves', o) # {}
    <3>1. \A n \in Held(moves', o) : IsFree(moves, n)
      BY <1>3, <2>1, <2>6, HeldIs DEF TakesNotes
    <3>2. QED BY <1>1, <2>2, <2>3, <2>4, <2>6, <3>1, Takes
  <2>7. QED BY <2>5, <2>6
<1>4. QED BY <1>1, <1>2, <1>3

LEMMA DragStartHolds ==
  ASSUME MoveInv, MoveInv', NEW c \in Conns, NEW n \in NoteIds, DragStart(c, n)
  PROVE  Holding!Next
<1>1. /\ OpsEnd(moves, moves') /\ UNCHANGED <<notes, room>>
      /\ KeepsHands(moves, moves') \/ TakesDrag(c, n)
  BY DragStarts
<1>2. CASE KeepsHands(moves, moves')
  BY <1>1, <1>2, QuietStep
<1>3. CASE TakesDrag(c, n)
  <2>1. Tables(moves) /\ Tables(moves') /\ Hands(moves) /\ Hands(moves')
    BY DEF MoveInv, Tables, Hands
  <2>2. \A h \in (Ops \cup Conns) \ {c} : Held(moves', h) \in {Held(moves, h), {}}
    BY <1>1, <1>3, <2>1, HeldKept DEF TakesDrag, OpsEnd, RowEnds, RowFollows
  <2>3. Displaced = {}
    BY <1>1 DEF Displaced
  <2>4. Held(moves, c) = {}
    <3>1. \A k \in NoteIds : c \notin ActiveDrags(moves, k)
      BY <1>3 DEF TakesDrag, ActiveDrags
    <3>2. QED BY <2>1, <3>1, HeldIs
  <2>5. Held(moves', c) = {n}
    <3>1. c \in ActiveDrags(moves', n)
      BY <1>3 DEF TakesDrag, ActiveDrags
    <3>2. QED BY <2>1, <3>1, DragHeld
  <2>6. IsFree(moves, n)
    BY <1>3 DEF TakesDrag
  <2>7. QED BY <1>1, <2>2, <2>3, <2>4, <2>5, <2>6, Takes
<1>4. QED BY <1>1, <1>2, <1>3

LEMMA CommitHolds ==
  ASSUME MoveInv, NEW c \in Conns, NEW o \in Ops, NEW delta \in {-1, 0, 1}, Commit(c, o, delta)
  PROVE  Holding!Next
<1>1. /\ MoveInv' /\ KeepsHands(moves, moves') /\ UNCHANGED room
      /\ UNCHANGED notes \/ PutsDown(o)
  BY CommitStep
<1>2. QED BY <1>1, QuietStep, NobodyTook, Puts

LEMMA MovesFreeHolds ==
  ASSUME MoveInv, MoveInv', KeepsHands(moves, moves'), MovesFree, room'.phase = room.phase
  PROVE  Holding!Next
<1>1. \A n \in Displaced : IsFree(moves, n)
  BY DEF Displaced, LiesAt, MovesFree
<1>2. QED BY <1>1, NobodyTook, MovesFreeNotes

LEMMA MoveOneHolds ==
  ASSUME MoveInv, MoveInv', NEW c \in Conns, NEW n \in NoteIds, NEW at \in Places,
         MoveOne(c, n, at)
  PROVE  Holding!Next
<1>1. KeepsHands(moves, moves') /\ UNCHANGED room
  BY MoveOneEnds, EndsKept DEF MoveOne, PlaceAndRegroup, KeepBoard
<1>2. CASE UNCHANGED notes
  BY <1>1, <1>2, QuietStep
<1>3. CASE /\ Expire(moves).lock[n] = None /\ ActiveDrags(Expire(moves), n) = {}
           /\ notes' = Placed(notes, [k \in {n} |-> at])
  <2>1. IsFree(moves, n)
    BY <1>3, ExpireKeeps DEF MoveInv
  <2>2. QED BY <1>1, <1>3, <2>1, OnePlaced, NobodyTook, MovesFreeNotes
<1>4. QED BY <1>2, <1>3 DEF MoveOne, PlaceAndRegroup, KeepBoard

LEMMA PublishHolds ==
  ASSUME MoveInv, MoveInv', NEW c \in Conns, NEW n \in NoteIds, NEW at \in Places,
         Publish(c, n, at)
  PROVE  Holding!Next
<1> DEFINE ns == Placed(notes, [k \in {n} |-> at])
<1>1. KeepsHands(moves, moves') /\ UNCHANGED room /\ ~notes[n].shared
  BY PublishEnds, EndsKept DEF Publish
<1>2. ns \in NoteTable /\ \A k \in NoteIds : k # n => ns[k] = notes[k]
  BY PlacedOK DEF MoveInv
<1>3. notes' = [ns EXCEPT ![n].shared = TRUE, ![n].vis = ns[n].vis + 1]
  BY DEF Publish
<1> HIDE DEF ns
<1>4. \A k \in NoteIds : k # n => notes'[k] = notes[k]
  BY <1>2, <1>3 DEF NoteTable
<1>5. Displaced \subseteq {n}
  BY <1>4 DEF Displaced, LiesAt
<1>6. QED BY <1>1, <1>5, NobodyTook, Appears

LEMMA UnpublishHolds ==
  ASSUME MoveInv, MoveInv', NEW c \in Conns, NEW n \in NoteIds, Unpublish(c, n)
  PROVE  Holding!Next
<1>1. KeepsHands(moves, moves') /\ UNCHANGED room
  BY UnpublishEnds, EndsKept DEF Unpublish
<1>2. \A k \in NoteIds : k # n => notes'[k] = notes[k]
  BY DEF Unpublish, MoveInv, NoteTable
<1>3. Displaced \subseteq {n}
  BY <1>2 DEF Displaced, LiesAt
<1>4. Expire(moves).lock[n] = None /\ ActiveDrags(Expire(moves), n) \subseteq {c}
  BY DEF Unpublish
<1>5. CASE ActiveDrags(Expire(moves), n) = {}
  <2>1. IsFree(moves, n)
    BY <1>4, <1>5, ExpireKeeps DEF MoveInv
  <2>2. QED BY <1>1, <1>3, <2>1, NobodyTook, MovesFreeNotes
<1>6. CASE ActiveDrags(Expire(moves), n) # {}
  <2>1. c \in ActiveDrags(moves, n)
    BY <1>4, <1>6, ExpireKeeps DEF MoveInv, ActiveDrags
  <2>2. QED BY <1>1, <1>3, <2>1, NobodyTook, Writes
<1>7. QED BY <1>5, <1>6

LEMMA DragHolds ==
  ASSUME MoveInv, MoveInv', NEW c \in Conns, NEW at \in Places, DragMove(c, at) \/ DragEnd(c, at)
  PROVE  Holding!Next
<1> DEFINE n == moves.conn[c].drag.note
<1>1. KeepsHands(moves, moves')
  BY DragMoveEnds, DragEndEnds, EndsKept
<1>2. /\ UNCHANGED room /\ Dragging(c)
      /\ UNCHANGED notes \/ notes' = Placed(notes, [k \in {n} |-> at])
  BY DEF DragMove, DragEnd, PlaceAndRegroup, KeepBoard
<1>3. CASE UNCHANGED notes
  BY <1>1, <1>2, <1>3, QuietStep
<1>4. CASE notes' = Placed(notes, [k \in {n} |-> at])
  <2>1. Displaced \subseteq {n}
    BY <1>4, OnePlaced
  <2>2. CASE n \notin NoteIds
    <3>1. Displaced = {}
      BY <2>1, <2>2 DEF Displaced
    <3>2. QED BY <1>1, <1>2, <3>1, NobodyTook, GivesBack
  <2>3. CASE n \in NoteIds
    <3>1. moves.conn[c].drag = [note |-> n, live |-> TRUE]
      BY <1>2 DEF Dragging, MoveInv, Tables, Shape, Attachments
    <3>2. c \in ActiveDrags(moves, n)
      BY <1>2, <3>1 DEF Dragging, ActiveDrags
    <3> HIDE DEF n
    <3>3. QED BY <1>1, <1>2, <2>1, <2>3, <3>2, NobodyTook, Writes
  <2>4. QED BY <2>2, <2>3
<1>5. QED BY <1>2, <1>3, <1>4

LEMMA MessageHolds ==
  ASSUME MoveInv, MoveInv', NEW c \in Conns, Message(c)
  PROVE  Holding!Next
<1>1. CASE \E o \in Ops : \E targets \in First(o, Selections), stale \in First(o, BOOLEAN) :
              Start(c, o, targets, stale)
  <2>1. PICK o \in Ops : \E targets \in First(o, Selections), stale \in First(o, BOOLEAN) :
               Start(c, o, targets, stale)
    BY <1>1
  <2>2. PICK targets \in First(o, Selections), stale \in First(o, BOOLEAN) :
               Start(c, o, targets, stale)
    BY <2>1
  <2>3. (IsNew(o) => targets \in Selections) /\ stale \in BOOLEAN
    BY <2>2, FirstIsBoolean DEF First
  <2>4. QED BY <2>2, <2>3, StartHolds
<1>2. CASE \E o \in {o \in Ops : ~IsNew(o)} : Preview(c, o) \/ Cancel(c, o) \/ Status(c, o)
  <2>1. PICK o \in Ops : Preview(c, o) \/ Cancel(c, o) \/ Status(c, o)
    BY <1>2
  <2>2. KeepsHands(moves, moves')
    BY <2>1, PreviewEnds, CancelEnds, StatusEnds, EndsKept
  <2>3. KeepBoard
    BY <2>1 DEF Preview, Cancel, Status
  <2>4. QED BY <2>2, <2>3, QuietStep DEF KeepBoard
<1>3. CASE \E o \in Ops : \E delta \in IF IsActive(moves.op[o]) THEN {-1, 0, 1} ELSE {0} :
              Commit(c, o, delta)
  BY <1>3, CommitHolds
<1>4. CASE \E o \in Ops : \E src \in IF IsNew(o) THEN Sources ELSE Sources \cap {o} :
           \E stale \in First(o, BOOLEAN) : TakeBack(c, o, src, stale)
  <2>1. PICK o \in Ops, src \in Ops, stale \in BOOLEAN : TakeBack(c, o, src, stale)
    BY <1>4, FirstIsBoolean DEF Sources
  <2>2. QED BY <2>1, TakeBackStep, MovesFreeHolds
<1>5. QED BY <1>1, <1>2, <1>3, <1>4 DEF Message

LEMMA OldMessageHolds ==
  ASSUME MoveInv, MoveInv', NEW c \in Conns, OldMessage(c)
  PROVE  Holding!Next
<1>1. CASE \E n \in NoteIds, at \in Places : MoveOne(c, n, at) \/ Publish(c, n, at)
  BY <1>1, MoveOneHolds, PublishHolds
<1>2. CASE \E n \in NoteIds : DragStart(c, n) \/ Unpublish(c, n)
  BY <1>2, DragStartHolds, UnpublishHolds
<1>3. CASE \E at \in Places : DragMove(c, at) \/ DragEnd(c, at)
  BY <1>3, DragHolds
<1>4. CASE \/ \E k \in DOMAIN ClustersOf(notes) : CreateGroup(c, ClustersOf(notes)[k])
           \/ \E k \in DOMAIN groups : RenameGroup(c, k)
  <2>1. KeepsHands(moves, moves')
    BY <1>4, GroupEnds, EndsKept
  <2>2. UNCHANGED <<notes, room>>
    BY <1>4 DEF CreateGroup, RenameGroup
  <2>3. QED BY <2>1, <2>2, QuietStep
<1>5. CASE CursorLeave(c) \/ Resize(c) \/ Adopt(c)
  <2>1. KeepsHands(moves, moves')
    BY <1>5, CursorLeaveEnds, ResizeEnds, AdoptEnds, EndsKept
  <2>2. UNCHANGED notes /\ room'.phase = room.phase
    BY <1>5 DEF CursorLeave, Resize, Adopt, KeepBoard, MoveInv, RoomOK
  <2>3. QED BY <2>1, <2>2, QuietStep
<1>6. QED BY <1>1, <1>2, <1>3, <1>4, <1>5 DEF OldMessage

LEMMA EventHolds ==
  ASSUME MoveInv, MoveInv', Event \/ Alarm
  PROVE  Holding!Next
<1>1. CASE NextStep \/ Rollback
  <2>1. Boundary(moves)
    BY <1>1 DEF NextStep, Rollback
  <2>2. room'.phase = room.phase + 1
    BY <1>1 DEF NextStep, Rollback, MoveInv, RoomOK
  <2>3. QED BY <2>1, <2>2, BoundaryEnds, Rewinds DEF EndsOnly
<1>2. CASE \/ Complete \/ Alarm
           \/ \E state \in {"running", "idle", "ended"} : SetTimer(state)
           \/ \E u \in Users : Leave(u)
           \/ \E c \in Conns, waiting \in BOOLEAN : SocketCloses(c, waiting)
           \/ \E o \in Ops : TimeEnds(o)
           \/ \E c \in Conns : DragLapses(c)
  <2>1. KeepsHands(moves, moves')
    BY <1>2, CompleteEnds, SetTimerEnds, LeaveEnds, SocketClosesEnds, TimeEndsEnds,
       DragLapsesEnds, AlarmEnds, EndsKept
  <2>2. UNCHANGED notes /\ room'.phase = room.phase
    <3>1. CASE Complete
      BY <3>1 DEF Complete, MoveInv, RoomOK
    <3>2. CASE \E u \in Users : Leave(u)
      BY Zenon, <3>2 DEF Leave, MoveInv, RoomOK
    <3>3. CASE \E state \in {"running", "idle", "ended"} : SetTimer(state)
      BY <3>3 DEF SetTimer, MoveInv, RoomOK
    <3>4. CASE \/ Alarm \/ \E c \in Conns, waiting \in BOOLEAN : SocketCloses(c, waiting)
               \/ \E o \in Ops : TimeEnds(o)
               \/ \E c \in Conns : DragLapses(c)
      BY <3>4 DEF Alarm, SocketCloses, TimeEnds, DragLapses, KeepBoard
    <3>5. QED BY <1>2, <3>1, <3>2, <3>3, <3>4
  <2>3. QED BY <2>1, <2>2, QuietStep
<1>3. QED BY <1>1, <1>2 DEF Event

LEMMA HoldingInit == Init => Holding!Init
<1> SUFFICES ASSUME Init PROVE Holding!Init
  OBVIOUS
<1>1. \A n \in NoteIds : HolderOf(n) = None
  BY DEF Init, HolderOf, ActiveDrags, NoDrag
<1>2. /\ {o \in Ops : moves.op[o].state = "accepted" /\ moves.op[o].of = None} = {}
      /\ {o \in Ops : IsActive(moves.op[o]) /\ moves.op[o].late} = {}
  BY DEF Init, Unused
<1>3. room.phase = 1
  BY DEF Init
<1>4. QED BY <1>1, <1>2, <1>3 DEF Holding!Init

\* Moves, drags, one-note moves, undo, sharing and rollback together keep what
\* NoteHolding promises: whoever holds notes holds them together, and a note
\* changes its place in the hands of its holder only, or while nobody holds it.
THEOREM MovesKeepHolding == Spec => HoldingSpec
<1>1. MoveInv /\ MoveInv' /\ [Next]_vars => [Holding!Next]_Holding!vars
  <2> SUFFICES ASSUME MoveInv, MoveInv', [Next]_vars PROVE [Holding!Next]_Holding!vars
    OBVIOUS
  <2>1. CASE Next
    BY <2>1, MessageHolds, OldMessageHolds, EventHolds DEF Next
  <2>2. CASE UNCHANGED vars
    <3>1. UNCHANGED Holding!vars
      BY <2>2 DEF vars, Holding!vars, HolderOf, ActiveDrags
    <3>2. QED BY <3>1
  <2>3. QED BY <2>1, <2>2
<1>2. QED BY MoveInvariant, HoldingInit, <1>1, PTL DEF Spec, HoldingSpec, Holding!Spec
-----------------------------------------------------------------------------
(* Lists and groups: what the loops of Grouping make.  A loop is a function  *)
(* of the number of elements seen; CountUp and LoopStays stand for the       *)
(* induction over it.                                                        *)

LEMMA OneAppended ==
  ASSUME NEW T, NEW s \in Seq(T), NEW x \in T
  PROVE  Append(s, x) \in Seq(T) /\ ToSet(Append(s, x)) = ToSet(s) \cup {x}
<1> DEFINE w == Append(s, x)
<1>1. /\ w \in Seq(T) /\ Len(s) \in Nat /\ DOMAIN s = 1..Len(s)
      /\ DOMAIN w = 1..(Len(s) + 1) /\ w[Len(s) + 1] = x
      /\ \A k \in 1..Len(s) : w[k] = s[k]
  OBVIOUS
<1> HIDE DEF w
<1>2. QED BY <1>1 DEF ToSet, w

LEMMA RowsFinite ==
  ASSUME NEW T, NEW s \in Seq(T)
  PROVE  IsFiniteSet(ToSet(s)) /\ ToSet(s) \subseteq T
<1>1. Len(s) \in Nat /\ DOMAIN s = 1..Len(s) /\ \A i \in 1..Len(s) : s[i] \in T
  OBVIOUS
<1>2. s \in Surjection(1..Len(s), ToSet(s))
  BY <1>1 DEF Surjection, ToSet
<1>3. IsFiniteSet(1..Len(s))
  BY <1>1, FS_Interval
<1>4. IsFiniteSet(ToSet(s))
  BY <1>2, <1>3, FS_Surjection
<1>5. QED BY <1>1, <1>4 DEF ToSet

LEMMA JoinedRows ==
  ASSUME NEW T, NEW s \in Seq(T), NEW t \in Seq(T)
  PROVE  s \o t \in Seq(T) /\ ToSet(s \o t) = ToSet(s) \cup ToSet(t)
<1>1. /\ s \o t \in Seq(T) /\ Len(s \o t) = Len(s) + Len(t)
      /\ \A i \in 1..(Len(s) + Len(t)) :
           (s \o t)[i] = IF i <= Len(s) THEN s[i] ELSE t[i - Len(s)]
  OBVIOUS
<1>2. Len(s) \in Nat /\ Len(t) \in Nat /\ DOMAIN s = 1..Len(s) /\ DOMAIN t = 1..Len(t)
      /\ DOMAIN (s \o t) = 1..(Len(s) + Len(t))
  BY <1>1
<1> DEFINE w == s \o t
<1> HIDE DEF w
<1>3. \A i \in DOMAIN s : i \in DOMAIN w /\ w[i] = s[i]
  BY <1>1, <1>2 DEF w
<1>4. \A i \in DOMAIN t : i + Len(s) \in DOMAIN w /\ w[i + Len(s)] = t[i]
  BY <1>1, <1>2 DEF w
<1>5. \A i \in DOMAIN w : w[i] \in {s[k] : k \in DOMAIN s} \cup {t[k] : k \in DOMAIN t}
  <2> SUFFICES ASSUME NEW i \in DOMAIN w
               PROVE w[i] \in {s[k] : k \in DOMAIN s} \cup {t[k] : k \in DOMAIN t}
    OBVIOUS
  <2>1. CASE i <= Len(s)
    BY <1>1, <1>2, <2>1 DEF w
  <2>2. CASE ~(i <= Len(s))
    <3>1. i - Len(s) \in DOMAIN t /\ w[i] = t[i - Len(s)]
      BY <1>1, <1>2, <2>2 DEF w
    <3>2. QED BY <3>1
  <2>3. QED BY <2>1, <2>2
<1>6. ToSet(w) = ToSet(s) \cup ToSet(t)
  BY <1>3, <1>4, <1>5 DEF ToSet
<1>7. QED BY <1>1, <1>6 DEF w

\* Counting up to n.
LEMMA CountUp ==
  ASSUME NEW n \in Nat, NEW Good, 0 \in Good, \A k \in 1..n : k - 1 \in Good => k \in Good
  PROVE  0..n \subseteq Good
<1> DEFINE Bad == (0..n) \ Good
<1>1. SUFFICES ASSUME Bad # {} PROVE FALSE
  OBVIOUS
<1>2. PICK m \in Bad : \A y \in Bad : m <= y
  <2>1. Bad \subseteq Nat
    OBVIOUS
  <2> HIDE DEF Bad
  <2>2. QED BY <1>1, <2>1, Least
<1>3. m \in 1..n /\ m - 1 \in 0..n /\ ~(m <= m - 1)
  BY <1>2
<1>4. m - 1 \in Good
  BY <1>2, <1>3
<1>5. QED BY <1>2, <1>3, <1>4

\* A loop over n elements: `step` takes the result so far and the next position.
LoopOf(f, base, step, n) ==
  f = [k \in 0..n |-> IF k = 0 THEN base ELSE step[<<f[k - 1], k>>]]

LEMMA LoopExists ==
  ASSUME NEW n \in Nat, NEW base, NEW step
  PROVE  \E f : LoopOf(f, base, step, n)
<1> DEFINE Good == {m \in Nat : \E f : LoopOf(f, base, step, m)}
<1>1. 0 \in Good
  <2>1. LoopOf([k \in 0..0 |-> base], base, step, 0)
    BY DEF LoopOf
  <2>2. QED BY <2>1
<1>2. ASSUME NEW m \in 1..n, m - 1 \in Good PROVE m \in Good
  <2>1. PICK f : LoopOf(f, base, step, m - 1)
    BY <1>2
  <2> DEFINE h == [k \in 0..m |-> IF k = m THEN step[<<f[m - 1], m>>] ELSE f[k]]
  <2>2. ASSUME NEW k \in 0..m
        PROVE  h[k] = IF k = 0 THEN base ELSE step[<<h[k - 1], k>>]
    <3>1. CASE k = m
      <4>1. h[k] = step[<<f[m - 1], m>>] /\ h[m - 1] = f[m - 1] /\ k # 0
        BY <3>1
      <4> HIDE DEF h
      <4>2. QED BY <3>1, <4>1
    <3>2. CASE k # m
      <4>1. k \in 0..(m - 1) /\ h[k] = f[k] /\ (k # 0 => h[k - 1] = f[k - 1])
        BY <3>2
      <4> HIDE DEF h
      <4>2. f[k] = IF k = 0 THEN base ELSE step[<<f[k - 1], k>>]
        BY <2>1, <4>1 DEF LoopOf
      <4>3. QED BY <4>1, <4>2
    <3>3. QED BY <3>1, <3>2
  <2>3. h = [k \in 0..m |-> h[k]]
    OBVIOUS
  <2> HIDE DEF h
  <2>4. LoopOf(h, base, step, m)
    BY <2>2, <2>3 DEF LoopOf
  <2>5. QED BY <2>4
<1> HIDE DEF Good
<1>3. n \in Good
  BY <1>1, <1>2, CountUp
<1>4. QED BY <1>3 DEF Good

\* A loop whose turns stay in D.
LEMMA LoopStays ==
  ASSUME NEW n \in Nat, NEW D, NEW base \in D, NEW step \in [D \X (1..n) -> D]
  PROVE  \E f \in [0..n -> D] : LoopOf(f, base, step, n)
<1>1. PICK f : LoopOf(f, base, step, n)
  BY LoopExists
<1>2. f = [k \in 0..n |-> f[k]]
  BY <1>1 DEF LoopOf
<1>3. f[0] = base /\ \A k \in 1..n : f[k] = step[<<f[k - 1], k>>]
  BY <1>1 DEF LoopOf
<1> DEFINE Good == {k \in 0..n : f[k] \in D}
<1>4. 0 \in Good /\ \A k \in 1..n : k - 1 \in Good => k \in Good
  <2>1. 0 \in Good
    BY <1>3
  <2>2. ASSUME NEW k \in 1..n, k - 1 \in Good PROVE k \in Good
    <3>1. <<f[k - 1], k>> \in D \X (1..n)
      BY <2>2
    <3>2. step[<<f[k - 1], k>>] \in D
      BY <3>1
    <3>3. QED BY <1>3, <3>2
  <2>3. QED BY <2>1, <2>2
<1> HIDE DEF Good
<1>5. 0..n \subseteq Good
  BY <1>4, CountUp
<1>6. f \in [0..n -> D]
  BY <1>2, <1>5 DEF Good
<1>7. QED BY <1>1, <1>6


\* Among the rows only the identifiers in Z occur twice.
Keyed(rows, Z) ==
  \A i, k \in DOMAIN rows : rows[i].id = rows[k].id => i = k \/ rows[i].id \in Z

LEMMA KeyedAppend ==
  ASSUME NEW T, NEW s \in Seq(T), NEW x \in T, NEW Z, Keyed(s, Z),
         x.id \in IdsOf(s) => x.id \in Z
  PROVE  Keyed(Append(s, x), Z) /\ IdsOf(Append(s, x)) = IdsOf(s) \cup {x.id}
<1> DEFINE w == Append(s, x)
<1>1. /\ w \in Seq(T) /\ Len(s) \in Nat /\ DOMAIN s = 1..Len(s)
      /\ DOMAIN w = 1..(Len(s) + 1) /\ w[Len(s) + 1] = x
      /\ \A k \in 1..Len(s) : w[k] = s[k]
  OBVIOUS
<1> HIDE DEF w
<1>2. ASSUME NEW i \in DOMAIN w, NEW k \in DOMAIN w, w[i].id = w[k].id
      PROVE  i = k \/ w[i].id \in Z
  <2>1. CASE i \in 1..Len(s) /\ k \in 1..Len(s)
    BY <1>1, <1>2, <2>1 DEF Keyed
  <2>2. CASE i = Len(s) + 1 \/ k = Len(s) + 1
    <3>1. CASE i = k
      BY <3>1
    <3>2. CASE i # k
      <4>1. x.id \in IdsOf(s)
        BY <1>1, <1>2, <2>2, <3>2 DEF IdsOf
      <4>2. w[i].id = x.id
        BY <1>1, <1>2, <2>2
      <4>3. QED BY <4>1, <4>2
    <3>3. QED BY <3>1, <3>2
  <2>3. QED BY <1>1, <2>1, <2>2
<1>3. IdsOf(w) = IdsOf(s) \cup {x.id}
  BY <1>1 DEF IdsOf
<1>4. QED BY <1>2, <1>3 DEF Keyed, w

LEMMA ThoseAre ==
  ASSUME NEW T, NEW list \in Seq(T), NEW set
  PROVE  /\ Those(list, set) \in Seq(T)
         /\ ToSet(Those(list, set)) = ToSet(list) \cap set
         /\ \A Z : Keyed(list, Z) => Keyed(Those(list, set), Z)
<1> DEFINE n == Len(list)
           Turn(g, k) == IF k = 0 THEN << >>
                         ELSE IF list[k] \in set THEN Append(g[k - 1], list[k]) ELSE g[k - 1]
           f == CHOOSE g : g = [k \in 0..n |-> Turn(g, k)]
           step == [p \in Seq(T) \X (1..n) |->
                      IF list[p[2]] \in set THEN Append(p[1], list[p[2]]) ELSE p[1]]
<1>1. n \in Nat /\ DOMAIN list = 1..n /\ \A k \in 1..n : list[k] \in T
  OBVIOUS
<1>2. Those(list, set) = f[n]
  BY DEF Those
<1>3. \E g : g = [k \in 0..n |-> Turn(g, k)]
  <2>1. step \in [Seq(T) \X (1..n) -> Seq(T)]
    BY <1>1
  <2>2. << >> \in Seq(T)
    OBVIOUS
  <2> HIDE DEF step, n
  <2>3. PICK g \in [0..n -> Seq(T)] : LoopOf(g, << >>, step, n)
    BY <1>1, <2>1, <2>2, LoopStays
  <2>4. ASSUME NEW k \in 0..n
        PROVE  (IF k = 0 THEN << >> ELSE step[<<g[k - 1], k>>]) = Turn(g, k)
    <3>1. CASE k = 0
      BY <3>1
    <3>2. CASE k # 0
      <4>1. <<g[k - 1], k>> \in Seq(T) \X (1..n)
        BY <1>1, <3>2
      <4>2. QED BY <3>2, <4>1 DEF step
    <3>3. QED BY <3>1, <3>2
  <2> HIDE DEF Turn
  <2>5. g = [k \in 0..n |-> Turn(g, k)]
    BY <2>3, <2>4 DEF LoopOf
  <2>6. QED BY <2>5
<1>4. f = [k \in 0..n |-> Turn(f, k)]
  BY <1>3
<1> HIDE DEF f, step
<1>5. \A k \in 0..n : f[k] = Turn(f, k)
  BY <1>4
<1> DEFINE Taken(k) == {list[i] : i \in {j \in 1..k : list[j] \in set}}
           Good == {k \in 0..n : /\ f[k] \in Seq(T) /\ ToSet(f[k]) = Taken(k)
                                 /\ \A Z : Keyed(list, Z) => Keyed(f[k], Z)}
<1>6. 0 \in Good
  <2>1. f[0] = << >> /\ 1..0 = {} /\ 0 \in 0..n
    BY <1>1, <1>5
  <2>2. \A Z : Keyed(f[0], Z)
    BY <2>1 DEF Keyed
  <2>3. f[0] \in Seq(T) /\ ToSet(f[0]) = {} /\ Taken(0) = {}
    BY <2>1 DEF ToSet
  <2> HIDE DEF Taken
  <2>4. QED BY <2>1, <2>2, <2>3
<1>7. ASSUME NEW k \in 1..n, k - 1 \in Good PROVE k \in Good
  <2>1. k \in 0..n /\ k # 0 /\ 1..k = 1..(k - 1) \cup {k} /\ list[k] \in T
    BY <1>1
  <2>2. /\ f[k - 1] \in Seq(T) /\ ToSet(f[k - 1]) = Taken(k - 1)
        /\ \A Z : Keyed(list, Z) => Keyed(f[k - 1], Z)
    BY <1>7
  <2>3. CASE list[k] \notin set
    <3>1. f[k] = f[k - 1]
      BY <1>5, <2>1, <2>3
    <3>2. Taken(k) = Taken(k - 1)
      BY <2>1, <2>3
    <3> HIDE DEF Taken
    <3>3. QED BY <2>1, <2>2, <3>1, <3>2
  <2>4. CASE list[k] \in set
    <3>1. f[k] = Append(f[k - 1], list[k])
      BY <1>5, <2>1, <2>4
    <3>2. Taken(k) = Taken(k - 1) \cup {list[k]}
      BY <2>1, <2>4
    <3> HIDE DEF Taken
    <3>3. f[k] \in Seq(T) /\ ToSet(f[k]) = Taken(k)
      BY <2>1, <2>2, <3>1, <3>2, OneAppended
    <3>4. ASSUME NEW Z, Keyed(list, Z) PROVE Keyed(f[k], Z)
      <4>1. ASSUME list[k].id \in IdsOf(f[k - 1]) PROVE list[k].id \in Z
        <5>1. PICK x \in ToSet(f[k - 1]) : x.id = list[k].id
          BY <4>1 DEF IdsOf, ToSet
        <5>2. PICK i \in 1..(k - 1) : x = list[i]
          BY <2>2, <5>1 DEF Taken
        <5>3. i \in DOMAIN list /\ k \in DOMAIN list /\ i # k
          BY <1>1, <1>7
        <5>4. QED BY <3>4, <5>1, <5>2, <5>3 DEF Keyed
      <4>2. Keyed(f[k - 1], Z)
        BY <2>2, <3>4
      <4>3. QED BY <2>1, <2>2, <3>1, <4>1, <4>2, KeyedAppend
    <3>5. QED BY <2>1, <3>3, <3>4
  <2>5. QED BY <2>3, <2>4
<1>8. n \in Good
  <2> HIDE DEF Good, n
  <2>1. 0..n \subseteq Good
    BY <1>1, <1>6, <1>7, CountUp
  <2>2. QED BY <1>1, <2>1
<1>9. Taken(n) = ToSet(list) \cap set
  BY <1>1 DEF ToSet
<1> HIDE DEF Taken, n
<1>10. QED BY <1>2, <1>8, <1>9

Walks(T) == [stack : Seq(T), visited : SUBSET T, cluster : Seq(T)]

LEMMA VisitStays ==
  ASSUME NEW T, NEW list \in Seq(T), NEW near, NEW walk \in Walks(T)
  PROVE  Visit(list, near, walk) \in Walks(T)
<1> DEFINE note == Last(walk.stack)
           next == Those(list, near[note] \ walk.visited)
<1>1. walk.stack \in Seq(T) /\ walk.visited \in SUBSET T /\ walk.cluster \in Seq(T)
  BY DEF Walks
<1>2. CASE walk.stack = << >>
  BY <1>2 DEF Visit
<1>3. CASE walk.stack # << >>
  <2>1. Len(walk.stack) \in Nat /\ Len(walk.stack) > 0
    BY <1>1, <1>3
  <2>2. note \in T /\ Front(walk.stack) \in Seq(T)
    BY <1>1, <2>1 DEF Last, Front
  <2>3. next \in Seq(T) /\ NotesOf(next) \subseteq T
    BY ThoseAre, RowsFinite DEF NotesOf
  <2>4. Visit(list, near, walk) = [stack   |-> Front(walk.stack) \o next,
                                   visited |-> walk.visited \cup NotesOf(next),
                                   cluster |-> Append(walk.cluster, note)]
    BY <1>3 DEF Visit
  <2> HIDE DEF note, next
  <2>5. /\ Front(walk.stack) \o next \in Seq(T) /\ walk.visited \cup NotesOf(next) \in SUBSET T
        /\ Append(walk.cluster, note) \in Seq(T)
    BY <1>1, <2>2, <2>3
  <2>6. QED BY <2>4, <2>5 DEF Walks
<1>4. QED BY <1>2, <1>3

LEMMA ClusterStays ==
  ASSUME NEW T, NEW list \in Seq(T), NEW near, NEW first \in T
  PROVE  Cluster(list, near, first) \in Seq(T)
<1> DEFINE n == Len(list)
           base == [stack |-> <<first>>, visited |-> {first}, cluster |-> << >>]
           Turn(g, k) == IF k = 0 THEN base ELSE Visit(list, near, g[k - 1])
           f == CHOOSE g : g = [k \in 0..n |-> Turn(g, k)]
           step == [p \in Walks(T) \X (1..n) |-> Visit(list, near, p[1])]
<1>1. n \in Nat
  OBVIOUS
<1>2. Cluster(list, near, first) = f[n].cluster
  BY DEF Cluster
<1>3. base \in Walks(T)
  BY DEF Walks
<1> HIDE DEF n, base
<1>4. \E g : g = [k \in 0..n |-> Turn(g, k)]
  <2>1. step \in [Walks(T) \X (1..n) -> Walks(T)]
    BY VisitStays
  <2> HIDE DEF step
  <2>2. PICK g \in [0..n -> Walks(T)] : LoopOf(g, base, step, n)
    BY <1>1, <1>3, <2>1, LoopStays
  <2>3. ASSUME NEW k \in 0..n
        PROVE  (IF k = 0 THEN base ELSE step[<<g[k - 1], k>>]) = Turn(g, k)
    <3>1. CASE k = 0
      BY <3>1
    <3>2. CASE k # 0
      <4>1. <<g[k - 1], k>> \in Walks(T) \X (1..n)
        BY <1>1, <3>2
      <4>2. QED BY <3>2, <4>1 DEF step
    <3>3. QED BY <3>1, <3>2
  <2> HIDE DEF Turn
  <2>4. g = [k \in 0..n |-> Turn(g, k)]
    BY <2>2, <2>3 DEF LoopOf
  <2>5. QED BY <2>4
<1>5. f = [k \in 0..n |-> Turn(f, k)]
  BY <1>4
<1> HIDE DEF f, step
<1>6. \A k \in 0..n : f[k] = Turn(f, k)
  BY <1>5
<1> DEFINE Good == {k \in 0..n : f[k] \in Walks(T)}
<1>7. 0 \in Good
  <2>1. 0 \in 0..n
    BY <1>1
  <2>2. f[0] = base
    BY <1>6, <2>1
  <2>3. QED BY <1>3, <2>1, <2>2
<1>8. ASSUME NEW k \in 1..n, k - 1 \in Good PROVE k \in Good
  <2>1. k \in 0..n /\ k # 0 /\ f[k - 1] \in Walks(T)
    BY <1>1, <1>8
  <2>2. f[k] = Visit(list, near, f[k - 1])
    BY <1>6, <2>1
  <2>3. QED BY <2>1, <2>2, VisitStays
<1>9. n \in Good
  <2> HIDE DEF Good
  <2>1. 0..n \subseteq Good
    BY <1>1, <1>7, <1>8, CountUp
  <2>2. QED BY <1>1, <2>1
<1>10. QED BY <1>2, <1>9 DEF Walks

LEMMA ClustersStay ==
  ASSUME NEW T, NEW list \in Seq(T), NEW near
  PROVE  Clusters(list, near) \in Seq(Seq(T))
<1> DEFINE n == Len(list)
           D == Seq(Seq(T))
           Turn(g, k) == IF k = 0 THEN << >> ELSE AddCluster(list, near, g[k - 1], list[k])
           f == CHOOSE g : g = [k \in 0..n |-> Turn(g, k)]
           step == [p \in D \X (1..n) |-> AddCluster(list, near, p[1], list[p[2]])]
<1>1. n \in Nat /\ \A k \in 1..n : list[k] \in T
  OBVIOUS
<1>2. Clusters(list, near) = f[n]
  BY DEF Clusters
<1>3. << >> \in D
  OBVIOUS
<1>4. ASSUME NEW s \in D, NEW k \in 1..n PROVE AddCluster(list, near, s, list[k]) \in D
  <2>1. Cluster(list, near, list[k]) \in Seq(T)
    BY <1>1, ClusterStays
  <2>2. Append(s, Cluster(list, near, list[k])) \in D
    BY <2>1
  <2>3. QED BY <2>2 DEF AddCluster
<1> HIDE DEF n, D
<1>5. \E g : g = [k \in 0..n |-> Turn(g, k)]
  <2>1. step \in [D \X (1..n) -> D]
    BY <1>4
  <2> HIDE DEF step
  <2>2. PICK g \in [0..n -> D] : LoopOf(g, << >>, step, n)
    BY <1>1, <1>3, <2>1, LoopStays
  <2>3. ASSUME NEW k \in 0..n
        PROVE  (IF k = 0 THEN << >> ELSE step[<<g[k - 1], k>>]) = Turn(g, k)
    <3>1. CASE k = 0
      BY <3>1
    <3>2. CASE k # 0
      <4>1. <<g[k - 1], k>> \in D \X (1..n)
        BY <1>1, <3>2
      <4>2. QED BY <3>2, <4>1 DEF step
    <3>3. QED BY <3>1, <3>2
  <2> HIDE DEF Turn
  <2>4. g = [k \in 0..n |-> Turn(g, k)]
    BY <2>2, <2>3 DEF LoopOf
  <2>5. QED BY <2>4
<1>6. f = [k \in 0..n |-> Turn(f, k)]
  BY <1>5
<1> HIDE DEF f, step
<1>7. \A k \in 0..n : f[k] = Turn(f, k)
  BY <1>6
<1> DEFINE Good == {k \in 0..n : f[k] \in D}
<1>8. 0 \in Good
  <2>1. 0 \in 0..n
    BY <1>1
  <2>2. f[0] = << >>
    BY <1>7, <2>1
  <2>3. QED BY <1>3, <2>1, <2>2
<1>9. ASSUME NEW k \in 1..n, k - 1 \in Good PROVE k \in Good
  <2>1. k \in 0..n /\ k # 0 /\ f[k - 1] \in D
    BY <1>1, <1>9
  <2>2. f[k] = AddCluster(list, near, f[k - 1], list[k])
    BY <1>7, <2>1
  <2>3. QED BY <1>4, <2>1, <2>2
<1>10. n \in Good
  <2> HIDE DEF Good
  <2>1. 0..n \subseteq Good
    BY <1>1, <1>8, <1>9, CountUp
  <2>2. QED BY <1>1, <2>1
<1>11. QED BY <1>2, <1>10 DEF D

LEMMA PreviousIs ==
  ASSUME NEW table, DOMAIN table \subseteq Nat, NEW note
  PROVE  PreviousGroup(table, note) \in DOMAIN table \cup {0}
<1> DEFINE named == {g \in DOMAIN table : note \in NotesOf(table[g].notes)}
<1>1. CASE named = {}
  BY <1>1 DEF PreviousGroup
<1>2. CASE named # {}
  <2>1. named \subseteq Nat /\ named \subseteq DOMAIN table
    OBVIOUS
  <2>2. PreviousGroup(table, note) = CHOOSE g \in named : \A h \in named : g <= h
    BY <1>2 DEF PreviousGroup
  <2> HIDE DEF named
  <2>3. \E g \in named : \A h \in named : g <= h
    BY <1>2, <2>1, Least
  <2>4. PreviousGroup(table, note) \in named
    BY <2>2, <2>3
  <2>5. QED BY <2>1, <2>4
<1>3. QED BY <1>1, <1>2

LEMMA PresentStay ==
  ASSUME NEW table, DOMAIN table \subseteq Nat, NEW T, NEW cluster \in Seq(T)
  PROVE  PresentGroups(table, cluster) \in Seq(DOMAIN table)
<1> DEFINE n == Len(cluster)
           D == Seq(DOMAIN table)
           Turn(g, k) == IF k = 0 THEN << >> ELSE AddOrigin(table, g[k - 1], cluster[k])
           f == CHOOSE g : g = [k \in 0..n |-> Turn(g, k)]
           step == [p \in D \X (1..n) |-> AddOrigin(table, p[1], cluster[p[2]])]
<1>1. n \in Nat
  OBVIOUS
<1>2. PresentGroups(table, cluster) = f[n]
  BY DEF PresentGroups
<1>3. << >> \in D
  OBVIOUS
<1>4. ASSUME NEW s \in D, NEW k \in 1..n PROVE AddOrigin(table, s, cluster[k]) \in D
  <2> DEFINE g == PreviousGroup(table, cluster[k])
  <2>1. g \in DOMAIN table \cup {0}
    BY PreviousIs
  <2>2. AddOrigin(table, s, cluster[k]) = IF g = 0 \/ g \in ToSet(s) THEN s ELSE Append(s, g)
    BY DEF AddOrigin
  <2> HIDE DEF g
  <2>3. CASE g = 0 \/ g \in ToSet(s)
    BY <2>2, <2>3
  <2>4. CASE g # 0 /\ g \notin ToSet(s)
    <3> DEFINE S == DOMAIN table
    <3>1. s \in Seq(S) /\ g \in S
      BY <2>1, <2>4
    <3> HIDE DEF S
    <3>2. Append(s, g) \in Seq(S)
      BY <3>1
    <3>3. QED BY <2>2, <2>4, <3>2 DEF S
  <2>5. QED BY <2>3, <2>4
<1> HIDE DEF n, D
<1>5. \E g : g = [k \in 0..n |-> Turn(g, k)]
  <2>1. step \in [D \X (1..n) -> D]
    BY <1>4
  <2> HIDE DEF step
  <2>2. PICK g \in [0..n -> D] : LoopOf(g, << >>, step, n)
    BY <1>1, <1>3, <2>1, LoopStays
  <2>3. ASSUME NEW k \in 0..n
        PROVE  (IF k = 0 THEN << >> ELSE step[<<g[k - 1], k>>]) = Turn(g, k)
    <3>1. CASE k = 0
      BY <3>1
    <3>2. CASE k # 0
      <4>1. <<g[k - 1], k>> \in D \X (1..n)
        BY <1>1, <3>2
      <4>2. QED BY <3>2, <4>1 DEF step
    <3>3. QED BY <3>1, <3>2
  <2> HIDE DEF Turn
  <2>4. g = [k \in 0..n |-> Turn(g, k)]
    BY <2>2, <2>3 DEF LoopOf
  <2>5. QED BY <2>4
<1>6. f = [k \in 0..n |-> Turn(f, k)]
  BY <1>5
<1> HIDE DEF f, step
<1>7. \A k \in 0..n : f[k] = Turn(f, k)
  BY <1>6
<1> DEFINE Good == {k \in 0..n : f[k] \in D}
<1>8. 0 \in Good
  <2>1. 0 \in 0..n
    BY <1>1
  <2>2. f[0] = << >>
    BY <1>7, <2>1
  <2>3. QED BY <1>3, <2>1, <2>2
<1>9. ASSUME NEW k \in 1..n, k - 1 \in Good PROVE k \in Good
  <2>1. k \in 0..n /\ k # 0 /\ f[k - 1] \in D
    BY <1>1, <1>9
  <2>2. f[k] = AddOrigin(table, f[k - 1], cluster[k])
    BY <1>7, <2>1
  <2>3. QED BY <1>4, <2>1, <2>2
<1>10. n \in Good
  <2> HIDE DEF Good
  <2>1. 0..n \subseteq Good
    BY <1>1, <1>8, <1>9, CountUp
  <2>2. QED BY <1>1, <2>1
<1>11. QED BY <1>2, <1>10 DEF D

LEMMA NewIdIs ==
  ASSUME NEW fresh, fresh \subseteq Nat, NEW used
  PROVE  NewId(fresh, used) = 0 \/ NewId(fresh, used) \in fresh \ used
<1> DEFINE free == fresh \ used
<1>1. CASE fresh \subseteq used
  BY <1>1 DEF NewId
<1>2. CASE ~(fresh \subseteq used)
  <2>1. NewId(fresh, used) = CHOOSE i \in free : \A k \in free : i <= k
    BY <1>2 DEF NewId
  <2>2. free \subseteq Nat /\ free # {}
    BY <1>2
  <2> HIDE DEF free
  <2>3. \E i \in free : \A k \in free : i <= k
    BY <2>2, Least
  <2>4. NewId(fresh, used) \in free
    BY <2>1, <2>3
  <2>5. QED BY <2>4 DEF free
<1>3. QED BY <1>1, <1>2

\* Rows with identifiers in I of notes in T, and the lists of them in the making:
\* only the missing identifier occurs twice.
RowsOf(I, T) == [id : I, name : GroupNames, notes : Seq(T)]
Draft(I, T) == {s \in Seq(RowsOf(I \cup {0}, T)) : Keyed(s, {0})}

LEMMA DraftGrows ==
  ASSUME NEW I, NEW T, NEW s \in Draft(I, T), NEW x \in RowsOf(I \cup {0}, T),
         x.id \in IdsOf(s) => x.id = 0
  PROVE  Append(s, x) \in Draft(I, T)
<1>1. s \in Seq(RowsOf(I \cup {0}, T)) /\ Keyed(s, {0})
  BY DEF Draft
<1> DEFINE R == RowsOf(I \cup {0}, T)
<1> HIDE DEF R
<1>2. Keyed(Append(s, x), {0})
  BY <1>1, KeyedAppend DEF R
<1>3. Append(s, x) \in Seq(R)
  BY <1>1 DEF R
<1>4. QED BY <1>2, <1>3 DEF Draft, R

LEMMA PartStays ==
  ASSUME NEW I, I \subseteq Nat, NEW T, NEW table \in Seq(RowsOf(I, T)),
         NEW fresh, fresh \subseteq I, NEW cluster \in Seq(T), NEW result \in Draft(I, T),
         NEW g \in DOMAIN table
  PROVE  AddPart(table, fresh, cluster, result, g) \in Draft(I, T)
<1> DEFINE kept == Kept(table, cluster, g)
           used == IdsOf(result)
           id == IF table[g].id \in used THEN NewId(fresh, used) ELSE table[g].id
           x == [table[g] EXCEPT !.notes = kept, !.id = id]
<1>1. kept \in Seq(T)
  BY ThoseAre DEF Kept
<1>2. table[g] \in RowsOf(I, T)
  OBVIOUS
<1>3. NewId(fresh, used) = 0 \/ NewId(fresh, used) \in fresh \ used
  BY NewIdIs
<1>4. id \in I \cup {0} /\ (id \in used => id = 0)
  BY <1>2, <1>3 DEF RowsOf
<1>5. AddPart(table, fresh, cluster, result, g)
        = IF Len(kept) < 2 THEN result ELSE Append(result, x)
  BY DEF AddPart
<1> HIDE DEF kept, used, id
<1>6. x \in RowsOf(I \cup {0}, T) /\ x.id = id
  BY <1>1, <1>2, <1>4 DEF RowsOf
<1> HIDE DEF x
<1>7. Append(result, x) \in Draft(I, T)
  BY <1>4, <1>6, DraftGrows DEF used
<1>8. QED BY <1>5, <1>7

LEMMA PartsStay ==
  ASSUME NEW I, I \subseteq Nat, NEW T, NEW table \in Seq(RowsOf(I, T)),
         NEW fresh, fresh \subseteq I, NEW cluster \in Seq(T), NEW result \in Draft(I, T)
  PROVE  AddParts(table, fresh, result, cluster) \in Draft(I, T)
<1> DEFINE present == PresentGroups(table, cluster)
           n == Len(present)
           D == Draft(I, T)
           Turn(g, k) == IF k = 0 THEN result
                         ELSE AddPart(table, fresh, cluster, g[k - 1], present[k])
           f == CHOOSE g : g = [k \in 0..n |-> Turn(g, k)]
           step == [p \in D \X (1..n) |-> AddPart(table, fresh, cluster, p[1], present[p[2]])]
<1>1. AddParts(table, fresh, result, cluster) = f[n]
  BY DEF AddParts
<1>2. present \in Seq(DOMAIN table)
  <2>1. DOMAIN table \subseteq Nat
    OBVIOUS
  <2>2. QED BY <2>1, PresentStay
<1> HIDE DEF present
<1>3. n \in Nat /\ \A k \in 1..n : present[k] \in DOMAIN table
  BY <1>2
<1>4. ASSUME NEW s \in D, NEW k \in 1..n
      PROVE  AddPart(table, fresh, cluster, s, present[k]) \in D
  BY <1>3, PartStays
<1> HIDE DEF n, D
<1>5. \E g : g = [k \in 0..n |-> Turn(g, k)]
  <2>1. step \in [D \X (1..n) -> D] /\ result \in D
    BY <1>4 DEF D
  <2> HIDE DEF step
  <2>2. PICK g \in [0..n -> D] : LoopOf(g, result, step, n)
    BY <1>3, <2>1, LoopStays
  <2>3. ASSUME NEW k \in 0..n
        PROVE  (IF k = 0 THEN result ELSE step[<<g[k - 1], k>>]) = Turn(g, k)
    <3>1. CASE k = 0
      BY <3>1
    <3>2. CASE k # 0
      <4>1. <<g[k - 1], k>> \in D \X (1..n)
        BY <1>3, <3>2
      <4>2. QED BY <3>2, <4>1 DEF step
    <3>3. QED BY <3>1, <3>2
  <2> HIDE DEF Turn
  <2>4. g = [k \in 0..n |-> Turn(g, k)]
    BY <2>2, <2>3 DEF LoopOf
  <2>5. QED BY <2>4
<1>6. f = [k \in 0..n |-> Turn(f, k)]
  BY <1>5
<1> HIDE DEF f, step
<1>7. \A k \in 0..n : f[k] = Turn(f, k)
  BY <1>6
<1> DEFINE Good == {k \in 0..n : f[k] \in D}
<1>8. 0 \in Good
  <2>1. 0 \in 0..n
    BY <1>3
  <2>2. f[0] = result
    BY <1>7, <2>1
  <2>3. QED BY <2>1, <2>2 DEF D
<1>9. ASSUME NEW k \in 1..n, k - 1 \in Good PROVE k \in Good
  <2>1. k \in 0..n /\ k # 0 /\ f[k - 1] \in D
    BY <1>3, <1>9
  <2>2. f[k] = AddPart(table, fresh, cluster, f[k - 1], present[k])
    BY <1>7, <2>1
  <2>3. QED BY <1>4, <2>1, <2>2
<1>10. n \in Good
  <2> HIDE DEF Good
  <2>1. 0..n \subseteq Good
    BY <1>3, <1>8, <1>9, CountUp
  <2>2. QED BY <1>3, <2>1
<1>11. QED BY <1>1, <1>10 DEF D

LEMMA ReorganizedStay ==
  ASSUME NEW I, I \subseteq Nat, NEW T, NEW table \in Seq(RowsOf(I, T)),
         NEW fresh, fresh \subseteq I, NEW clusters \in Seq(Seq(T))
  PROVE  Reorganized(clusters, table, fresh) \in Draft(I, T)
<1> DEFINE n == Len(clusters)
           D == Draft(I, T)
           Turn(g, k) == IF k = 0 THEN << >> ELSE AddParts(table, fresh, g[k - 1], clusters[k])
           f == CHOOSE g : g = [k \in 0..n |-> Turn(g, k)]
           step == [p \in D \X (1..n) |-> AddParts(table, fresh, p[1], clusters[p[2]])]
<1>1. Reorganized(clusters, table, fresh) = f[n]
  BY DEF Reorganized
<1>2. n \in Nat /\ \A k \in 1..n : clusters[k] \in Seq(T)
  OBVIOUS
<1>3. << >> \in D
  BY DEF Draft, Keyed
<1>4. ASSUME NEW s \in D, NEW k \in 1..n PROVE AddParts(table, fresh, s, clusters[k]) \in D
  BY <1>2, PartsStay
<1> HIDE DEF n, D
<1>5. \E g : g = [k \in 0..n |-> Turn(g, k)]
  <2>1. step \in [D \X (1..n) -> D]
    BY <1>4
  <2> HIDE DEF step
  <2>2. PICK g \in [0..n -> D] : LoopOf(g, << >>, step, n)
    BY <1>2, <1>3, <2>1, LoopStays
  <2>3. ASSUME NEW k \in 0..n
        PROVE  (IF k = 0 THEN << >> ELSE step[<<g[k - 1], k>>]) = Turn(g, k)
    <3>1. CASE k = 0
      BY <3>1
    <3>2. CASE k # 0
      <4>1. <<g[k - 1], k>> \in D \X (1..n)
        BY <1>2, <3>2
      <4>2. QED BY <3>2, <4>1 DEF step
    <3>3. QED BY <3>1, <3>2
  <2> HIDE DEF Turn
  <2>4. g = [k \in 0..n |-> Turn(g, k)]
    BY <2>2, <2>3 DEF LoopOf
  <2>5. QED BY <2>4
<1>6. f = [k \in 0..n |-> Turn(f, k)]
  BY <1>5
<1> HIDE DEF f, step
<1>7. \A k \in 0..n : f[k] = Turn(f, k)
  BY <1>6
<1> DEFINE Good == {k \in 0..n : f[k] \in D}
<1>8. 0 \in Good
  <2>1. 0 \in 0..n
    BY <1>2
  <2>2. f[0] = << >>
    BY <1>7, <2>1
  <2>3. QED BY <1>3, <2>1, <2>2
<1>9. ASSUME NEW k \in 1..n, k - 1 \in Good PROVE k \in Good
  <2>1. k \in 0..n /\ k # 0 /\ f[k - 1] \in D
    BY <1>2, <1>9
  <2>2. f[k] = AddParts(table, fresh, f[k - 1], clusters[k])
    BY <1>7, <2>1
  <2>3. QED BY <1>4, <2>1, <2>2
<1>10. n \in Good
  <2> HIDE DEF Good
  <2>1. 0..n \subseteq Good
    BY <1>2, <1>8, <1>9, CountUp
  <2>2. QED BY <1>2, <2>1
<1>11. QED BY <1>1, <1>10 DEF D

LEMMA FrameIs ==
  ASSUME NEW I, I \subseteq Nat, NEW T, NEW table \in Seq(RowsOf(I, T)), NEW cluster \in Seq(T)
  PROVE  Frame(table, cluster) \in DOMAIN table \cup {0}
<1> DEFINE Here(g) == Cardinality(NotesOf(table[g].notes) \cap NotesOf(cluster))
           active == {g \in DOMAIN table : Here(g) >= 2}
           largest == {g \in active : \A h \in active : Here(g) >= Here(h)}
           B == Cardinality(NotesOf(cluster))
<1>1. Frame(table, cluster)
        = IF active = {} THEN 0
          ELSE CHOOSE g \in largest : \A h \in largest : table[g].id <= table[h].id
  BY DEF Frame
<1>2. ASSUME NEW g PROVE Here(g) \in Nat /\ B \in Nat /\ Here(g) <= B
  <2>1. IsFiniteSet(NotesOf(cluster))
    BY RowsFinite DEF NotesOf
  <2>2. NotesOf(table[g].notes) \cap NotesOf(cluster) \in SUBSET NotesOf(cluster)
    OBVIOUS
  <2>3. QED BY <2>1, <2>2, FS_Subset, FS_CardinalityType
<1> HIDE DEF Here, B
<1>3. active # {} => largest # {}
  <2> SUFFICES ASSUME active # {} PROVE largest # {}
    OBVIOUS
  <2> DEFINE gaps == {B - Here(g) : g \in active}
  <2>1. gaps \subseteq Nat /\ gaps # {}
    BY <1>2
  <2> HIDE DEF gaps
  <2>2. PICK x \in gaps : \A y \in gaps : x <= y
    BY <2>1, Least
  <2>3. PICK g \in active : x = B - Here(g)
    BY DEF gaps
  <2>4. ASSUME NEW h \in active PROVE Here(g) >= Here(h)
    <3>1. B - Here(h) \in gaps
      BY DEF gaps
    <3>2. B - Here(g) <= B - Here(h)
      BY <2>2, <2>3, <3>1
    <3>3. QED BY <1>2, <3>2
  <2>5. QED BY <2>3, <2>4
<1>4. largest # {} => \E g \in largest : \A h \in largest : table[g].id <= table[h].id
  <2> SUFFICES ASSUME largest # {}
               PROVE \E g \in largest : \A h \in largest : table[g].id <= table[h].id
    OBVIOUS
  <2>1. \A g \in largest : g \in DOMAIN table
    OBVIOUS
  <2> HIDE DEF largest
  <2> DEFINE ids == {table[g].id : g \in largest}
  <2>2. ids \subseteq Nat
    <3> SUFFICES ASSUME NEW g \in largest PROVE table[g].id \in Nat
      OBVIOUS
    <3>1. table[g] \in RowsOf(I, T)
      BY <2>1
    <3>2. QED BY <3>1 DEF RowsOf
  <2>3. ids # {}
    OBVIOUS
  <2> HIDE DEF ids
  <2>4. PICK x \in ids : \A y \in ids : x <= y
    BY <2>2, <2>3, Least
  <2>5. QED BY <2>4 DEF ids
<1>5. largest \subseteq DOMAIN table
  OBVIOUS
<1> HIDE DEF active, largest
<1>6. QED BY <1>1, <1>3, <1>4, <1>5

LEMMA AddFrameStays ==
  ASSUME NEW I, I \subseteq Nat, NEW T, NEW table \in Seq(RowsOf(I, T)),
         NEW fresh, fresh \subseteq I, NEW cluster \in Seq(T), NEW result \in Draft(I, T)
  PROVE  AddFrame(table, fresh, result, cluster) \in Draft(I, T)
<1> DEFINE g == Frame(table, cluster)
           used == IdsOf(result)
           id == IF g # 0 /\ table[g].id \notin used THEN table[g].id ELSE NewId(fresh, used)
           name == IF g # 0 THEN table[g].name ELSE Unnamed
           x == [id |-> id, name |-> name, notes |-> cluster]
<1>1. AddFrame(table, fresh, result, cluster)
        = IF Len(cluster) < 2 THEN result ELSE Append(result, x)
  BY DEF AddFrame
<1>2. g \in DOMAIN table \cup {0}
  BY FrameIs
<1>3. NewId(fresh, used) = 0 \/ NewId(fresh, used) \in fresh \ used
  BY NewIdIs
<1> HIDE DEF g, used
<1>4. g # 0 => table[g].id \in I /\ table[g].name \in GroupNames
  <2> SUFFICES ASSUME g # 0 PROVE table[g].id \in I /\ table[g].name \in GroupNames
    OBVIOUS
  <2>1. table[g] \in RowsOf(I, T)
    BY <1>2
  <2>2. QED BY <2>1 DEF RowsOf
<1>5. id \in I \cup {0} /\ (id \in used => id = 0)
  BY <1>3, <1>4
<1>6. name \in GroupNames
  <2>1. Unnamed \in GroupNames
    BY DEF GroupNames
  <2>2. CASE g # 0
    BY <1>4, <2>2
  <2>3. CASE g = 0
    BY <2>1, <2>3
  <2>4. QED BY <2>2, <2>3
<1> HIDE DEF id, name
<1>7. x \in RowsOf(I \cup {0}, T) /\ x.id = id
  BY <1>5, <1>6 DEF RowsOf
<1> HIDE DEF x
<1>8. Append(result, x) \in Draft(I, T)
  BY <1>5, <1>7, DraftGrows DEF used
<1>9. QED BY <1>1, <1>8

LEMMA FinalizedStay ==
  ASSUME NEW I, I \subseteq Nat, NEW T, NEW table \in Seq(RowsOf(I, T)),
         NEW fresh, fresh \subseteq I, NEW clusters \in Seq(Seq(T))
  PROVE  Finalized(clusters, table, fresh) \in Draft(I, T)
<1> DEFINE n == Len(clusters)
           D == Draft(I, T)
           Turn(g, k) == IF k = 0 THEN << >> ELSE AddFrame(table, fresh, g[k - 1], clusters[k])
           f == CHOOSE g : g = [k \in 0..n |-> Turn(g, k)]
           step == [p \in D \X (1..n) |-> AddFrame(table, fresh, p[1], clusters[p[2]])]
<1>1. Finalized(clusters, table, fresh) = f[n]
  BY DEF Finalized
<1>2. n \in Nat /\ \A k \in 1..n : clusters[k] \in Seq(T)
  OBVIOUS
<1>3. << >> \in D
  BY DEF Draft, Keyed
<1>4. ASSUME NEW s \in D, NEW k \in 1..n PROVE AddFrame(table, fresh, s, clusters[k]) \in D
  BY <1>2, AddFrameStays
<1> HIDE DEF n, D
<1>5. \E g : g = [k \in 0..n |-> Turn(g, k)]
  <2>1. step \in [D \X (1..n) -> D]
    BY <1>4
  <2> HIDE DEF step
  <2>2. PICK g \in [0..n -> D] : LoopOf(g, << >>, step, n)
    BY <1>2, <1>3, <2>1, LoopStays
  <2>3. ASSUME NEW k \in 0..n
        PROVE  (IF k = 0 THEN << >> ELSE step[<<g[k - 1], k>>]) = Turn(g, k)
    <3>1. CASE k = 0
      BY <3>1
    <3>2. CASE k # 0
      <4>1. <<g[k - 1], k>> \in D \X (1..n)
        BY <1>2, <3>2
      <4>2. QED BY <3>2, <4>1 DEF step
    <3>3. QED BY <3>1, <3>2
  <2> HIDE DEF Turn
  <2>4. g = [k \in 0..n |-> Turn(g, k)]
    BY <2>2, <2>3 DEF LoopOf
  <2>5. QED BY <2>4
<1>6. f = [k \in 0..n |-> Turn(f, k)]
  BY <1>5
<1> HIDE DEF f, step
<1>7. \A k \in 0..n : f[k] = Turn(f, k)
  BY <1>6
<1> DEFINE Good == {k \in 0..n : f[k] \in D}
<1>8. 0 \in Good
  <2>1. 0 \in 0..n
    BY <1>2
  <2>2. f[0] = << >>
    BY <1>7, <2>1
  <2>3. QED BY <1>3, <2>1, <2>2
<1>9. ASSUME NEW k \in 1..n, k - 1 \in Good PROVE k \in Good
  <2>1. k \in 0..n /\ k # 0 /\ f[k - 1] \in D
    BY <1>2, <1>9
  <2>2. f[k] = AddFrame(table, fresh, f[k - 1], clusters[k])
    BY <1>7, <2>1
  <2>3. QED BY <1>4, <2>1, <2>2
<1>10. n \in Good
  <2> HIDE DEF Good
  <2>1. 0..n \subseteq Good
    BY <1>2, <1>8, <1>9, CountUp
  <2>2. QED BY <1>2, <2>1
<1>11. QED BY <1>1, <1>10 DEF D

LEMMA KeyedJoin ==
  ASSUME NEW T, NEW s \in Seq(T), NEW t \in Seq(T), Keyed(s, {}), Keyed(t, {}),
         \A g \in ToSet(s), h \in ToSet(t) : g.id # h.id
  PROVE  Keyed(s \o t, {})
<1> DEFINE w == s \o t
<1>1. /\ Len(s) \in Nat /\ Len(t) \in Nat /\ DOMAIN s = 1..Len(s) /\ DOMAIN t = 1..Len(t)
      /\ DOMAIN w = 1..(Len(s) + Len(t))
      /\ \A i \in 1..(Len(s) + Len(t)) : w[i] = IF i <= Len(s) THEN s[i] ELSE t[i - Len(s)]
  OBVIOUS
<1> HIDE DEF w
<1>2. ASSUME NEW i \in DOMAIN w, NEW k \in DOMAIN w, w[i].id = w[k].id PROVE i = k
  <2>1. \A j \in DOMAIN w : IF j <= Len(s) THEN j \in DOMAIN s /\ w[j] = s[j]
                             ELSE j - Len(s) \in DOMAIN t /\ w[j] = t[j - Len(s)]
    BY <1>1
  <2>2. CASE i <= Len(s) /\ k <= Len(s)
    BY <1>2, <2>1, <2>2 DEF Keyed
  <2>3. CASE ~(i <= Len(s)) /\ ~(k <= Len(s))
    <3>1. i - Len(s) = k - Len(s)
      BY <1>2, <2>1, <2>3 DEF Keyed
    <3>2. QED BY <1>1, <3>1
  <2>4. CASE i <= Len(s) /\ ~(k <= Len(s))
    BY <1>2, <2>1, <2>4 DEF ToSet
  <2>5. CASE ~(i <= Len(s)) /\ k <= Len(s)
    BY <1>2, <2>1, <2>5 DEF ToSet
  <2>6. QED BY <2>2, <2>3, <2>4, <2>5
<1>3. QED BY <1>2 DEF Keyed, w

\* The table after a rewrite: every row of the draft, once, and nothing else.
LEMMA SavedRows ==
  ASSUME NEW I, I \subseteq Nat, 0 \notin I, NEW T,
         NEW stored \in Seq(RowsOf(I, T)), Keyed(stored, {}), NEW gs \in Draft(I, T),
         IdsOf(Saved(stored, gs)) \subseteq I
  PROVE  Saved(stored, gs) \in Seq(RowsOf(I, T)) /\ Keyed(Saved(stored, gs), {})
<1> DEFINE R == RowsOf(I \cup {0}, T)
           stays == Those(stored, {g \in ToSet(stored) : g.id \in IdsOf(gs)})
           With(id) == CHOOSE g \in ToSet(gs) : g.id = id
           kept == [i \in DOMAIN stays |-> With(stays[i].id)]
           new == Those(gs, {g \in ToSet(gs) : g.id \notin IdsOf(stored)})
           w == kept \o new
<1>1. Saved(stored, gs) = w
  BY DEF Saved
<1>2. gs \in Seq(R) /\ Keyed(gs, {0})
  BY DEF Draft
<1>3. /\ stays \in Seq(RowsOf(I, T)) /\ Keyed(stays, {})
      /\ ToSet(stays) \subseteq {g \in ToSet(stored) : g.id \in IdsOf(gs)}
  BY ThoseAre
<1> HIDE DEF R
<1>4. /\ new \in Seq(R) /\ Keyed(new, {0})
      /\ ToSet(new) = {g \in ToSet(gs) : g.id \notin IdsOf(stored)}
  <2>1. ToSet(new) = ToSet(gs) \cap {g \in ToSet(gs) : g.id \notin IdsOf(stored)}
    BY <1>2, ThoseAre
  <2>2. new \in Seq(R) /\ Keyed(new, {0})
    BY <1>2, ThoseAre
  <2>3. QED BY <2>1, <2>2
<1> HIDE DEF new, stays
<1>5. ASSUME NEW i \in DOMAIN stays
      PROVE  /\ stays[i].id \in IdsOf(stored)
             /\ With(stays[i].id) \in ToSet(gs) /\ With(stays[i].id).id = stays[i].id
  <2>1. stays[i] \in ToSet(stays)
    BY DEF ToSet
  <2>2. stays[i] \in ToSet(stored) /\ stays[i].id \in IdsOf(gs)
    BY <1>3, <2>1
  <2>3. \E g \in ToSet(gs) : g.id = stays[i].id
    BY <2>2 DEF IdsOf, ToSet
  <2>4. QED BY <2>2, <2>3 DEF IdsOf, ToSet
<1>6. ToSet(gs) \subseteq R
  BY <1>2, RowsFinite
<1>7. /\ kept \in Seq(R) /\ Keyed(kept, {}) /\ \A g \in ToSet(kept) : g.id \in IdsOf(stored)
  <2>1. DOMAIN stays = 1..Len(stays) /\ Len(stays) \in Nat
    BY <1>3
  <2>2. DOMAIN kept = DOMAIN stays /\ \A i \in DOMAIN kept : kept[i] = With(stays[i].id)
    OBVIOUS
  <2>3. kept \in [DOMAIN stays -> R]
    BY <1>5, <1>6
  <2> HIDE DEF With, kept
  <2>4. kept \in Seq(R)
    BY <2>1, <2>3
  <2>5. Keyed(kept, {})
    BY <1>3, <1>5, <2>2 DEF Keyed
  <2>6. QED BY <1>5, <2>2, <2>4, <2>5 DEF ToSet
<1> HIDE DEF kept
<1>8. w \in Seq(R) /\ ToSet(w) = ToSet(kept) \cup ToSet(new)
  BY <1>4, <1>7, JoinedRows
<1>9. \A g \in ToSet(w) : g.id \in I
  BY <1>1 DEF IdsOf, ToSet
<1>10. Keyed(new, {})
  <2>1. ASSUME NEW i \in DOMAIN new PROVE new[i].id # 0
    <3>1. new[i] \in ToSet(new)
      BY DEF ToSet
    <3>2. QED BY <1>8, <1>9, <3>1
  <2>2. QED BY <1>4, <2>1 DEF Keyed
<1>11. Keyed(w, {})
  <2>1. \A g \in ToSet(kept), h \in ToSet(new) : g.id # h.id
    BY <1>4, <1>7
  <2>2. QED BY <1>4, <1>7, <1>10, <2>1, KeyedJoin
<1> HIDE DEF w
<1>12. w \in Seq(RowsOf(I, T))
  <2>1. \A i \in DOMAIN w : w[i] \in RowsOf(I, T)
    <3> SUFFICES ASSUME NEW i \in DOMAIN w PROVE w[i] \in RowsOf(I, T)
      OBVIOUS
    <3>1. w[i] \in R /\ w[i].id \in I
      BY <1>8, <1>9 DEF ToSet
    <3>2. QED BY <3>1 DEF R, RowsOf
  <2>2. QED BY <1>8, <2>1
<1>13. QED BY <1>1, <1>11, <1>12

-----------------------------------------------------------------------------
(* Taking moves back: the histories.                                         *)

\* Within a phase the versions of the notes only rise, and they rise whenever
\* what they stand for changes.
VersionsOnward ==
  \A n \in NoteIds : /\ notes'[n].pos >= notes[n].pos /\ notes'[n].vis >= notes[n].vis
                     /\ notes'[n].at # notes[n].at => notes'[n].pos > notes[n].pos
                     /\ notes'[n].shared # notes[n].shared => notes'[n].vis > notes[n].vis

PhaseOnward ==
  /\ room'.phase \in Nat
  /\ room'.phase > room.phase \/ (room'.phase = room.phase /\ VersionsOnward)

\* The counters of the groups rise in every phase.
GroupsOnward ==
  /\ gver' \in [GroupIds -> Nat]
  /\ \A i \in GroupIds : /\ gver'[i] >= gver[i]
                         /\ i \in Touched(groups, groups') => gver'[i] > gver[i]

Versioned == room.phase \in Nat /\ gver \in [GroupIds -> Nat]

LEMMA NoGroupChanges ==
  ASSUME Versioned, UNCHANGED <<groups, gver>>
  PROVE  GroupsOnward
<1>1. Touched(groups, groups') = {}
  BY DEF Touched
<1>2. QED BY <1>1 DEF GroupsOnward, Versioned

LEMMA CountedOnward ==
  ASSUME Versioned, gver' = Counted(groups, groups')
  PROVE  GroupsOnward
BY DEF Versioned, GroupsOnward, Counted

LEMMA OneCounted ==
  ASSUME Versioned, NEW i \in GroupIds, gver' = [gver EXCEPT ![i] = @ + 1],
         Touched(groups, groups') \subseteq {i}
  PROVE  GroupsOnward
BY DEF GroupsOnward, Versioned

LEMMA NoNoteChanges ==
  ASSUME MoveInv, Versioned, UNCHANGED notes, room'.phase = room.phase
  PROVE  PhaseOnward
BY DEF Versioned, PhaseOnward, VersionsOnward, MoveInv, NoteTable

LEMMA PlacedOnward ==
  ASSUME MoveInv, Versioned, NEW at, notes' = Placed(notes, at), room'.phase = room.phase
  PROVE  PhaseOnward
<1>1. ASSUME NEW n \in NoteIds
      PROVE  /\ notes'[n].pos >= notes[n].pos /\ notes'[n].vis >= notes[n].vis
             /\ notes'[n].at # notes[n].at => notes'[n].pos > notes[n].pos
             /\ notes'[n].shared = notes[n].shared
  <2>1. notes[n] \in [shared : BOOLEAN, at : Places, pos : Nat, vis : Nat]
    BY DEF MoveInv, NoteTable
  <2>2. notes'[n] = IF n \in DOMAIN at /\ at[n] # notes[n].at
                    THEN [notes[n] EXCEPT !.at = at[n], !.pos = @ + 1] ELSE notes[n]
    BY DEF Placed
  <2>3. QED BY <2>1, <2>2
<1>2. QED BY <1>1 DEF PhaseOnward, VersionsOnward, Versioned

LEMMA BoardStays ==
  ASSUME MoveInv, Versioned, UNCHANGED <<notes, groups, gver>>, room'.phase = room.phase
  PROVE  PhaseOnward /\ GroupsOnward
BY NoGroupChanges, NoNoteChanges

LEMMA CommitOnward ==
  ASSUME MoveInv, Versioned, NEW c, NEW o, NEW delta, Commit(c, o, delta)
  PROVE  PhaseOnward /\ GroupsOnward
<1> DEFINE p == Expire(moves).op[o]
           at == [n \in Targets(p) |-> notes[n].at + Clamped(notes, Targets(p), delta)]
<1>1. CASE CommitEffect(c, o, delta, Expire(moves))
  <2>1. notes' = Placed(notes, at) /\ gver' = Counted(groups, groups') /\ UNCHANGED room
    BY Zenon, <1>1 DEF CommitEffect
  <2> HIDE DEF at
  <2>2. QED BY <2>1, PlacedOnward, CountedOnward
<1>2. CASE KeepBoard
  BY <1>2, BoardStays DEF KeepBoard
<1>3. QED BY <1>1, <1>2 DEF Commit

LEMMA PlaceAndRegroupOnward ==
  ASSUME MoveInv, Versioned, NEW at, PlaceAndRegroup(Placed(notes, at))
  PROVE  PhaseOnward /\ GroupsOnward
BY PlacedOnward, CountedOnward DEF PlaceAndRegroup

LEMMA DragsOnward ==
  ASSUME MoveInv, Versioned, NEW c, NEW n, NEW at, MoveOne(c, n, at) \/ DragMove(c, at) \/ DragEnd(c, at)
  PROVE  PhaseOnward /\ GroupsOnward
<1>1. CASE KeepBoard
  BY <1>1, BoardStays DEF KeepBoard
<1>2. CASE \E k : PlaceAndRegroup(Placed(notes, [j \in {k} |-> at]))
  BY <1>2, PlaceAndRegroupOnward
<1>3. CASE /\ \E k : notes' = Placed(notes, [j \in {k} |-> at])
           /\ UNCHANGED <<groups, gver, room>>
  BY <1>3, PlacedOnward, NoGroupChanges
<1>4. QED BY <1>1, <1>2, <1>3 DEF MoveOne, DragMove, DragEnd

LEMMA SharingOnward ==
  ASSUME MoveInv, Versioned, NEW c, NEW n \in NoteIds, NEW at \in Places,
         Unpublish(c, n) \/ Publish(c, n, at)
  PROVE  PhaseOnward /\ GroupsOnward
<1>1. CASE Unpublish(c, n)
  <2>1. /\ notes' = [notes EXCEPT ![n].shared = FALSE, ![n].vis = @ + 1]
        /\ gver' = Counted(groups, groups') /\ UNCHANGED room
    BY <1>1 DEF Unpublish
  <2>2. VersionsOnward
    BY <2>1 DEF VersionsOnward, MoveInv, NoteTable
  <2>3. QED BY <2>1, <2>2, CountedOnward DEF PhaseOnward, Versioned
<1>2. CASE Publish(c, n, at)
  <2> DEFINE ns == Placed(notes, [k \in {n} |-> at])
  <2>1. /\ notes' = [ns EXCEPT ![n].shared = TRUE, ![n].vis = @ + 1]
        /\ UNCHANGED <<groups, gver, room>>
    BY <1>2 DEF Publish
  <2>2. /\ ns \in NoteTable
        /\ \A k \in NoteIds : /\ ns[k].pos >= notes[k].pos /\ ns[k].vis = notes[k].vis
                              /\ ns[k].at # notes[k].at => ns[k].pos > notes[k].pos
                              /\ ns[k].shared = notes[k].shared
    <3> DEFINE place == [k \in {n} |-> at]
    <3>1. \A k \in DOMAIN place \cap NoteIds : place[k] \in Places
      OBVIOUS
    <3> HIDE DEF place
    <3>2. ns = Placed(notes, place)
      BY DEF place
    <3>3. ASSUME NEW k \in NoteIds PROVE ns[k].vis = notes[k].vis
      <4>1. ns[k] = IF k \in DOMAIN place /\ place[k] # notes[k].at
                    THEN [notes[k] EXCEPT !.at = place[k], !.pos = @ + 1] ELSE notes[k]
        BY <3>2 DEF Placed
      <4> HIDE DEF ns
      <4>2. QED BY <4>1
    <3> HIDE DEF ns
    <3>4. QED BY <3>1, <3>2, <3>3, PlacedOK DEF MoveInv, BoardOnward
  <2> HIDE DEF ns
  <2>3. VersionsOnward
    BY <2>1, <2>2 DEF VersionsOnward, MoveInv, NoteTable
  <2>4. QED BY <2>1, <2>3, NoGroupChanges DEF PhaseOnward, Versioned
<1>3. QED BY <1>1, <1>2

LEMMA GroupingOnward ==
  ASSUME MoveInv, Versioned, GroupsOK, GroupsOK', NEW c,
         \/ \E cluster : CreateGroup(c, cluster)
         \/ \E k \in DOMAIN groups : RenameGroup(c, k)
  PROVE  PhaseOnward /\ GroupsOnward
<1>1. UNCHANGED <<notes, room>>
  BY DEF CreateGroup, RenameGroup
<1>2. GroupsOnward
  <2>1. CASE \E cluster : CreateGroup(c, cluster)
    <3>1. PICK cluster : CreateGroup(c, cluster)
      BY <2>1
    <3> DEFINE i == NewId(FreshIds, {})
               g == [id |-> i, name |-> "named", notes |-> cluster]
    <3>2. groups' = Append(groups, g) /\ gver' = [gver EXCEPT ![i] = @ + 1] /\ g.id = i
      BY <3>1 DEF CreateGroup
    <3> HIDE DEF i, g
    <3>3. /\ groups \in Seq(GroupRows) /\ groups' \in Seq(GroupRows)
      BY DEF GroupsOK, GroupRows, Keys
    <3>4. ToSet(groups') = ToSet(groups) \cup {g} /\ g \in GroupRows
      <4>1. /\ Len(groups) \in Nat /\ Len(groups') = Len(groups) + 1
            /\ DOMAIN groups = 1..Len(groups) /\ DOMAIN groups' = 1..(Len(groups) + 1)
            /\ groups'[Len(groups) + 1] = g
            /\ \A k \in 1..Len(groups) : groups'[k] = groups[k]
        BY <3>2, <3>3
      <4>2. groups'[Len(groups) + 1] \in GroupRows
        BY <3>3, <4>1
      <4>3. QED BY <4>1, <4>2 DEF ToSet
    <3>5. i \in GroupIds
      BY <3>2, <3>4 DEF GroupRows
    <3>6. Touched(groups, groups') \subseteq {i}
      BY <3>2, <3>4 DEF Touched
    <3>7. QED BY <3>2, <3>5, <3>6, OneCounted
  <2>2. CASE \E k \in DOMAIN groups : RenameGroup(c, k)
    <3>1. PICK k \in DOMAIN groups : RenameGroup(c, k)
      BY <2>2
    <3> DEFINE name == IF groups[k].name = "named" THEN "renamed" ELSE "named"
               i == groups[k].id
    <3>2. /\ groups' = [groups EXCEPT ![k] = [groups[k] EXCEPT !.name = name]]
          /\ gver' = [gver EXCEPT ![i] = @ + 1]
      BY <3>1 DEF RenameGroup
    <3> HIDE DEF name
    <3>3. groups \in Seq(GroupRows)
      BY DEF GroupsOK, GroupRows, Keys
    <3>4. groups[k] \in GroupRows
      BY <3>3
    <3>5. DOMAIN groups' = DOMAIN groups /\ groups'[k].id = i
          /\ \A j \in DOMAIN groups \ {k} : groups'[j] = groups[j]
      BY <3>2, <3>4 DEF GroupRows
    <3>6. i \in GroupIds /\ Touched(groups, groups') \subseteq {i}
      BY <3>4, <3>5 DEF GroupRows, Touched, ToSet
    <3> HIDE DEF i
    <3>7. QED BY <3>2, <3>6, OneCounted
  <2>3. QED BY <2>1, <2>2
<1>3. QED BY <1>1, <1>2, NoNoteChanges

LEMMA PhaseStepOnward ==
  ASSUME MoveInv, Versioned, NextStep \/ Rollback
  PROVE  PhaseOnward /\ GroupsOnward
<1>1. room'.phase = room.phase + 1
  BY DEF NextStep, Rollback, MoveInv, RoomOK
<1>2. PhaseOnward
  BY <1>1 DEF PhaseOnward, Versioned
<1>3. CASE NextStep
  <2>1. gver' = Counted(groups, groups')
    BY <1>3 DEF NextStep
  <2>2. QED BY <1>2, <2>1, CountedOnward
<1>4. CASE Rollback
  <2> DEFINE ids(gs) == {g.id : g \in ToSet(gs)}
  <2>1. gver' = [i \in GroupIds |-> gver[i] + (IF i \in ids(groups) THEN 1 ELSE 0)
                                           + (IF i \in ids(groups') THEN 1 ELSE 0)]
    BY <1>4 DEF Rollback
  <2>2. Touched(groups, groups') \subseteq ids(groups) \cup ids(groups')
    BY DEF Touched
  <2> HIDE DEF ids
  <2>3. QED BY <1>2, <2>1, <2>2 DEF GroupsOnward, Versioned
<1>5. QED BY <1>3, <1>4

LEMMA OtherEventsOnward ==
  ASSUME MoveInv, Versioned, Event, ~NextStep, ~Rollback
  PROVE  PhaseOnward /\ GroupsOnward
<1>1. UNCHANGED <<notes, groups, gver>> /\ room'.phase = room.phase
  BY Zenon DEF Event, SetTimer, Complete, Leave, SocketCloses, TimeEnds, DragLapses, KeepBoard,
     MoveInv, RoomOK
<1>2. QED BY <1>1, BoardStays

\* The rows of the groups under an undo.

LEMMA RowsWithoutAre ==
  ASSUME NEW T, groups \in Seq(T), NEW ids
  PROVE  /\ RowsWithout(ids) \in Seq(T)
         /\ ToSet(RowsWithout(ids)) = {g \in ToSet(groups) : g.id \notin ids}
         /\ \A Z : Keyed(groups, Z) => Keyed(RowsWithout(ids), Z)
<1> DEFINE kept == {g \in ToSet(groups) : g.id \notin ids}
<1>1. RowsWithout(ids) = Those(groups, kept) /\ ToSet(groups) \cap kept = kept
  BY DEF RowsWithout
<1> HIDE DEF kept
<1>2. QED BY <1>1, ThoseAre DEF kept

LEMMA SetListed ==
  ASSUME NEW S, IsFiniteSet(S)
  PROVE  SetToSeq(S) \in Seq(S) /\ ToSet(SetToSeq(S)) = S
<1> DEFINE n == Cardinality(S)
           Lists(g) == g \in [1..n -> S] /\ IsInjective(g)
           q == SetToSeq(S)
<1>1. n \in Nat /\ ExistsBijection(1..n, S)
  BY FS_CardinalityType
<1>2. PICK f : f \in Bijection(1..n, S)
  BY <1>1 DEF ExistsBijection
<1>3. Lists(f)
  BY <1>2 DEF Bijection, Injection, IsInjective
<1>4. Lists(q)
  BY <1>3 DEF SetToSeq
<1> HIDE DEF q
<1>5. q \in Injection(1..n, S)
  BY <1>4 DEF Injection, IsInjective
<1>6. IsFiniteSet(1..n) /\ Cardinality(1..n) = n
  BY <1>1, FS_Interval
<1>7. q \in Surjection(1..n, S)
  BY <1>5, <1>6, FS_Injection
<1>8. q \in Seq(S) /\ DOMAIN q = 1..n
  BY <1>1, <1>4
<1>9. ToSet(q) = S
  BY <1>7, <1>8 DEF Surjection, ToSet
<1>10. QED BY <1>8, <1>9 DEF q

LEMMA UndoneRows ==
  ASSUME GroupsOK, NEW r, IsFiniteSet(r.groupsBefore)
  PROVE  ToSet(UndoneGroups(r)) = {g \in ToSet(groups) : g.id \notin {h.id : h \in r.groupsAfter}}
                                    \cup r.groupsBefore
<1> DEFINE T == GroupRows \cup r.groupsBefore
           ids == {h.id : h \in r.groupsAfter}
<1>1. groups \in Seq(GroupRows)
  BY DEF GroupsOK, GroupRows, Keys
<1>2. groups \in Seq(T)
  BY <1>1
<1>3. SetToSeq(r.groupsBefore) \in Seq(T) /\ ToSet(SetToSeq(r.groupsBefore)) = r.groupsBefore
  <2>1. /\ SetToSeq(r.groupsBefore) \in Seq(r.groupsBefore)
        /\ ToSet(SetToSeq(r.groupsBefore)) = r.groupsBefore
    BY SetListed
  <2>2. QED BY <2>1
<1> HIDE DEF T, ids
<1>4. RowsWithout(ids) \in Seq(T) /\ ToSet(RowsWithout(ids)) = {g \in ToSet(groups) : g.id \notin ids}
  BY <1>2, RowsWithoutAre
<1>5. ToSet(RowsWithout(ids) \o SetToSeq(r.groupsBefore))
        = {g \in ToSet(groups) : g.id \notin ids} \cup r.groupsBefore
  BY <1>3, <1>4, JoinedRows
<1>6. QED BY <1>5 DEF UndoneGroups, ids

LEMMA UndoneOnward ==
  ASSUME MoveInv, Versioned, GroupsOK, NEW r, IsFiniteSet(r.groupsBefore), UNCHANGED room,
         notes' = Placed(notes, r.before), groups' = UndoneGroups(r), gver' = UndoneVersions(r)
  PROVE  PhaseOnward /\ GroupsOnward
<1> DEFINE after == {g.id : g \in r.groupsAfter}
           before == {g.id : g \in r.groupsBefore}
<1>1. gver' = [i \in GroupIds |-> gver[i] + (IF i \in after THEN 1 ELSE 0)
                                         + (IF i \in before THEN 1 ELSE 0)]
  BY DEF UndoneVersions
<1>2. Touched(groups, groups') \subseteq after \cup before
  <2>1. ToSet(groups') = {g \in ToSet(groups) : g.id \notin after} \cup r.groupsBefore
    BY UndoneRows
  <2>2. QED BY <2>1 DEF Touched
<1> HIDE DEF after, before
<1>3. GroupsOnward
  BY <1>1, <1>2 DEF GroupsOnward, Versioned
<1>4. QED BY <1>3, PlacedOnward
-----------------------------------------------------------------------------
(* The invariant of the histories. *)

\* What the history watches is not what it was: the undo will be refused.
Outdated(p, ns, gv, phase) ==
  \/ p.phase < phase
  \/ \E n \in DOMAIN p.expected.targets : Version(ns, n) # p.expected.targets[n]
  \/ \E i \in DOMAIN p.expected.groups : gv[i] # p.expected.groups[i]

\* A history is never ahead of the board.  Notes may be, after a rollback, but
\* the phase is another one then.
HistoryOK(p, ns, gv, phase) ==
  LET r == p.receipt
      e == p.expected
  IN /\ p.phase \in Nat /\ p.phase <= phase
     /\ DOMAIN r.affected \subseteq NoteIds /\ e.targets \in [DOMAIN r.affected -> Nat \X Nat]
     /\ r.known \subseteq DOMAIN e.groups /\ DOMAIN e.groups \subseteq GroupIds
     /\ p.phase = phase =>
          \A n \in DOMAIN r.affected : /\ e.targets[n][1] <= ns[n].pos
                                       /\ e.targets[n][2] <= ns[n].vis
     /\ \A i \in DOMAIN e.groups : e.groups[i] \in Nat /\ e.groups[i] <= gv[i]

\* The identity given to the last message of a closed socket is of no use to
\* another one.
OwnerOK(p, conn) ==
  \/ p.conn \in Conns
  \/ \E c \in Conns : p.conn = <<c>> /\ ~conn[c].open /\ ~conn[c].waiting

\* The receipt tells where the notes were, and which rows of the groups with
\* its identifiers there were.
Remembers(r, b) ==
  /\ IsFiniteSet(r.groupsBefore) /\ IsFiniteSet(r.groupsAfter)
  /\ \A n \in DOMAIN r.before : b.at[n] = r.before[n]
  /\ {g \in b.groups : g.id \in {h.id : h \in r.groupsBefore \cup r.groupsAfter}}
       = r.groupsBefore

\* Somebody else's change shows in the history.
Aware(p, b, ns, gv, phase) ==
  b.knownOthers /\ p.conn \in Conns => Outdated(p, ns, gv, phase)

HasReceipt(p) == p.state = "accepted" /\ p.receipt # None

UndoRow(p, b, conn, ns, gv, phase) ==
  /\ HistoryOK(p, ns, gv, phase) /\ OwnerOK(p, conn)
  /\ Remembers(p.receipt, b) /\ Aware(p, b, ns, gv, phase)

UndoInv ==
  /\ Versioned
  /\ DOMAIN past = Ops
  /\ \A o \in Ops :
       /\ DOMAIN past[o] = {"others", "knownOthers", "at", "groups"}
       /\ past[o].knownOthers \in BOOLEAN
       /\ HasReceipt(moves.op[o]) =>
            UndoRow(moves.op[o], past[o], moves.conn, notes, gver, room.phase)

\* What the board does in a step, for the histories.
Onward == MoveInv /\ MoveInv' /\ Versioned /\ PhaseOnward /\ GroupsOnward

\* The stored rows as a set.
LEMMA GroupsAre ==
  ASSUME NEW gs \in Seq(GroupRows), \A i, k \in DOMAIN gs : gs[i].id = gs[k].id => i = k
  PROVE  /\ ToSet(gs) \subseteq GroupRows /\ IsFiniteSet(ToSet(gs))
         /\ \A g, h \in ToSet(gs) : g.id = h.id => g = h
<1>1. ToSet(gs) \subseteq GroupRows /\ IsFiniteSet(ToSet(gs))
  BY RowsFinite
<1>2. QED BY <1>1 DEF ToSet

LEMMA HistoryKept ==
  ASSUME Onward, NEW p, HistoryOK(p, notes, gver, room.phase)
  PROVE  /\ HistoryOK(p, notes', gver', room'.phase)
         /\ Outdated(p, notes, gver, room.phase) => Outdated(p, notes', gver', room'.phase)
<1> DEFINE r == p.receipt
           e == p.expected
<1>1. /\ p.phase \in Nat /\ p.phase <= room.phase /\ room.phase \in Nat /\ room'.phase \in Nat
      /\ room'.phase >= room.phase
      /\ DOMAIN e.targets = DOMAIN r.affected /\ DOMAIN r.affected \subseteq NoteIds
  BY DEF HistoryOK, Onward, PhaseOnward, Versioned
<1>2. ASSUME NEW i \in DOMAIN e.groups
      PROVE  /\ e.groups[i] \in Nat /\ e.groups[i] <= gver'[i]
             /\ e.groups[i] # gver[i] => e.groups[i] # gver'[i]
  <2>1. i \in GroupIds /\ e.groups[i] \in Nat /\ e.groups[i] <= gver[i]
    BY DEF HistoryOK
  <2>2. gver[i] \in Nat /\ gver'[i] \in Nat /\ gver'[i] >= gver[i]
    BY <2>1 DEF Onward, Versioned, GroupsOnward
  <2>3. QED BY <2>1, <2>2
<1>3. ASSUME p.phase = room'.phase, NEW n \in DOMAIN r.affected
      PROVE  /\ e.targets[n][1] <= notes'[n].pos /\ e.targets[n][2] <= notes'[n].vis
             /\ Version(notes, n) # e.targets[n] => Version(notes', n) # e.targets[n]
  <2>1. room'.phase = room.phase /\ VersionsOnward
    BY <1>1, <1>3 DEF Onward, PhaseOnward
  <2>2. n \in NoteIds
    BY <1>1
  <2>3. notes'[n].pos >= notes[n].pos /\ notes'[n].vis >= notes[n].vis
    BY <2>1, <2>2 DEF VersionsOnward
  <2>4. /\ notes[n].pos \in Nat /\ notes[n].vis \in Nat
        /\ notes'[n].pos \in Nat /\ notes'[n].vis \in Nat
    BY <2>2 DEF Onward, MoveInv, NoteTable
  <2>5. /\ e.targets[n] \in Nat \X Nat
        /\ e.targets[n][1] <= notes[n].pos /\ e.targets[n][2] <= notes[n].vis
    BY <1>3, <2>1 DEF HistoryOK
  <2>6. QED BY <2>3, <2>4, <2>5 DEF Version
<1>4. HistoryOK(p, notes', gver', room'.phase)
  BY <1>1, <1>2, <1>3 DEF HistoryOK
<1>5. ASSUME Outdated(p, notes, gver, room.phase)
      PROVE  Outdated(p, notes', gver', room'.phase)
  BY <1>1, <1>2, <1>3, <1>5 DEF Outdated
<1>6. QED BY <1>4, <1>5

\* A change of what the receipt knows, by whomever, shows in a history that
\* does not follow it.
LEMMA ChangeShows ==
  ASSUME Onward, NEW p, HistoryOK(p, notes, gver, room.phase),
         KnownPart(p.receipt, notes, groups) # KnownPart(p.receipt, notes', groups')
  PROVE  Outdated(p, notes', gver', room'.phase)
<1> DEFINE r == p.receipt
           e == p.expected
           ours(gs) == {g \in ToSet(gs) : g.id \in r.known}
<1> SUFFICES ASSUME ~Outdated(p, notes', gver', room'.phase) PROVE FALSE
  OBVIOUS
<1>1. /\ p.phase \in Nat /\ p.phase <= room.phase /\ room.phase \in Nat /\ room'.phase \in Nat
      /\ DOMAIN e.targets = DOMAIN r.affected /\ DOMAIN r.affected \subseteq NoteIds
      /\ r.known \subseteq DOMAIN e.groups /\ DOMAIN e.groups \subseteq GroupIds
  BY DEF HistoryOK, Onward, PhaseOnward, Versioned
<1>2. /\ ~(p.phase < room'.phase)
      /\ \A n \in DOMAIN r.affected : Version(notes', n) = e.targets[n]
      /\ \A i \in DOMAIN e.groups : gver'[i] = e.groups[i]
  BY <1>1 DEF Outdated
<1>3. p.phase = room.phase /\ room'.phase = room.phase /\ VersionsOnward
  BY <1>1, <1>2 DEF Onward, PhaseOnward
<1>4. ASSUME NEW n \in DOMAIN r.affected
      PROVE  notes'[n].at = notes[n].at /\ notes'[n].shared = notes[n].shared
  <2>1. n \in NoteIds
    BY <1>1
  <2>2. /\ notes[n].pos \in Nat /\ notes[n].vis \in Nat
        /\ notes'[n].pos \in Nat /\ notes'[n].vis \in Nat
    BY <2>1 DEF Onward, MoveInv, NoteTable
  <2>3. e.targets[n][1] <= notes[n].pos /\ e.targets[n][2] <= notes[n].vis
    BY <1>3 DEF HistoryOK
  <2>4. e.targets[n][1] = notes'[n].pos /\ e.targets[n][2] = notes'[n].vis
    BY <1>2 DEF Version
  <2>5. QED BY <1>3, <2>1, <2>2, <2>3, <2>4 DEF VersionsOnward
<1>5. ASSUME NEW i \in r.known PROVE i \notin Touched(groups, groups')
  <2>1. i \in GroupIds /\ e.groups[i] \in Nat /\ e.groups[i] <= gver[i] /\ gver'[i] = e.groups[i]
    BY <1>1, <1>2 DEF HistoryOK
  <2>2. gver[i] \in Nat /\ (i \in Touched(groups, groups') => gver'[i] > gver[i])
    BY <2>1 DEF Onward, Versioned, GroupsOnward
  <2>3. QED BY <2>1, <2>2
<1>6. ours(groups) = ours(groups')
  <2>1. ASSUME NEW g, g.id \in r.known PROVE g \in ToSet(groups) <=> g \in ToSet(groups')
    BY <1>5, <2>1 DEF Touched
  <2>2. QED BY <2>1
<1>7. Part(r, notes, groups).notes = Part(r, notes', groups').notes
  BY <1>4 DEF Part
<1>8. ASSUME NEW ns, NEW gs
      PROVE  {g \in Part(r, ns, gs).groups : g.id \in r.known}
               = {g \in ours(gs) : \/ Touches(g, DOMAIN r.affected)
                                   \/ g.id \in {h.id : h \in r.groupsBefore \cup r.groupsAfter}}
  BY DEF Part
<1> HIDE DEF ours, r
<1>9. QED BY <1>6, <1>7, <1>8 DEF KnownPart, r

\* A history that follows a change of its own connection.
LEMMA HistoryCarried ==
  ASSUME Onward, GroupsOK', room'.phase = room.phase, NEW p, NEW D,
         HistoryOK(p, notes, gver, room.phase),
         NEW q, q.phase = p.phase, q.receipt = p.receipt, q.expected = Carried(p.expected, D)
  PROVE  /\ HistoryOK(q, notes', gver', room'.phase)
         /\ Outdated(p, notes, gver, room.phase) => Outdated(q, notes', gver', room'.phase)
<1> DEFINE r == p.receipt
           e == p.expected
           x == q.expected
           new == {g.id : g \in {h \in ToSet(groups') : /\ gver[h.id] # gver'[h.id]
                                                        /\ Touches(h, DOMAIN e.targets)}}
           stale == \E i \in DOMAIN e.groups : gver[i] # e.groups[i]
<1>1. /\ HistoryOK(p, notes', gver', room'.phase)
      /\ Outdated(p, notes, gver, room.phase) => Outdated(p, notes', gver', room'.phase)
  BY HistoryKept
<1>2. /\ x.targets = [n \in DOMAIN e.targets |->
                        IF n \in D /\ e.targets[n] = Version(notes, n) THEN Version(notes', n)
                        ELSE e.targets[n]]
      /\ x.groups = IF stale THEN e.groups ELSE [i \in DOMAIN e.groups \cup new |-> gver'[i]]
  BY DEF Carried
<1>3. new \subseteq GroupIds
  <2>1. /\ groups' \in Seq(GroupRows)
        /\ \A i, k \in DOMAIN groups' : groups'[i].id = groups'[k].id => i = k
    BY DEF GroupsOK, GroupRows, Keys
  <2>2. ToSet(groups') \subseteq GroupRows
    BY <2>1, GroupsAre
  <2>3. QED BY <2>2 DEF GroupRows
<1>4. /\ DOMAIN e.targets = DOMAIN r.affected /\ DOMAIN r.affected \subseteq NoteIds
      /\ e.targets \in [DOMAIN r.affected -> Nat \X Nat] /\ DOMAIN e.groups \subseteq GroupIds
      /\ r.known \subseteq DOMAIN e.groups
  BY DEF HistoryOK
<1> HIDE DEF new, stale, x
<1>5. ASSUME NEW i \in DOMAIN x.groups
      PROVE  i \in GroupIds /\ x.groups[i] \in Nat /\ x.groups[i] <= gver'[i]
  <2>1. i \in GroupIds
    BY <1>2, <1>3, <1>4
  <2>2. gver'[i] \in Nat
    BY <2>1 DEF Onward, GroupsOnward
  <2>3. CASE stale
    BY <1>1, <1>2, <2>1, <2>3 DEF HistoryOK
  <2>4. CASE ~stale
    <3>1. x.groups[i] = gver'[i]
      BY <1>2, <2>4
    <3>2. QED BY <2>1, <2>2, <3>1
  <2>5. QED BY <2>3, <2>4
<1>6. ASSUME NEW n \in DOMAIN r.affected
      PROVE  /\ x.targets[n] \in Nat \X Nat
             /\ p.phase = room'.phase => /\ x.targets[n][1] <= notes'[n].pos
                                         /\ x.targets[n][2] <= notes'[n].vis
  <2>1. notes'[n].pos \in Nat /\ notes'[n].vis \in Nat
    BY <1>4 DEF Onward, MoveInv, NoteTable
  <2>2. x.targets[n] \in {Version(notes', n), e.targets[n]}
    BY <1>2, <1>4
  <2>3. CASE x.targets[n] = Version(notes', n)
    BY <2>1, <2>3 DEF Version
  <2>4. CASE x.targets[n] = e.targets[n]
    BY <1>1, <1>4, <2>4 DEF HistoryOK
  <2>5. QED BY <2>2, <2>3, <2>4
<1>7. HistoryOK(q, notes', gver', room'.phase)
  <2>1. x.targets \in [DOMAIN r.affected -> Nat \X Nat]
    <3>1. x.targets = [n \in DOMAIN r.affected |-> x.targets[n]]
      BY <1>2, <1>4
    <3>2. QED BY <1>6, <3>1
  <2>2. DOMAIN e.groups \subseteq DOMAIN x.groups
    BY <1>2
  <2>3. QED BY <1>1, <1>4, <1>5, <1>6, <2>1, <2>2 DEF HistoryOK, x
<1>8. ASSUME Outdated(p, notes, gver, room.phase)
      PROVE  Outdated(q, notes', gver', room'.phase)
  <2>1. CASE p.phase < room.phase
    BY <2>1 DEF Outdated
  <2>2. CASE stale
    <3>1. PICK i \in DOMAIN e.groups : gver[i] # e.groups[i]
      BY <2>2 DEF stale
    <3>2. /\ i \in GroupIds /\ gver[i] \in Nat /\ gver'[i] \in Nat /\ gver'[i] >= gver[i]
          /\ e.groups[i] \in Nat /\ e.groups[i] <= gver[i]
      BY <1>4 DEF Onward, Versioned, GroupsOnward, HistoryOK
    <3>3. i \in DOMAIN x.groups /\ x.groups[i] # gver'[i]
      BY <1>2, <2>2, <3>1, <3>2
    <3>4. QED BY <3>3 DEF Outdated, x
  <2>3. CASE ~(p.phase < room.phase) /\ ~stale
    <3>1. PICK n \in DOMAIN e.targets : Version(notes, n) # e.targets[n]
      BY <1>8, <2>3 DEF Outdated, stale
    <3>2. x.targets[n] = e.targets[n] /\ n \in DOMAIN x.targets
      BY <1>2, <3>1
    <3>3. Version(notes', n) # e.targets[n]
      <4>1. p.phase = room.phase
        BY <2>3 DEF HistoryOK, Onward, Versioned
      <4>2. /\ notes[n].pos \in Nat /\ notes[n].vis \in Nat
            /\ notes'[n].pos \in Nat /\ notes'[n].vis \in Nat
            /\ notes'[n].pos >= notes[n].pos /\ notes'[n].vis >= notes[n].vis
        BY <1>4 DEF Onward, MoveInv, NoteTable, PhaseOnward, VersionsOnward
      <4>3. /\ e.targets[n] \in Nat \X Nat
            /\ e.targets[n][1] <= notes[n].pos /\ e.targets[n][2] <= notes[n].vis
        BY <1>4, <4>1 DEF HistoryOK
      <4>4. QED BY <3>1, <4>2, <4>3 DEF Version
    <3>4. QED BY <3>2, <3>3 DEF Outdated, x
  <2>4. QED BY <2>1, <2>2, <2>3
<1>9. QED BY <1>7, <1>8

\* A history begins with the present versions.
LEMMA HistoryBegins ==
  ASSUME Onward, GroupsOK', NEW r, "known" \in DOMAIN r, "affected" \in DOMAIN r,
         DOMAIN r.affected \subseteq NoteIds,
         r.affected = [n \in DOMAIN r.affected |-> Version(notes', n)],
         \A g \in r.groupsBefore : g.id \in GroupIds,
         NEW q, q.phase = room'.phase, q.expected = ExpectedFrom(r, gver', groups'),
         q.receipt = [r EXCEPT !.known = DOMAIN q.expected.groups]
  PROVE  HistoryOK(q, notes', gver', room'.phase)
<1> DEFINE ids == {g.id : g \in {h \in ToSet(groups') \cup r.groupsBefore :
                                   Touches(h, DOMAIN r.affected)}}
<1>1. q.expected.targets = r.affected /\ q.expected.groups = [i \in ids |-> gver'[i]]
  BY DEF ExpectedFrom
<1>2. ids \subseteq GroupIds
  <2>1. /\ groups' \in Seq(GroupRows)
        /\ \A i, k \in DOMAIN groups' : groups'[i].id = groups'[k].id => i = k
    BY DEF GroupsOK, GroupRows, Keys
  <2>2. ToSet(groups') \subseteq GroupRows
    BY <2>1, GroupsAre
  <2>3. QED BY <2>2 DEF GroupRows
<1> HIDE DEF ids
<1>3. q.receipt.affected = r.affected /\ q.receipt.known = ids
  BY <1>1
<1>4. \A i \in ids : gver'[i] \in Nat
  BY <1>2 DEF Onward, GroupsOnward
<1>5. \A n \in DOMAIN r.affected : /\ notes'[n].pos \in Nat /\ notes'[n].vis \in Nat
                                   /\ r.affected[n] = Version(notes', n)
  BY DEF Onward, MoveInv, NoteTable
<1>6. r.affected \in [DOMAIN r.affected -> Nat \X Nat]
  <2>1. \A n \in DOMAIN r.affected : Version(notes', n) \in Nat \X Nat
    BY <1>5 DEF Version
  <2>2. QED BY <2>1
<1>7. room'.phase \in Nat
  BY DEF Onward, PhaseOnward
<1> HIDE DEF ids
<1>8. QED BY <1>1, <1>2, <1>3, <1>4, <1>5, <1>6, <1>7 DEF HistoryOK, Version

-----------------------------------------------------------------------------
(* A step keeps the histories. *)

Noted(by) == Remember(by) \/ (past' = past /\ UNCHANGED <<notes, groups>>)

LEMMA PastGoesOn ==
  ASSUME UndoInv, NEW by, Noted(by), NEW o \in Ops
  PROVE  /\ DOMAIN past' = Ops
         /\ DOMAIN past'[o] = {"others", "knownOthers", "at", "groups"}
         /\ past'[o].knownOthers \in BOOLEAN
         /\ HasReceipt(moves.op[o]) =>
              /\ past'[o].at = past[o].at /\ past'[o].groups = past[o].groups
              /\ past'[o].knownOthers =>
                   \/ past[o].knownOthers
                   \/ /\ by # moves.op[o].conn
                      /\ KnownPart(moves.op[o].receipt, notes, groups)
                           # KnownPart(moves.op[o].receipt, notes', groups')
<1>1. /\ DOMAIN past = Ops /\ DOMAIN past[o] = {"others", "knownOthers", "at", "groups"}
      /\ past[o].knownOthers \in BOOLEAN
  BY DEF UndoInv
<1>2. CASE past' = past
  BY <1>1, <1>2
<1>3. CASE Remember(by)
  <2> DEFINE p == moves.op[o]
             others == past[o].others \/ /\ by # p.conn /\ <<notes, groups>>' # <<notes, groups>>
                                         /\ Part(p.receipt, notes, groups) # Part(p.receipt, notes', groups')
             known == past[o].knownOthers \/ /\ by # p.conn /\ <<notes, groups>>' # <<notes, groups>>
                                             /\ KnownPart(p.receipt, notes, groups)
                                                  # KnownPart(p.receipt, notes', groups')
  <2>1. DOMAIN past' = Ops
    BY <1>3 DEF Remember
  <2>2. past'[o] = IF HasReceipt(p)
                   THEN [past[o] EXCEPT !.others = others, !.knownOthers = known]
                   ELSE IF moves'.op[o].state = "accepted"
                   THEN [NothingPast EXCEPT !.at = [n \in NoteIds |-> notes[n].at],
                                            !.groups = ToSet(groups)]
                   ELSE past[o]
    BY <1>3 DEF Remember, HasReceipt
  <2>3. known \in BOOLEAN
    BY <1>1
  <2>4. known => \/ past[o].knownOthers
                 \/ /\ by # p.conn
                    /\ KnownPart(p.receipt, notes, groups) # KnownPart(p.receipt, notes', groups')
    OBVIOUS
  <2> HIDE DEF others, known
  <2>5. CASE HasReceipt(p)
    BY <1>1, <2>1, <2>2, <2>3, <2>4, <2>5
  <2>6. CASE ~HasReceipt(p)
    BY <1>1, <2>1, <2>2, <2>6 DEF NothingPast
  <2>7. QED BY SMTT(30), <2>5, <2>6
<1>4. QED BY <1>2, <1>3 DEF Noted

LEMMA IdentityIs ==
  ASSUME NEW c \in Conns, Identity(c) \in Conns
  PROVE  Identity(c) = c /\ moves.conn[c].open
BY IdentitiesAssumption DEF Identity

\* The row of an operation that was accepted before.
LEMMA RowGoesOn ==
  ASSUME Onward, UndoInv, GroupsOK', NEW by, Noted(by), SocketsOnward, NEW o \in Ops,
         HasReceipt(moves.op[o]), moves'.op[o].state = "accepted",
         RowFollows(moves.op[o], moves'.op[o]),
         \/ moves'.op[o].expected = moves.op[o].expected
         \/ by \in Conns /\ room'.phase = room.phase /\ CarriedBy(moves.op[o], moves'.op[o], by)
  PROVE  UndoRow(moves'.op[o], past'[o], moves'.conn, notes', gver', room'.phase)
<1> DEFINE p == moves.op[o]
           q == moves'.op[o]
           b == past[o]
<1>1. /\ q.receipt = p.receipt /\ q.conn = p.conn /\ q.phase = p.phase
  BY DEF RowFollows
<1>2. UndoRow(p, b, moves.conn, notes, gver, room.phase)
  BY DEF UndoInv
<1>3. /\ past'[o].at = b.at /\ past'[o].groups = b.groups
      /\ past'[o].knownOthers =>
           \/ b.knownOthers
           \/ by # p.conn /\ KnownPart(p.receipt, notes, groups) # KnownPart(p.receipt, notes', groups')
  BY PastGoesOn
<1>4. OwnerOK(q, moves'.conn)
  BY <1>1, <1>2 DEF UndoRow, OwnerOK, SocketsOnward
<1>5. Remembers(q.receipt, past'[o])
  BY <1>1, <1>2, <1>3 DEF UndoRow, Remembers
<1> HIDE DEF p, q, b
<1>6. CASE q.expected = p.expected
  <2>1. /\ HistoryOK(p, notes', gver', room'.phase)
        /\ Outdated(p, notes, gver, room.phase) => Outdated(p, notes', gver', room'.phase)
    BY <1>2, HistoryKept DEF UndoRow
  <2>2. KnownPart(p.receipt, notes, groups) # KnownPart(p.receipt, notes', groups')
          => Outdated(p, notes', gver', room'.phase)
    BY <1>2, ChangeShows DEF UndoRow
  <2>3. HistoryOK(q, notes', gver', room'.phase)
    BY <1>1, <1>6, <2>1 DEF HistoryOK
  <2>4. Outdated(p, notes', gver', room'.phase) => Outdated(q, notes', gver', room'.phase)
    BY <1>1, <1>6 DEF Outdated
  <2>5. Aware(q, past'[o], notes', gver', room'.phase)
    BY <1>1, <1>2, <1>3, <2>1, <2>2, <2>4 DEF Aware, UndoRow
  <2>6. QED BY <1>4, <1>5, <2>3, <2>5 DEF UndoRow, q
<1>7. CASE /\ by \in Conns /\ room'.phase = room.phase /\ p.conn = Identity(by)
           /\ \E D : q.expected = Carried(p.expected, D)
  <2>1. PICK D : q.expected = Carried(p.expected, D)
    BY <1>7
  <2>2. /\ HistoryOK(q, notes', gver', room'.phase)
        /\ Outdated(p, notes, gver, room.phase) => Outdated(q, notes', gver', room'.phase)
    BY <1>1, <1>2, <1>7, <2>1, HistoryCarried DEF UndoRow
  <2>3. p.conn \in Conns => by = p.conn
    BY <1>7, IdentityIs
  <2>4. Aware(q, past'[o], notes', gver', room'.phase)
    BY <1>1, <1>2, <1>3, <2>2, <2>3 DEF Aware, UndoRow
  <2>5. QED BY <1>4, <1>5, <2>2, <2>4 DEF UndoRow, q
<1>8. QED BY <1>6, <1>7 DEF CarriedBy, p, q

LEMMA NotesOfRows ==
  ASSUME NEW gs, gs \subseteq GroupRows
  PROVE  UNION {NotesOf(g.notes) : g \in gs} \subseteq NoteIds
<1>1. ASSUME NEW g \in gs PROVE NotesOf(g.notes) \subseteq NoteIds
  <2>1. g.notes \in Seq(NoteIds)
    BY DEF GroupRows
  <2>2. QED BY <2>1, RowsFinite DEF NotesOf
<1>2. QED BY <1>1

\* The groups as sets, before and after the step.
LEMMA GroupSets ==
  ASSUME GroupsOK, GroupsOK'
  PROVE  /\ ToSet(groups) \subseteq GroupRows /\ IsFiniteSet(ToSet(groups))
         /\ \A g, h \in ToSet(groups) : g.id = h.id => g = h
         /\ ToSet(groups') \subseteq GroupRows /\ IsFiniteSet(ToSet(groups'))
         /\ \A g, h \in ToSet(groups') : g.id = h.id => g = h
<1>1. /\ groups \in Seq(GroupRows)
      /\ \A i, k \in DOMAIN groups : groups[i].id = groups[k].id => i = k
  BY DEF GroupsOK, GroupRows, Keys
<1>2. /\ groups' \in Seq(GroupRows)
      /\ \A i, k \in DOMAIN groups' : groups'[i].id = groups'[k].id => i = k
  BY DEF GroupsOK, GroupRows, Keys
<1>3. QED BY <1>1, <1>2, GroupsAre

Before(b) == b.at = [n \in NoteIds |-> notes[n].at] /\ b.groups = ToSet(groups)

\* A commit leaves a receipt of exactly what it changed.
LEMMA CommittedRow ==
  ASSUME Onward, GroupsOK, GroupsOK', NEW o \in Ops, Committed(o),
         moves'.op[o].phase = room'.phase, NEW b, Before(b)
  PROVE  /\ HistoryOK(moves'.op[o], notes', gver', room'.phase)
         /\ Remembers(moves'.op[o].receipt, b)
<1> DEFINE p == moves.op[o]
           q == moves'.op[o]
           gone == ToSet(groups) \ ToSet(groups')
           new == ToSet(groups') \ ToSet(groups)
           A == Targets(p) \cup {} \cup UNION {NotesOf(g.notes) : g \in gone \cup new}
<1>1. PICK changed \in BOOLEAN :
        LET r == Receipt(Targets(p), {}, notes', gone, new, p.before, changed)
            x == ExpectedFrom(r, gver', groups')
        IN /\ Targets(p) \subseteq NoteIds /\ DOMAIN p.before = Targets(p)
           /\ \A n \in Targets(p) : notes[n].at = p.before[n]
           /\ q.receipt = [r EXCEPT !.known = DOMAIN x.groups]
           /\ q.expected = x
  BY DEF Committed
<1> DEFINE r == Receipt(Targets(p), {}, notes', gone, new, p.before, changed)
<1>2. /\ DOMAIN r = {"changed", "before", "after", "groupsBefore", "groupsAfter", "affected",
                     "known"}
      /\ r.before = p.before /\ r.groupsBefore = gone /\ r.groupsAfter = new
      /\ r.affected = [n \in A |-> Version(notes', n)]
  BY DEF Receipt
<1>3. /\ q.expected = ExpectedFrom(r, gver', groups')
      /\ q.receipt = [r EXCEPT !.known = DOMAIN q.expected.groups]
      /\ Targets(p) \subseteq NoteIds /\ DOMAIN p.before = Targets(p)
      /\ \A n \in Targets(p) : notes[n].at = p.before[n]
  BY <1>1
<1> HIDE DEF r
<1>4. /\ gone \cup new \subseteq GroupRows /\ IsFiniteSet(gone) /\ IsFiniteSet(new)
      /\ {g \in ToSet(groups) : g.id \in {h.id : h \in gone \cup new}} = gone
  BY GroupSets, FS_Subset
<1>5. A \subseteq NoteIds
  BY <1>3, <1>4, NotesOfRows
<1> HIDE DEF gone, new, A, p, q
<1>6. \A g \in r.groupsBefore : g.id \in GroupIds
  BY <1>2, <1>4 DEF GroupRows
<1>7. DOMAIN r.affected = A
  BY <1>2
<1>8. HistoryOK(q, notes', gver', room'.phase)
  BY <1>2, <1>3, <1>5, <1>6, <1>7, HistoryBegins DEF q
<1>9. /\ q.receipt.before = p.before /\ q.receipt.groupsBefore = gone
      /\ q.receipt.groupsAfter = new
  BY <1>2, <1>3
<1>10. Remembers(q.receipt, b)
  <2>1. \A n \in DOMAIN p.before : b.at[n] = p.before[n]
    BY <1>3 DEF Before
  <2>2. {g \in b.groups : g.id \in {h.id : h \in gone \cup new}} = gone
    BY <1>4 DEF Before
  <2>3. QED BY <1>4, <1>9, <2>1, <2>2 DEF Remembers
<1>11. QED BY <1>8, <1>10 DEF q

\* So does an undo.
LEMMA TakenBackRow ==
  ASSUME Onward, UndoInv, GroupsOK, GroupsOK', NEW o \in Ops, NEW src \in Ops, NEW c,
         TakenBack(o, src, c), moves'.op[o].phase = room'.phase, NEW b, Before(b)
  PROVE  /\ HistoryOK(moves'.op[o], notes', gver', room'.phase)
         /\ Remembers(moves'.op[o].receipt, b)
<1> DEFINE p == moves.op[src]
           q == moves'.op[o]
           r == p.receipt
           back == {g \in ToSet(groups') : g.id \in {h.id : h \in r.groupsBefore}}
           u == [changed |-> TRUE, before |-> r.after, after |-> r.before,
                 groupsBefore |-> r.groupsAfter, groupsAfter |-> back,
                 affected |-> [n \in DOMAIN p.expected.targets |-> Version(notes', n)],
                 known |-> {}]
<1>1. /\ Undoable(p, c)
      /\ q.expected = ExpectedFrom(u, gver', groups')
      /\ q.receipt = [u EXCEPT !.known = DOMAIN q.expected.groups]
  BY Zenon DEF TakenBack
<1>2. UndoRow(p, past[src], moves.conn, notes, gver, room.phase)
  BY <1>1 DEF UndoInv, Undoable, HasReceipt
<1>3. PlacesIn(r.after, DOMAIN p.expected.targets)
  BY Zenon, <1>1 DEF Onward, MoveInv, RowOK, ReceiptOK, Undoable
<1>4. /\ DOMAIN p.expected.targets \subseteq NoteIds
      /\ \A n \in DOMAIN r.after : notes[n].at = r.after[n] /\ n \in NoteIds
      /\ IsFiniteSet(r.groupsAfter) /\ r.groupsAfter \subseteq ToSet(groups)
      /\ \A g \in r.groupsBefore : \/ g.id \in {h.id : h \in r.groupsAfter}
                                   \/ g.id \notin {h.id : h \in ToSet(groups)}
  BY Zenon, <1>1, <1>2, <1>3 DEF UndoRow, HistoryOK, Remembers, Undoable, PlacesIn
<1>5. /\ DOMAIN u = {"changed", "before", "after", "groupsBefore", "groupsAfter", "affected",
                     "known"}
      /\ u.before = r.after /\ u.groupsBefore = r.groupsAfter /\ u.groupsAfter = back
      /\ u.affected = [n \in DOMAIN p.expected.targets |-> Version(notes', n)]
  OBVIOUS
<1> HIDE DEF u, p, q, r
<1>6. \A g \in r.groupsAfter : g.id \in GroupIds
  BY <1>4, GroupSets DEF GroupRows
<1>7. DOMAIN u.affected = DOMAIN p.expected.targets
  BY <1>5
<1>8. HistoryOK(q, notes', gver', room'.phase)
  BY <1>1, <1>4, <1>5, <1>6, <1>7, HistoryBegins DEF q
<1>9. /\ q.receipt.before = r.after /\ q.receipt.groupsBefore = r.groupsAfter
      /\ q.receipt.groupsAfter = back
  BY <1>1, <1>5
<1>10. Remembers(q.receipt, b)
  <2>1. \A n \in DOMAIN r.after : b.at[n] = r.after[n]
    BY <1>4 DEF Before
  <2>2. IsFiniteSet(back)
    BY GroupSets, FS_Subset
  <2>3. {g \in ToSet(groups) : g.id \in {h.id : h \in r.groupsAfter \cup back}} = r.groupsAfter
    BY <1>4, GroupSets
  <2>4. {g \in b.groups : g.id \in {h.id : h \in r.groupsAfter \cup back}} = r.groupsAfter
    BY <2>3 DEF Before
  <2>5. QED BY <1>4, <1>9, <2>1, <2>2, <2>4 DEF Remembers
<1>11. QED BY Zenon, <1>8, <1>10 DEF q

LEMMA ChangedRow ==
  ASSUME Onward, UndoInv, GroupsOK, GroupsOK', NEW c \in Conns, NEW o \in Ops,
         Changes(c, o), Remember(c)
  PROVE  UndoRow(moves'.op[o], past'[o], moves'.conn, notes', gver', room'.phase)
<1> DEFINE q == moves'.op[o]
<1>1. past'[o] = [NothingPast EXCEPT !.at = [n \in NoteIds |-> notes[n].at],
                                     !.groups = ToSet(groups)]
  BY DEF Changes, Remember
<1>2. Before(past'[o]) /\ past'[o].knownOthers = FALSE
  BY <1>1 DEF Before, NothingPast
<1>3. q.phase = room'.phase /\ q.conn = Identity(c)
  BY DEF Changes
<1>4. HistoryOK(q, notes', gver', room'.phase) /\ Remembers(q.receipt, past'[o])
  BY <1>2, <1>3, CommittedRow, TakenBackRow DEF Changes
<1>5. OwnerOK(q, moves'.conn)
  BY <1>3 DEF OwnerOK, Identity, Changes
<1>6. Aware(q, past'[o], notes', gver', room'.phase)
  BY <1>2 DEF Aware
<1>7. QED BY SMTT(30), <1>4, <1>5, <1>6 DEF UndoRow

\* What a step does to the histories: nobody's change, or that of a connection
\* which commits or takes back.
Trail ==
  \/ Still /\ \E by : Noted(by)
  \/ \E c \in Conns, o \in Ops : Changes(c, o) /\ Remember(c)

LEMMA UndoInvKept ==
  ASSUME Onward, UndoInv, GroupsOK, GroupsOK', Trail
  PROVE  UndoInv'
<1>1. Versioned'
  BY DEF Versioned, Onward, PhaseOnward, GroupsOnward
<1>2. PICK by : Noted(by)
  BY DEF Trail, Noted
<1>3. /\ DOMAIN past' = Ops
      /\ \A o \in Ops : /\ DOMAIN past'[o] = {"others", "knownOthers", "at", "groups"}
                        /\ past'[o].knownOthers \in BOOLEAN
  <2>1. DOMAIN past' = Ops
    BY <1>2 DEF Noted, Remember, UndoInv
  <2>2. QED BY SMTT(30), <1>2, <2>1, PastGoesOn
<1>4. ASSUME NEW o \in Ops, HasReceipt(moves'.op[o])
      PROVE  UndoRow(moves'.op[o], past'[o], moves'.conn, notes', gver', room'.phase)
  <2>1. CASE Still
    <3>1. /\ RowFollows(moves.op[o], moves'.op[o]) /\ SocketsOnward
          /\ moves'.op[o].expected = moves.op[o].expected
      BY <1>4, <2>1 DEF Still, RowEnds, HasReceipt
    <3>2. HasReceipt(moves.op[o]) /\ moves'.op[o].state = "accepted"
      BY <1>4, <3>1 DEF HasReceipt, RowFollows
    <3>3. QED BY <1>2, <3>1, <3>2, RowGoesOn
  <2>2. CASE \E c \in Conns, k \in Ops : Changes(c, k) /\ Remember(c)
    <3>1. PICK c \in Conns, k \in Ops : Changes(c, k) /\ Remember(c)
      BY <2>2
    <3>2. CASE o = k
      BY <3>1, <3>2, ChangedRow
    <3>3. CASE o # k
      <4>1. /\ RowFollows(moves.op[o], moves'.op[o]) /\ SocketsOnward
            /\ CarriedBy(moves.op[o], moves'.op[o], c) /\ room'.phase = room.phase
        BY <1>4, <3>1, <3>3 DEF Changes, HasReceipt
      <4>2. HasReceipt(moves.op[o]) /\ moves'.op[o].state = "accepted" /\ Noted(c)
        BY <1>4, <3>1, <4>1 DEF HasReceipt, RowFollows, Noted
      <4>3. QED BY <4>1, <4>2, RowGoesOn
    <3>4. QED BY <3>2, <3>3
  <2>3. QED BY <2>1, <2>2 DEF Trail
<1>5. QED BY <1>1, <1>3, <1>4 DEF UndoInv

\* The two properties of one step.
ExactFor(o) ==
  Becomes(o, "accepted") /\ moves'.op[o].of # None =>
    LET src == moves'.op[o].of
        r == moves.op[src].receipt
        changed == {g.id : g \in r.groupsBefore \cup r.groupsAfter}
    IN /\ \A n \in DOMAIN r.before : notes'[n].at = past[src].at[n]
       /\ {g \in ToSet(groups') : g.id \in changed} = {g \in past[src].groups : g.id \in changed}

SparingFor(o) == Undoes(o) => ~past[moves'.op[o].of].knownOthers

LEMMA UndoneExactly ==
  ASSUME MoveInv, UndoInv, GroupsOK, NEW src \in Ops, NEW c \in Conns, NEW o, TakenBack(o, src, c)
  PROVE  LET r == moves.op[src].receipt
             changed == {g.id : g \in r.groupsBefore \cup r.groupsAfter}
         IN /\ \A n \in DOMAIN r.before : notes'[n].at = past[src].at[n]
            /\ {g \in ToSet(groups') : g.id \in changed}
                 = {g \in past[src].groups : g.id \in changed}
            /\ ~past[src].knownOthers
<1> DEFINE p == moves.op[src]
           r == p.receipt
<1>1. Undoable(p, c) /\ notes' = Placed(notes, r.before) /\ groups' = UndoneGroups(r)
  BY Zenon DEF TakenBack
<1>2. UndoRow(p, past[src], moves.conn, notes, gver, room.phase)
  BY <1>1 DEF UndoInv, Undoable, HasReceipt
<1>3. PlacesIn(r.before, NoteIds)
  <2>1. PlacesIn(r.before, DOMAIN p.expected.targets)
    BY <1>1 DEF MoveInv, RowOK, ReceiptOK, Undoable
  <2>2. QED BY <1>2, <2>1 DEF UndoRow, HistoryOK, PlacesIn
<1>4. ASSUME NEW n \in DOMAIN r.before PROVE notes'[n].at = past[src].at[n]
  <2>1. n \in NoteIds /\ \A k \in DOMAIN r.before \cap NoteIds : r.before[k] \in Places
    BY <1>3 DEF PlacesIn
  <2>2. notes'[n].at = r.before[n]
    BY <1>1, <2>1, PlacedOK DEF MoveInv
  <2>3. QED BY <1>2, <2>2 DEF UndoRow, Remembers
<1>5. {g \in ToSet(groups') : g.id \in {h.id : h \in r.groupsBefore \cup r.groupsAfter}}
        = r.groupsBefore
  <2>1. ToSet(groups') = {g \in ToSet(groups) : g.id \notin {h.id : h \in r.groupsAfter}}
                           \cup r.groupsBefore
    BY <1>1, <1>2, UndoneRows DEF UndoRow, Remembers
  <2>2. \A g \in r.groupsBefore : \/ g.id \in {h.id : h \in r.groupsAfter}
                                  \/ g.id \notin {h.id : h \in ToSet(groups)}
    BY <1>1 DEF Undoable
  <2>3. QED BY <2>1, <2>2
<1>6. ~past[src].knownOthers
  <2>1. p.conn = Identity(c) /\ (moves.conn[c].open \/ moves.conn[c].waiting)
    BY <1>1 DEF Undoable
  <2>2. p.conn \in Conns
    <3>1. ASSUME NEW d \in Conns, p.conn = <<d>>, ~moves.conn[d].open, ~moves.conn[d].waiting
          PROVE  FALSE
      <4>1. CASE moves.conn[c].open
        BY <2>1, <3>1, <4>1, IdentitiesAssumption DEF Identity
      <4>2. CASE ~moves.conn[c].open
        <5>1. <<c>> = <<d>>
          BY <2>1, <3>1, <4>2 DEF Identity
        <5>2. c = d
          BY <5>1
        <5>3. QED BY <2>1, <3>1, <5>2
      <4>3. QED BY <4>1, <4>2
    <3>2. QED BY <1>2, <3>1 DEF UndoRow, OwnerOK
  <2>3. ~Outdated(p, notes, gver, room.phase)
    BY <1>1, <1>2 DEF Undoable, Outdated, UndoRow, HistoryOK
  <2>4. QED BY <1>2, <2>2, <2>3 DEF UndoRow, Aware
<1>7. QED BY <1>2, <1>4, <1>5, <1>6 DEF UndoRow, Remembers

LEMMA UndoStep ==
  ASSUME MoveInv, UndoInv, GroupsOK, Trail, NEW o \in Ops
  PROVE  ExactFor(o) /\ SparingFor(o)
<1> SUFFICES ASSUME Becomes(o, "accepted"), moves'.op[o].of # None
             PROVE  ExactFor(o) /\ SparingFor(o)
  BY Zenon DEF ExactFor, SparingFor, Undoes
<1>1. moves.op[o].state # "accepted" /\ moves'.op[o].state = "accepted"
  BY DEF Becomes
<1>2. ~Still
  BY <1>1 DEF Still, RowEnds, RowFollows
<1>3. PICK c \in Conns, k \in Ops : Changes(c, k)
  BY <1>2 DEF Trail
<1>4. o = k
  BY <1>1, <1>3 DEF Changes, RowFollows
<1>5. PICK src \in Ops : TakenBack(o, src, c)
  BY <1>3, <1>4 DEF Changes, Committed
<1>6. moves'.op[o].of = src
  BY <1>5 DEF TakenBack
<1>7. QED BY <1>5, <1>6, UndoneExactly DEF ExactFor, SparingFor

-----------------------------------------------------------------------------
(* Every step leaves its trail. *)

LEMMA MessageTrail ==
  ASSUME MoveInv, NEW c \in Conns, Message(c)
  PROVE  Trail
<1>1. \A o \in Ops : First(o, BOOLEAN) \subseteq BOOLEAN
  BY FirstIsBoolean
<1>2. CASE \E o \in Ops : \E targets \in First(o, Selections), stale \in First(o, BOOLEAN) :
              Start(c, o, targets, stale)
  <2>1. PICK o \in Ops : \E targets \in First(o, Selections), stale \in First(o, BOOLEAN) :
               Start(c, o, targets, stale)
    BY <1>2
  <2>2. PICK targets \in First(o, Selections), stale \in First(o, BOOLEAN) :
               Start(c, o, targets, stale)
    BY <2>1
  <2>3. (IsNew(o) => targets \in Selections) /\ stale \in BOOLEAN
    BY <1>1, <2>2 DEF First
  <2>4. Still
    BY <2>2, <2>3, StartStep
  <2>5. Remember(c)
    BY <2>2 DEF Start
  <2>6. QED BY <2>4, <2>5 DEF Trail, Noted
<1>3. CASE \E o \in {o \in Ops : ~IsNew(o)} : Preview(c, o) \/ Cancel(c, o) \/ Status(c, o)
  <2>1. Still
    BY <1>3, PreviewEnds, CancelEnds, StatusEnds, EndsOnlyStill
  <2>2. Remember(c)
    BY <1>3 DEF Preview, Cancel, Status
  <2>3. QED BY <2>1, <2>2 DEF Trail, Noted
<1>4. CASE \E o \in Ops : \E delta \in IF IsActive(moves.op[o]) THEN {-1, 0, 1} ELSE {0} :
              Commit(c, o, delta)
  <2>1. PICK o \in Ops, delta \in {-1, 0, 1} : Commit(c, o, delta)
    BY <1>4
  <2>2. Still \/ Changes(c, o)
    BY <2>1, CommitStep
  <2>3. Remember(c)
    BY <2>1 DEF Commit
  <2>4. QED BY <2>2, <2>3 DEF Trail, Noted
<1>5. CASE \E o \in Ops : \E src \in IF IsNew(o) THEN Sources ELSE Sources \cap {o} :
           \E stale \in First(o, BOOLEAN) : TakeBack(c, o, src, stale)
  <2>1. PICK o \in Ops, src \in Ops, stale \in BOOLEAN : TakeBack(c, o, src, stale)
    BY <1>5, ASource
  <2>2. Still \/ Changes(c, o)
    BY <2>1, TakeBackStep
  <2>3. Remember(c)
    BY <2>1 DEF TakeBack
  <2>4. QED BY <2>2, <2>3 DEF Trail, Noted
<1>6. QED BY <1>2, <1>3, <1>4, <1>5 DEF Message

LEMMA OldMessageTrail ==
  ASSUME MoveInv, NEW c \in Conns, OldMessage(c)
  PROVE  Trail
<1>1. Still
  <2>1. CASE \E n \in NoteIds, at \in Places : MoveOne(c, n, at) \/ Publish(c, n, at)
    BY <2>1, MoveOneEnds, PublishEnds, EndsOnlyStill
  <2>2. CASE \E n \in NoteIds : DragStart(c, n)
    BY <2>2, DragStarts
  <2>3. CASE \E n \in NoteIds : Unpublish(c, n)
    BY <2>3, UnpublishEnds, EndsOnlyStill
  <2>4. CASE \E at \in Places : DragMove(c, at) \/ DragEnd(c, at)
    BY <2>4, DragMoveEnds, DragEndEnds, EndsOnlyStill
  <2>5. CASE \/ \E k \in DOMAIN ClustersOf(notes) : CreateGroup(c, ClustersOf(notes)[k])
             \/ \E k \in DOMAIN groups : RenameGroup(c, k)
    BY <2>5, GroupEnds, EndsOnlyStill
  <2>6. CASE CursorLeave(c) \/ Resize(c) \/ Adopt(c)
    BY <2>6, CursorLeaveEnds, ResizeEnds, AdoptEnds, EndsOnlyStill
  <2>7. QED BY <2>1, <2>2, <2>3, <2>4, <2>5, <2>6 DEF OldMessage
<1>2. Remember(c)
  BY Zenon DEF OldMessage, MoveOne, Publish, DragStart, Unpublish, DragMove, DragEnd, CreateGroup,
     RenameGroup, CursorLeave, Resize, Adopt
<1>3. QED BY <1>1, <1>2 DEF Trail, Noted

LEMMA EventTrail ==
  ASSUME MoveInv, Event \/ Alarm
  PROVE  Trail
<1>1. Still
  BY NextStepEnds, RollbackEnds, CompleteEnds, SetTimerEnds, LeaveEnds, SocketClosesEnds,
     TimeEndsEnds, DragLapsesEnds, AlarmEnds, EndsOnlyStill DEF Event
<1>2. \E by : Noted(by)
  BY Zenon DEF Event, NextStep, Rollback, Complete, SetTimer, Leave, SocketCloses, TimeEnds,
     DragLapses, Alarm, Noted
<1>3. QED BY <1>1, <1>2 DEF Trail

LEMMA StepTrail ==
  ASSUME MoveInv, [Next]_vars
  PROVE  Trail
<1>1. CASE Next
  BY <1>1, MessageTrail, OldMessageTrail, EventTrail DEF Next
<1>2. CASE UNCHANGED vars
  <2>1. Still
    BY <1>2 DEF vars, Still, SocketsOnward, RowEnds, RowFollows
  <2>2. QED BY <1>2, <2>1 DEF vars, Trail, Noted
<1>3. QED BY <1>1, <1>2

(* Every step carries the board on. *)

LEMMA TakeBackOnward ==
  ASSUME MoveInv, UndoInv, GroupsOK, NEW c, NEW o, NEW src \in Ops, NEW stale,
         TakeBack(c, o, src, stale)
  PROVE  PhaseOnward /\ GroupsOnward
<1>1. Versioned
  BY DEF UndoInv
<1>2. CASE KeepBoard
  BY <1>1, <1>2, BoardStays DEF KeepBoard
<1>3. CASE MayUndo(Expire(moves), c, src) /\ UndoEffect(c, o, src, Expire(moves))
  <2> DEFINE e == Expire(moves)
             p == e.op[src]
             r == p.receipt
  <2>1. p.state = "accepted" /\ r # None
    BY <1>3 DEF MayUndo
  <2>2. RowEnds(moves.op[src], p)
    BY ExpiredEnds DEF MoveInv, Ends, OpsEnd
  <2>3. HasReceipt(moves.op[src]) /\ moves.op[src].receipt = r
    BY <2>1, <2>2 DEF RowEnds, RowFollows, HasReceipt
  <2>4. IsFiniteSet(r.groupsBefore)
    BY <2>3 DEF UndoInv, UndoRow, Remembers
  <2>5. /\ notes' = Placed(notes, r.before) /\ groups' = UndoneGroups(r)
        /\ gver' = UndoneVersions(r) /\ UNCHANGED room
    BY Zenon, <1>3 DEF UndoEffect
  <2> HIDE DEF e, p, r
  <2>6. QED BY <1>1, <2>4, <2>5, UndoneOnward
<1>4. QED BY <1>2, <1>3 DEF TakeBack

LEMMA MessageOnward ==
  ASSUME MoveInv, UndoInv, GroupsOK, NEW c \in Conns, Message(c)
  PROVE  PhaseOnward /\ GroupsOnward
<1>1. Versioned
  BY DEF UndoInv
<1>2. CASE KeepBoard
  BY <1>1, <1>2, BoardStays DEF KeepBoard
<1>3. CASE \E o \in Ops : \E delta \in {-1, 0, 1} : Commit(c, o, delta)
  BY <1>1, <1>3, CommitOnward
<1>4. CASE \E o \in Ops, src \in Ops, stale \in BOOLEAN : TakeBack(c, o, src, stale)
  BY <1>4, TakeBackOnward
<1>5. CASE \E o \in Ops : \E src \in IF IsNew(o) THEN Sources ELSE Sources \cap {o} :
           \E stale \in First(o, BOOLEAN) : TakeBack(c, o, src, stale)
  BY <1>4, <1>5, ASource
<1>6. QED BY Zenon, <1>2, <1>3, <1>5 DEF Message, Start, Preview, Cancel, Status

LEMMA OldMessageOnward ==
  ASSUME MoveInv, UndoInv, GroupsOK, GroupsOK', NEW c \in Conns, OldMessage(c)
  PROVE  PhaseOnward /\ GroupsOnward
<1>1. Versioned
  BY DEF UndoInv
<1>2. CASE KeepBoard
  BY <1>1, <1>2, BoardStays DEF KeepBoard
<1>3. CASE \E n, at : MoveOne(c, n, at) \/ DragMove(c, at) \/ DragEnd(c, at)
  BY <1>1, <1>3, DragsOnward
<1>4. CASE \E n \in NoteIds : Unpublish(c, n) \/ \E at \in Places : Publish(c, n, at)
  <2>1. CASE \E n \in NoteIds, at \in Places : Publish(c, n, at)
    BY <1>1, <2>1, SharingOnward
  <2>2. CASE \E n \in NoteIds : Unpublish(c, n)
    <3>1. 0 \in Places
      BY BoundsAssumption DEF Places
    <3>2. QED BY <1>1, <2>2, <3>1, SharingOnward
  <2>3. QED BY <1>4, <2>1, <2>2
<1>5. CASE \/ \E cluster : CreateGroup(c, cluster)
           \/ \E k \in DOMAIN groups : RenameGroup(c, k)
  BY <1>1, <1>5, GroupingOnward
<1>6. CASE Resize(c)
  <2>1. UNCHANGED <<notes, groups, gver>> /\ room'.phase = room.phase
    BY <1>6 DEF Resize, MoveInv, RoomOK
  <2>2. QED BY <1>1, <2>1, BoardStays
<1>7. QED BY <1>2, <1>3, <1>4, <1>5, <1>6 DEF OldMessage, DragStart, CursorLeave, Adopt

LEMMA StepOnward ==
  ASSUME MoveInv, UndoInv, GroupsOK, GroupsOK', [Next]_vars
  PROVE  PhaseOnward /\ GroupsOnward
<1>1. Versioned
  BY DEF UndoInv
<1>2. CASE Alarm \/ UNCHANGED vars
  BY <1>1, <1>2, BoardStays DEF Alarm, KeepBoard, vars
<1>3. CASE Event
  BY <1>1, <1>3, PhaseStepOnward, OtherEventsOnward
<1>4. CASE \E c \in Conns : Message(c) \/ OldMessage(c)
  BY <1>4, MessageOnward, OldMessageOnward
<1>5. QED BY <1>2, <1>3, <1>4 DEF Next

-----------------------------------------------------------------------------
(* The types: the step of the room, and that of every checkpoint, is one of *)
(* the agenda, which is what a phase boundary and a rollback go by.          *)

AgendaSteps == {Agenda[i] : i \in DOMAIN Agenda}

RoomInv ==
  /\ room.step \in AgendaSteps /\ room.members \subseteq Users
  /\ \A i \in DOMAIN checkpoints : checkpoints[i].step \in AgendaSteps

\* What any step but a phase boundary does to the room.
RoomStays ==
  /\ UNCHANGED checkpoints /\ room'.step = room.step /\ room'.members \subseteq room.members

LEMMA MessageRoom ==
  ASSUME NEW c, Message(c)
  PROVE  UNCHANGED <<room, checkpoints>>
<1>1. CASE KeepBoard /\ Inside
  BY <1>1 DEF KeepBoard, Inside
<1>2. CASE \E o, delta : Commit(c, o, delta)
  <2>1. PICK o, delta : Commit(c, o, delta)
    BY <1>2
  <2>2. UNCHANGED room
    BY Zenon, <2>1 DEF Commit, CommitEffect, KeepBoard
  <2>3. QED BY <2>1, <2>2 DEF Commit, Inside
<1>3. CASE \E o, src, stale : TakeBack(c, o, src, stale)
  <2>1. PICK o, src, stale : TakeBack(c, o, src, stale)
    BY <1>3
  <2>2. UNCHANGED room
    BY Zenon, <2>1 DEF TakeBack, UndoEffect, KeepBoard
  <2>3. QED BY <2>1, <2>2 DEF TakeBack, Inside
<1>4. CASE \E o \in Ops : \E src \in IF IsNew(o) THEN Sources ELSE Sources \cap {o} :
           \E stale \in First(o, BOOLEAN) : TakeBack(c, o, src, stale)
  BY <1>3, <1>4
<1>5. QED BY Zenon, <1>1, <1>2, <1>4 DEF Message, Start, Preview, Cancel, Status

LEMMA OldMessageRoom ==
  ASSUME MoveInv, NEW c, OldMessage(c)
  PROVE  RoomStays
<1>1. CASE UNCHANGED <<room, checkpoints>>
  BY <1>1 DEF RoomStays
<1>2. CASE \E n, at : MoveOne(c, n, at) \/ Publish(c, n, at) \/ DragMove(c, at) \/ DragEnd(c, at)
  BY <1>1, <1>2 DEF MoveOne, Publish, DragMove, DragEnd, PlaceAndRegroup, KeepBoard, Inside
<1>3. CASE \E n : DragStart(c, n) \/ Unpublish(c, n)
  BY <1>1, <1>3 DEF DragStart, Unpublish, KeepBoard
<1>4. CASE (\E k : RenameGroup(c, k)) \/ (\E cluster : CreateGroup(c, cluster))
  BY <1>1, <1>4 DEF CreateGroup, RenameGroup
<1>5. CASE CursorLeave(c) \/ Adopt(c)
  BY <1>1, <1>5 DEF CursorLeave, Adopt, KeepBoard
<1>6. CASE Resize(c)
  BY <1>6 DEF Resize, RoomStays, MoveInv, RoomOK
<1>7. QED BY <1>2, <1>3, <1>4, <1>5, <1>6 DEF OldMessage

LEMMA EventRoom ==
  ASSUME MoveInv, Event, ~NextStep, ~Rollback
  PROVE  RoomStays
<1>1. CASE Complete \/ \E state : SetTimer(state)
  BY <1>1 DEF Complete, SetTimer, RoomStays, MoveInv, RoomOK
<1>2. CASE \E u : Leave(u)
  BY Zenon, <1>2 DEF Leave, RoomStays, MoveInv, RoomOK
<1>3. CASE \/ \E c, waiting : SocketCloses(c, waiting)
           \/ (\E o : TimeEnds(o)) \/ (\E c : DragLapses(c))
  BY <1>3 DEF SocketCloses, TimeEnds, DragLapses, RoomStays, KeepBoard
<1>4. QED BY <1>1, <1>2, <1>3 DEF Event

LEMMA NextStepRoom ==
  ASSUME MoveInv, RoomInv, NextStep
  PROVE  RoomInv'
<1> DEFINE saved == [notes |-> notes, groups |-> groups, step |-> room.step,
                     timer |-> room.timer]
<1>1. checkpoints' = Append(checkpoints, saved) /\ Position < Len(Agenda)
      /\ room' = [room EXCEPT !.phase = room.phase + 1, !.step = Agenda[Position + 1],
                              !.timer = "idle"]
  BY DEF NextStep
<1>2. room'.step = Agenda[Position + 1] /\ room'.members = room.members
  BY <1>1 DEF MoveInv, RoomOK
<1>3. Position \in DOMAIN Agenda
  BY DEF Position, RoomInv, AgendaSteps
<1>4. Position + 1 \in DOMAIN Agenda
  BY <1>1, <1>3, AgendaAssumption
<1>5. saved.step \in AgendaSteps
  BY DEF RoomInv
<1> HIDE DEF saved
<1>6. ASSUME NEW i \in DOMAIN checkpoints' PROVE checkpoints'[i].step \in AgendaSteps
  BY <1>1, <1>5 DEF MoveInv, CheckpointsOK, RoomInv
<1>7. QED BY <1>2, <1>4, <1>6 DEF RoomInv, AgendaSteps

LEMMA RollbackRoom ==
  ASSUME MoveInv, RoomInv, Rollback
  PROVE  RoomInv'
<1>1. /\ checkpoints # << >> /\ checkpoints' = Front(checkpoints)
      /\ room' = [room EXCEPT !.phase = room.phase + 1, !.map = room.map + 1,
                    !.step = Last(checkpoints).step,
                    !.timer = IF Last(checkpoints).timer = "idle" THEN "idle" ELSE "running"]
  BY DEF Rollback
<1>2. room'.step = Last(checkpoints).step /\ room'.members = room.members
  BY <1>1 DEF MoveInv, RoomOK
<1>3. Len(checkpoints) \in DOMAIN checkpoints /\ Len(checkpoints) \in Nat
  BY <1>1 DEF MoveInv, CheckpointsOK
<1>4. room'.step \in AgendaSteps
  BY <1>2, <1>3 DEF RoomInv, Last
<1>5. ASSUME NEW i \in DOMAIN checkpoints' PROVE checkpoints'[i].step \in AgendaSteps
  <2>1. checkpoints' = SubSeq(checkpoints, 1, Len(checkpoints) - 1)
    BY <1>1 DEF Front
  <2>2. i \in DOMAIN checkpoints /\ checkpoints'[i] = checkpoints[i]
    BY <1>3, <1>5, <2>1 DEF MoveInv, CheckpointsOK
  <2>3. QED BY <2>2 DEF RoomInv
<1>6. QED BY <1>2, <1>4, <1>5 DEF RoomInv

LEMMA RoomKeeps ==
  ASSUME MoveInv, RoomInv, [Next]_vars
  PROVE  RoomInv'
<1>1. CASE RoomStays
  BY <1>1 DEF RoomStays, RoomInv
<1>2. CASE UNCHANGED <<room, checkpoints>>
  BY <1>1, <1>2 DEF RoomStays
<1>3. CASE Alarm \/ UNCHANGED vars
  BY <1>2, <1>3 DEF Alarm, KeepBoard, Inside, vars
<1>4. CASE Event
  BY <1>1, <1>4, EventRoom, NextStepRoom, RollbackRoom
<1>5. CASE \E c \in Conns : Message(c) \/ OldMessage(c)
  BY <1>1, <1>2, <1>5, MessageRoom, OldMessageRoom
<1>6. QED BY <1>3, <1>4, <1>5 DEF Next

-----------------------------------------------------------------------------
(* The groups stay a table with a key. *)

LEMMA ClustersAre ==
  ASSUME NEW ns
  PROVE  ClustersOf(ns) \in Seq(Seq(NoteIds))
<1>1. SharedNotes(ns) \in Seq(NoteIds)
  BY NotesAssumption, ThoseAre DEF SharedNotes
<1>2. QED BY <1>1, ClustersStay DEF ClustersOf

LEMMA GroupIdsAre == GroupIds \subseteq Nat /\ 0 \notin GroupIds /\ FreshIds \subseteq GroupIds
BY BoundsAssumption DEF GroupIds, FreshIds

\* A table of groups as the generic lemmas see it.
LEMMA TableIs ==
  ASSUME NEW gs
  PROVE  gs \in Seq(GroupRows) /\ Keys(gs)
           <=> gs \in Seq(RowsOf(GroupIds, NoteIds)) /\ Keyed(gs, {})
BY DEF GroupRows, RowsOf, Keys, Keyed

\* What a regrouping or the end of the grouping writes.
LEMMA WrittenGroups ==
  ASSUME GroupsOK, NEW gs \in Draft(GroupIds, NoteIds), Supplied(Saved(groups, gs))
  PROVE  Saved(groups, gs) \in Seq(GroupRows) /\ Keys(Saved(groups, gs))
<1>1. groups \in Seq(RowsOf(GroupIds, NoteIds)) /\ Keyed(groups, {})
  BY TableIs DEF GroupsOK
<1>2. QED BY <1>1, GroupIdsAre, SavedRows, TableIs DEF Supplied

LEMMA RegroupedOK ==
  ASSUME GroupsOK, NEW ns, Supplied(Regrouped(ns))
  PROVE  Regrouped(ns) \in Seq(GroupRows) /\ Keys(Regrouped(ns))
<1>1. CASE room.step # "grouping"
  BY <1>1 DEF Regrouped, GroupsOK
<1>2. CASE room.step = "grouping"
  <2> DEFINE gs == Reorganized(ClustersOf(ns), groups, FreshIds)
  <2>1. Regrouped(ns) = Saved(groups, gs)
    BY <1>2 DEF Regrouped
  <2>2. groups \in Seq(RowsOf(GroupIds, NoteIds))
    BY TableIs DEF GroupsOK
  <2>3. gs \in Draft(GroupIds, NoteIds)
    BY <2>2, GroupIdsAre, ClustersAre, ReorganizedStay
  <2> HIDE DEF gs
  <2>4. QED BY <2>1, <2>3, WrittenGroups
<1>3. QED BY <1>1, <1>2

LEMMA FinalizedOK ==
  ASSUME GroupsOK, NEW ns, NEW gs, Supplied(gs),
         gs = Saved(groups, Finalized(ClustersOf(ns), groups, FreshIds))
  PROVE  gs \in Seq(GroupRows) /\ Keys(gs)
<1> DEFINE ds == Finalized(ClustersOf(ns), groups, FreshIds)
<1>1. groups \in Seq(RowsOf(GroupIds, NoteIds))
  BY TableIs DEF GroupsOK
<1>2. ds \in Draft(GroupIds, NoteIds)
  BY <1>1, GroupIdsAre, ClustersAre, FinalizedStay
<1> HIDE DEF ds
<1>3. QED BY <1>2, WrittenGroups DEF ds

\* A set of rows with a key, as a receipt stores it.
KeyedSet(gs) == gs \subseteq GroupRows /\ \A g, h \in gs : g.id = h.id => g = h

GroupInv ==
  /\ GroupsOK
  /\ \A g \in ToSet(groups) : gver[g.id] > 0
  /\ \A k \in DOMAIN checkpoints :
       checkpoints[k].groups \in Seq(GroupRows) /\ Keys(checkpoints[k].groups)
  /\ \A o \in Ops : HasReceipt(moves.op[o]) =>
       KeyedSet(moves.op[o].receipt.groupsBefore) /\ KeyedSet(moves.op[o].receipt.groupsAfter)

LEMMA SameGroups ==
  ASSUME GroupsOK, UNCHANGED groups
  PROVE  GroupsOK'
BY DEF GroupsOK, Keys

LEMMA ListedKeys ==
  ASSUME NEW S, IsFiniteSet(S), \A g, h \in S : g.id = h.id => g = h
  PROVE  Keyed(SetToSeq(S), {})
<1> DEFINE q == SetToSeq(S)
<1>1. q \in [1..Cardinality(S) -> S] /\ IsInjective(q)
  <2> DEFINE n == Cardinality(S)
             Lists(g) == g \in [1..n -> S] /\ IsInjective(g)
  <2>1. n \in Nat /\ ExistsBijection(1..n, S)
    BY FS_CardinalityType
  <2>2. PICK f : f \in Bijection(1..n, S)
    BY <2>1 DEF ExistsBijection
  <2>3. Lists(f)
    BY <2>2 DEF Bijection, Injection, IsInjective
  <2>4. Lists(q)
    BY <2>3 DEF SetToSeq
  <2> HIDE DEF q
  <2>5. QED BY <2>4
<1> HIDE DEF q
<1>2. \A i \in DOMAIN q : q[i] \in S
  BY <1>1
<1>3. QED BY <1>1, <1>2 DEF Keyed, IsInjective, q

LEMMA UndoneOK ==
  ASSUME GroupsOK, NEW r, IsFiniteSet(r.groupsBefore), KeyedSet(r.groupsBefore),
         \A g \in r.groupsBefore : \/ g.id \in {h.id : h \in r.groupsAfter}
                                   \/ g.id \notin {h.id : h \in ToSet(groups)},
         groups' = UndoneGroups(r)
  PROVE  GroupsOK'
<1> DEFINE ids == {h.id : h \in r.groupsAfter}
           q == SetToSeq(r.groupsBefore)
<1>1. groups \in Seq(GroupRows) /\ Keyed(groups, {})
  BY DEF GroupsOK, Keys, Keyed
<1>2. /\ RowsWithout(ids) \in Seq(GroupRows) /\ Keyed(RowsWithout(ids), {})
      /\ ToSet(RowsWithout(ids)) = {g \in ToSet(groups) : g.id \notin ids}
  BY <1>1, RowsWithoutAre
<1>3. q \in Seq(GroupRows) /\ ToSet(q) = r.groupsBefore /\ Keyed(q, {})
  <2>1. q \in Seq(r.groupsBefore) /\ ToSet(q) = r.groupsBefore /\ Keyed(q, {})
    BY SetListed, ListedKeys DEF KeyedSet
  <2>2. QED BY <2>1 DEF KeyedSet
<1> HIDE DEF ids, q
<1>4. \A g \in ToSet(RowsWithout(ids)), h \in ToSet(q) : g.id # h.id
  <2> SUFFICES ASSUME NEW g \in ToSet(groups), g.id \notin ids, NEW h \in r.groupsBefore,
                      g.id = h.id
               PROVE FALSE
    BY <1>2, <1>3
  <2>1. h.id \in ids \/ h.id \notin {k.id : k \in ToSet(groups)}
    BY DEF ids
  <2>2. QED BY <2>1
<1>5. RowsWithout(ids) \o q \in Seq(GroupRows) /\ Keyed(RowsWithout(ids) \o q, {})
  BY <1>2, <1>3, <1>4, JoinedRows, KeyedJoin
<1>6. groups' = RowsWithout(ids) \o q
  BY DEF UndoneGroups, ids, q
<1>7. QED BY <1>5, <1>6 DEF GroupsOK, Keys, Keyed

LEMMA TakeBackGroups ==
  ASSUME MoveInv, UndoInv, GroupInv, NEW c, NEW o, NEW src \in Ops, NEW stale,
         TakeBack(c, o, src, stale)
  PROVE  GroupsOK'
<1>1. CASE KeepBoard
  BY <1>1, SameGroups DEF KeepBoard, GroupInv
<1>2. CASE MayUndo(Expire(moves), c, src) /\ UndoEffect(c, o, src, Expire(moves))
  <2> DEFINE e == Expire(moves)
             p == e.op[src]
             r == p.receipt
  <2>1. /\ p.state = "accepted" /\ r # None
        /\ \A g \in r.groupsBefore : \/ g.id \in {h.id : h \in r.groupsAfter}
                                     \/ g.id \notin {h.id : h \in ToSet(groups)}
    BY Zenon, <1>2 DEF MayUndo
  <2>2. RowEnds(moves.op[src], p)
    BY ExpiredEnds DEF MoveInv, Ends, OpsEnd
  <2>3. HasReceipt(moves.op[src]) /\ moves.op[src].receipt = r
    BY <2>1, <2>2 DEF RowEnds, RowFollows, HasReceipt
  <2>4. IsFiniteSet(r.groupsBefore) /\ KeyedSet(r.groupsBefore)
    BY <2>3 DEF UndoInv, UndoRow, Remembers, GroupInv
  <2>5. groups' = UndoneGroups(r)
    BY Zenon, <1>2 DEF UndoEffect
  <2> HIDE DEF e, p, r
  <2>6. QED BY <2>1, <2>4, <2>5, UndoneOK DEF GroupInv
<1>3. QED BY <1>1, <1>2 DEF TakeBack

LEMMA CommitGroups ==
  ASSUME GroupInv, NEW c, NEW o, NEW delta, Commit(c, o, delta)
  PROVE  GroupsOK'
<1>1. CASE CommitEffect(c, o, delta, Expire(moves))
  <2>1. (groups' = groups \/ groups' = Regrouped(notes')) /\ Supplied(groups')
    BY Zenon, <1>1 DEF CommitEffect
  <2>2. CASE groups' = groups
    BY <2>2, SameGroups DEF GroupInv
  <2>3. CASE groups' = Regrouped(notes')
    <3>1. Regrouped(notes') \in Seq(GroupRows) /\ Keys(Regrouped(notes'))
      BY <2>1, <2>3, RegroupedOK DEF GroupInv
    <3>2. QED BY <2>3, <3>1 DEF GroupsOK, Keys
  <2>4. QED BY <2>1, <2>2, <2>3
<1>2. CASE KeepBoard
  BY <1>2, SameGroups DEF KeepBoard, GroupInv
<1>3. QED BY <1>1, <1>2 DEF Commit

LEMMA MessageGroups ==
  ASSUME MoveInv, UndoInv, GroupInv, NEW c \in Conns, Message(c)
  PROVE  GroupsOK'
<1>1. CASE KeepBoard
  BY <1>1, SameGroups DEF KeepBoard, GroupInv
<1>2. CASE \E o \in Ops : \E delta \in {-1, 0, 1} : Commit(c, o, delta)
  BY <1>2, CommitGroups
<1>3. CASE \E o \in Ops, src \in Ops, stale \in BOOLEAN : TakeBack(c, o, src, stale)
  BY <1>3, TakeBackGroups
<1>4. CASE \E o \in Ops : \E src \in IF IsNew(o) THEN Sources ELSE Sources \cap {o} :
           \E stale \in First(o, BOOLEAN) : TakeBack(c, o, src, stale)
  BY <1>3, <1>4, ASource
<1>5. QED BY Zenon, <1>1, <1>2, <1>4 DEF Message, Start, Preview, Cancel, Status

LEMMA PlaceAndRegroupGroups ==
  ASSUME GroupInv, NEW ns, PlaceAndRegroup(ns)
  PROVE  GroupsOK'
<1>1. groups' = Regrouped(ns) /\ Supplied(groups')
  BY DEF PlaceAndRegroup
<1>2. Regrouped(ns) \in Seq(GroupRows) /\ Keys(Regrouped(ns))
  BY <1>1, RegroupedOK DEF GroupInv
<1>3. QED BY <1>1, <1>2 DEF GroupsOK, Keys

LEMMA CreateGroups ==
  ASSUME GroupInv, NEW c, NEW k \in DOMAIN ClustersOf(notes), CreateGroup(c, ClustersOf(notes)[k])
  PROVE  GroupsOK'
<1> DEFINE i == NewId(FreshIds, {})
           cluster == ClustersOf(notes)[k]
           g == [id |-> i, name |-> "named", notes |-> cluster]
<1>1. groups' = Append(groups, g) /\ FreshIds # {}
  BY DEF CreateGroup
<1>2. i \in FreshIds
  <2>1. FreshIds \subseteq Nat
    BY GroupIdsAre
  <2>2. i = 0 \/ i \in FreshIds \ {}
    BY <2>1, NewIdIs
  <2>3. i # 0
    <3>1. i = CHOOSE x \in FreshIds \ {} : \A y \in FreshIds \ {} : x <= y
      BY <1>1 DEF NewId
    <3>2. \E x \in FreshIds \ {} : \A y \in FreshIds \ {} : x <= y
      BY <1>1, <2>1, Least
    <3>3. i \in FreshIds
      BY <3>1, <3>2
    <3>4. QED BY <3>3, GroupIdsAre
  <2>4. QED BY <2>2, <2>3
<1>3. cluster \in Seq(NoteIds)
  BY ClustersAre
<1> HIDE DEF i, cluster
<1>4. g \in GroupRows /\ g.id = i
  BY <1>2, <1>3, GroupIdsAre DEF GroupRows, GroupNames
<1> HIDE DEF g
<1>5. groups \in Seq(GroupRows) /\ Keyed(groups, {})
  BY DEF GroupInv, GroupsOK, Keys, Keyed
<1>6. i \notin IdsOf(groups)
  <2>1. \A j \in DOMAIN groups : gver[groups[j].id] > 0
    BY DEF GroupInv, ToSet
  <2>2. gver[i] = 0
    BY <1>2 DEF FreshIds
  <2>3. QED BY <2>1, <2>2 DEF IdsOf
<1>7. Append(groups, g) \in Seq(GroupRows) /\ Keyed(Append(groups, g), {})
  BY <1>4, <1>5, <1>6, KeyedAppend
<1>8. QED BY <1>1, <1>7 DEF GroupsOK, Keys, Keyed

LEMMA RenameGroups ==
  ASSUME GroupInv, NEW c, NEW k \in DOMAIN groups, RenameGroup(c, k)
  PROVE  GroupsOK'
<1> DEFINE name == IF groups[k].name = "named" THEN "renamed" ELSE "named"
<1>1. groups' = [groups EXCEPT ![k] = [groups[k] EXCEPT !.name = name]]
  BY DEF RenameGroup
<1>2. name \in GroupNames
  BY DEF GroupNames
<1> HIDE DEF name
<1>3. groups \in Seq(GroupRows) /\ Keys(groups)
  BY DEF GroupInv, GroupsOK
<1>4. groups[k] \in GroupRows
  BY <1>3
<1> DEFINE g == [groups[k] EXCEPT !.name = name]
<1>5. g \in GroupRows /\ g.id = groups[k].id
  BY <1>2, <1>4 DEF GroupRows
<1> HIDE DEF g
<1>6. groups' = [groups EXCEPT ![k] = g]
  BY <1>1 DEF g
<1>7. groups' \in Seq(GroupRows)
  BY <1>3, <1>5, <1>6
<1>8. DOMAIN groups' = DOMAIN groups /\ \A j \in DOMAIN groups : groups'[j].id = groups[j].id
  BY <1>5, <1>6
<1>9. Keys(groups')
  BY <1>3, <1>8 DEF Keys
<1>10. QED BY <1>7, <1>9 DEF GroupsOK, Keys

LEMMA OldMessageGroups ==
  ASSUME GroupInv, NEW c \in Conns, OldMessage(c)
  PROVE  GroupsOK'
<1>1. CASE UNCHANGED groups
  BY <1>1, SameGroups DEF GroupInv
<1>2. CASE \E n, at : MoveOne(c, n, at) \/ DragMove(c, at) \/ DragEnd(c, at)
  BY <1>1, <1>2, PlaceAndRegroupGroups DEF MoveOne, DragMove, DragEnd, KeepBoard
<1>3. CASE \E n, at : Publish(c, n, at)
  BY <1>1, <1>3 DEF Publish
<1>4. CASE \E n : Unpublish(c, n)
  <2>1. PICK n : groups' = WithoutNote(n)
    BY <1>4 DEF Unpublish
  <2>2. groups \in Seq(GroupRows) /\ Keyed(groups, {})
    BY DEF GroupInv, GroupsOK, Keys, Keyed
  <2>3. WithoutNote(n) \in Seq(GroupRows) /\ Keyed(WithoutNote(n), {})
    BY <2>2, ThoseAre DEF WithoutNote
  <2>4. QED BY <2>1, <2>3 DEF GroupsOK, Keys, Keyed
<1>5. CASE \E k \in DOMAIN ClustersOf(notes) : CreateGroup(c, ClustersOf(notes)[k])
  BY <1>5, CreateGroups
<1>6. CASE \E k \in DOMAIN groups : RenameGroup(c, k)
  BY <1>6, RenameGroups
<1>7. CASE \/ (\E n : DragStart(c, n)) \/ CursorLeave(c) \/ Resize(c) \/ Adopt(c)
  BY <1>1, <1>7 DEF DragStart, CursorLeave, Resize, Adopt, KeepBoard
<1>8. QED BY <1>2, <1>3, <1>4, <1>5, <1>6, <1>7 DEF OldMessage

LEMMA EventGroups ==
  ASSUME MoveInv, GroupInv, Event
  PROVE  GroupsOK'
<1>1. CASE UNCHANGED groups
  BY <1>1, SameGroups DEF GroupInv
<1>2. CASE NextStep
  <2> DEFINE gs == Saved(groups, Finalized(ClustersOf(notes), groups, FreshIds))
  <2>1. (groups' = groups \/ groups' = gs) /\ Supplied(groups')
    BY Zenon, <1>2 DEF NextStep
  <2>2. CASE groups' = gs
    <3>1. groups' \in Seq(GroupRows) /\ Keys(groups')
      BY <2>1, <2>2, FinalizedOK DEF GroupInv
    <3>2. QED BY <3>1 DEF GroupsOK, Keys
  <2>3. QED BY <1>1, <2>1, <2>2
<1>3. CASE Rollback
  <2>1. groups' = checkpoints[Len(checkpoints)].groups /\ checkpoints # << >>
    BY <1>3 DEF Rollback, Last
  <2>2. Len(checkpoints) \in DOMAIN checkpoints
    BY <2>1 DEF MoveInv, CheckpointsOK
  <2>3. QED BY <2>1, <2>2 DEF GroupInv, GroupsOK, Keys
<1>4. CASE ~NextStep /\ ~Rollback
  BY Zenon, <1>1, <1>4 DEF Event, SetTimer, Complete, Leave, SocketCloses, TimeEnds, DragLapses,
     KeepBoard
<1>5. QED BY <1>2, <1>3, <1>4

LEMMA StepGroups ==
  ASSUME MoveInv, UndoInv, GroupInv, [Next]_vars
  PROVE  GroupsOK'
<1>1. CASE Alarm \/ UNCHANGED vars
  <2>1. UNCHANGED groups
    BY <1>1 DEF Alarm, KeepBoard, vars
  <2>2. QED BY <2>1, SameGroups DEF GroupInv
<1>2. CASE Event
  BY <1>2, EventGroups
<1>3. CASE \E c \in Conns : Message(c) \/ OldMessage(c)
  BY <1>3, MessageGroups, OldMessageGroups
<1>4. QED BY <1>1, <1>2, <1>3 DEF Next

(* A step keeps the groups, the checkpoints' and the receipts' too. *)

LEMMA CountersKept ==
  ASSUME GroupInv, GroupsOK', Versioned, GroupsOnward
  PROVE  \A g \in ToSet(groups') : gver'[g.id] > 0
<1> SUFFICES ASSUME NEW g \in ToSet(groups') PROVE gver'[g.id] > 0
  OBVIOUS
<1>1. g.id \in GroupIds
  <2>1. groups' \in Seq(GroupRows)
    BY DEF GroupsOK
  <2>2. g \in GroupRows
    BY <2>1, RowsFinite
  <2>3. QED BY <2>2 DEF GroupRows
<1>2. gver[g.id] \in Nat /\ gver'[g.id] \in Nat /\ gver'[g.id] >= gver[g.id]
  BY <1>1 DEF Versioned, GroupsOnward
<1>3. CASE g \in ToSet(groups)
  BY <1>2, <1>3 DEF GroupInv
<1>4. CASE g \notin ToSet(groups)
  <2>1. g.id \in Touched(groups, groups')
    BY <1>4 DEF Touched
  <2>2. QED BY <1>1, <1>2, <2>1 DEF GroupsOnward
<1>5. QED BY <1>3, <1>4

SavedGroups(cs) ==
  \A k \in DOMAIN cs : cs[k].groups \in Seq(GroupRows) /\ Keys(cs[k].groups)

LEMMA CheckpointsKept ==
  ASSUME MoveInv, GroupInv, [Next]_vars
  PROVE  SavedGroups(checkpoints')
<1>1. SavedGroups(checkpoints)
  BY DEF GroupInv, SavedGroups
<1>2. CASE UNCHANGED checkpoints
  BY <1>1, <1>2
<1>3. CASE NextStep
  <2> DEFINE saved == [notes |-> notes, groups |-> groups, step |-> room.step,
                       timer |-> room.timer]
  <2>1. checkpoints' = Append(checkpoints, saved)
    BY <1>3 DEF NextStep
  <2>2. saved.groups \in Seq(GroupRows) /\ Keys(saved.groups)
    BY DEF GroupInv, GroupsOK
  <2> HIDE DEF saved
  <2>3. ASSUME NEW k \in DOMAIN checkpoints'
        PROVE  checkpoints'[k].groups \in Seq(GroupRows) /\ Keys(checkpoints'[k].groups)
    <3>1. checkpoints'[k] = saved \/ (k \in DOMAIN checkpoints /\ checkpoints'[k] = checkpoints[k])
      BY <2>1 DEF MoveInv, CheckpointsOK
    <3>2. QED BY <1>1, <2>2, <3>1 DEF SavedGroups
  <2>4. QED BY <2>3 DEF SavedGroups
<1>4. CASE Rollback
  <2>1. checkpoints' = SubSeq(checkpoints, 1, Len(checkpoints) - 1) /\ checkpoints # << >>
    BY <1>4 DEF Rollback, Front
  <2>2. ASSUME NEW k \in DOMAIN checkpoints'
        PROVE  k \in DOMAIN checkpoints /\ checkpoints'[k] = checkpoints[k]
    <3>1. Len(checkpoints) \in Nat /\ DOMAIN checkpoints = 1..Len(checkpoints)
      BY DEF MoveInv, CheckpointsOK
    <3>2. QED BY <2>1, <3>1 DEF MoveInv, CheckpointsOK
  <2>3. QED BY <1>1, <2>2 DEF SavedGroups
<1>5. CASE Alarm \/ UNCHANGED vars
  BY <1>2, <1>5 DEF Alarm, Inside, vars
<1>6. CASE Event
  BY <1>2, <1>3, <1>4, <1>6, EventRoom DEF RoomStays
<1>7. CASE \E c \in Conns : Message(c) \/ OldMessage(c)
  BY <1>2, <1>7, MessageRoom, OldMessageRoom DEF RoomStays
<1>8. QED BY <1>5, <1>6, <1>7 DEF Next

Stored(r) == KeyedSet(r.groupsBefore) /\ KeyedSet(r.groupsAfter)

LEMMA ReceiptStored ==
  ASSUME GroupInv, GroupsOK', NEW c \in Conns, NEW o \in Ops, Changes(c, o)
  PROVE  Stored(moves'.op[o].receipt)
<1>1. KeyedSet(ToSet(groups)) /\ KeyedSet(ToSet(groups'))
  BY GroupSets DEF GroupInv, KeyedSet
<1>2. CASE Committed(o)
  <2> DEFINE p == moves.op[o]
             q == moves'.op[o]
             gone == ToSet(groups) \ ToSet(groups')
             new == ToSet(groups') \ ToSet(groups)
  <2>1. q.receipt.groupsBefore = gone /\ q.receipt.groupsAfter = new
    BY <1>2 DEF Committed, Receipt
  <2> HIDE DEF q
  <2>2. KeyedSet(gone) /\ KeyedSet(new)
    BY <1>1 DEF KeyedSet
  <2>3. QED BY <2>1, <2>2 DEF Stored, q
<1>3. CASE \E src \in Ops : TakenBack(o, src, c)
  <2>1. PICK src \in Ops : TakenBack(o, src, c)
    BY Zenon, <1>3
  <2> DEFINE r == moves.op[src].receipt
             q == moves'.op[o]
             back == {g \in ToSet(groups') : g.id \in {h.id : h \in r.groupsBefore}}
  <2>2. q.receipt.groupsBefore = r.groupsAfter /\ q.receipt.groupsAfter = back
    BY Zenon, <2>1 DEF TakenBack
  <2>3. HasReceipt(moves.op[src])
    BY <2>1 DEF TakenBack, Undoable, HasReceipt
  <2>4. KeyedSet(r.groupsAfter)
    BY <2>3 DEF GroupInv
  <2> HIDE DEF q
  <2>5. KeyedSet(back)
    BY <1>1 DEF KeyedSet
  <2>6. QED BY <2>2, <2>4, <2>5 DEF Stored, q
<1>4. QED BY <1>2, <1>3 DEF Changes

LEMMA ReceiptsKept ==
  ASSUME GroupInv, GroupsOK', Trail, NEW o \in Ops, HasReceipt(moves'.op[o])
  PROVE  Stored(moves'.op[o].receipt)
<1>1. CASE RowFollows(moves.op[o], moves'.op[o])
  <2>1. HasReceipt(moves.op[o]) /\ moves'.op[o].receipt = moves.op[o].receipt
    BY <1>1 DEF HasReceipt, RowFollows
  <2>2. QED BY <2>1 DEF GroupInv, Stored
<1>2. CASE Still
  BY <1>1, <1>2 DEF Still, RowEnds, HasReceipt
<1>3. CASE \E c \in Conns, k \in Ops : Changes(c, k)
  <2>1. PICK c \in Conns, k \in Ops : Changes(c, k)
    BY <1>3
  <2>2. CASE o = k
    BY <2>1, <2>2, ReceiptStored
  <2>3. CASE o # k
    BY <1>1, <2>1, <2>3 DEF Changes, HasReceipt
  <2>4. QED BY <2>2, <2>3
<1>4. QED BY <1>2, <1>3 DEF Trail

LEMMA GroupsKeep ==
  ASSUME MoveInv, UndoInv, GroupInv, [Next]_vars
  PROVE  GroupInv'
<1>1. GroupsOK /\ GroupsOK' /\ Versioned
  BY StepGroups DEF GroupInv, UndoInv
<1>2. \A g \in ToSet(groups') : gver'[g.id] > 0
  BY <1>1, StepOnward, CountersKept
<1>3. \A k \in DOMAIN checkpoints' :
        checkpoints'[k].groups \in Seq(GroupRows) /\ Keys(checkpoints'[k].groups)
  BY CheckpointsKept DEF SavedGroups
<1>4. \A o \in Ops : HasReceipt(moves'.op[o]) => Stored(moves'.op[o].receipt)
  BY <1>1, StepTrail, ReceiptsKept
<1>5. QED BY <1>1, <1>2, <1>3, <1>4 DEF GroupInv, Stored

LEMMA GroupsInit == Init => GroupInv
<1> SUFFICES ASSUME Init PROVE GroupInv
  OBVIOUS
<1>1. groups \in Seq(GroupRows) /\ Keys(groups)
  BY GroupsAssumption DEF Init
<1>2. checkpoints = << >>
  BY DEF Init
<1>3. \A o \in Ops : ~HasReceipt(moves.op[o])
  BY DEF Init, HasReceipt, Unused
<1>4. ASSUME NEW g \in ToSet(groups) PROVE gver[g.id] > 0
  <2>1. g \in GroupRows
    BY <1>1, RowsFinite
  <2>2. g.id \in GroupIds
    BY <2>1 DEF GroupRows
  <2>3. \E k \in DOMAIN InitGroups : InitGroups[k].id = g.id
    BY DEF Init, ToSet
  <2>4. gver[g.id] = 1
    BY <2>2, <2>3 DEF Init
  <2>5. QED BY <2>4
<1>5. QED BY <1>1, <1>2, <1>3, <1>4 DEF GroupInv, GroupsOK

LEMMA UndoInit == Init => UndoInv
<1> SUFFICES ASSUME Init PROVE UndoInv
  OBVIOUS
<1>1. Versioned
  BY DEF Init, Versioned
<1>2. \A o \in Ops : ~HasReceipt(moves.op[o])
  BY DEF Init, HasReceipt, Unused
<1>3. past = [o \in Ops |-> NothingPast]
  BY DEF Init
<1>4. QED BY <1>1, <1>2, <1>3 DEF UndoInv, NothingPast

LEMMA UndoKeeps ==
  ASSUME MoveInv, MoveInv', UndoInv, GroupsOK, GroupsOK', [Next]_vars
  PROVE  UndoInv' /\ \A o \in Ops : ExactFor(o) /\ SparingFor(o)
<1>1. Trail /\ Versioned
  BY StepTrail DEF UndoInv
<1>2. Onward
  BY <1>1, StepOnward DEF Onward
<1>3. QED BY <1>1, <1>2, UndoInvKept, UndoStep

\* What a history watches tells whether somebody else has changed what its
\* operation had to do with; the groups, stored, saved at a phase boundary or
\* kept in a receipt, never hold two rows with one identifier.
THEOREM HistoriesAreTrue == Spec => [](UndoInv /\ GroupInv)
<1>1. MoveInv /\ MoveInv' /\ UndoInv /\ GroupInv /\ [Next]_vars => UndoInv' /\ GroupInv'
  BY UndoKeeps, GroupsKeep DEF GroupInv
<1>2. QED BY MoveInvariant, UndoInit, GroupsInit, <1>1, PTL DEF Spec

\* Nobody else's change of a place, of a note being shared or of a known group
\* is ever undone.
THEOREM UndoSparesOthers == Spec => UndoTakesNothing
<1>1. MoveInv /\ MoveInv' /\ UndoInv /\ GroupInv /\ GroupInv' /\ [Next]_vars
        => [\A o \in Ops : Undoes(o) => ~past[moves'.op[o].of].knownOthers]_vars
  BY UndoKeeps DEF SparingFor, GroupInv
<1>2. QED BY MoveInvariant, HistoriesAreTrue, <1>1, PTL DEF Spec, UndoTakesNothing

\* An undo puts back exactly the places and the groups its source found.
THEOREM UndoPutsBack == Spec => UndoIsExact
<1>1. MoveInv /\ MoveInv' /\ UndoInv /\ GroupInv /\ GroupInv' /\ [Next]_vars
        => [\A o \in Ops : Becomes(o, "accepted") /\ moves'.op[o].of # None =>
              LET src == moves'.op[o].of
                  r == moves.op[src].receipt
                  changed == {g.id : g \in r.groupsBefore \cup r.groupsAfter}
              IN /\ \A n \in DOMAIN r.before : notes'[n].at = past[src].at[n]
                 /\ {g \in ToSet(groups') : g.id \in changed}
                      = {g \in past[src].groups : g.id \in changed}]_vars
  BY Zenon, UndoKeeps DEF ExactFor, GroupInv
<1>2. QED BY MoveInvariant, HistoriesAreTrue, <1>1, PTL DEF Spec, UndoIsExact

\* The notes stay on the board with versions that count, the rows and the locks
\* name notes and operations that exist, and the room is in a step of the phase.
\* The groups are rows with one identifier each, of notes of the phase.
THEOREM TypesAreKept == Spec => []TypeOK
<1>1. Init => RoomInv
  BY AgendaAssumption DEF Init, RoomInv, AgendaSteps
<1>2. MoveInv /\ RoomInv /\ [Next]_vars => RoomInv'
  BY RoomKeeps
<1>3. MoveInv /\ UndoInv /\ RoomInv /\ GroupInv => TypeOK
  <2> SUFFICES ASSUME MoveInv, UndoInv, RoomInv, GroupInv PROVE TypeOK
    OBVIOUS
  <2>1. notes \in [NoteIds -> [shared: BOOLEAN, at: Places, pos: Nat, vis: Nat]]
    BY DEF MoveInv, NoteTable
  <2>2. gver \in [GroupIds -> Nat]
    BY DEF UndoInv, Versioned
  <2>3. room.step \in Steps /\ room.members \subseteq Users
    BY AgendaAssumption DEF RoomInv, AgendaSteps
  <2>4. \A o \in Ops : /\ moves.op[o].state \in {"none", "active", "accepted", "rejected",
                                                "cancelled", "expired"}
                       /\ Targets(moves.op[o]) \subseteq NoteIds
    BY DEF MoveInv, Tables, Shape, Rows, States, RowOK
  <2>5. moves.lock \in [NoteIds -> Ops \cup {None}]
    BY DEF MoveInv, Tables, Shape, Locks
  <2>6. \A c \in Conns : moves.conn[c].attached \in Ops \cup {None}
    BY DEF MoveInv, Tables, Shape, Attachments
  <2>7. QED BY <2>1, <2>2, <2>3, <2>4, <2>5, <2>6 DEF TypeOK, GroupInv
<1>4. QED BY MoveInvariant, HistoriesAreTrue, <1>1, <1>2, <1>3, PTL DEF Spec
=============================================================================
