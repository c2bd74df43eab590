--------------------------- MODULE MoveOperations ---------------------------
(***************************************************************************)
(* Moving shared notes (workers/room/move-operations.ts), together with    *)
(* everything that interferes: the one-note moves and drags of older       *)
(* clients (note-handlers.ts), groups, phases, rollback, people leaving    *)
(* and connections breaking.                                               *)
(*                                                                         *)
(* A move is an operation the client names.  Starting it locks its notes   *)
(* at the versions the client saw, for a lease that previews extend;       *)
(* committing it moves them all at once; the stored receipt lets the same  *)
(* connection take it back by an inverse operation, which must not undo    *)
(* what somebody else did since.                                           *)
(*                                                                         *)
(* Positions are numbers on a line (x and y are treated alike); notes at   *)
(* the same place are close.  Times are not modelled: a lease or a         *)
(* retention period may end at any moment.                                 *)
(***************************************************************************)
EXTENDS Grouping, Integers

CONSTANTS
    Users,        \* the people who may be in the room
    Conns,        \* connections; a reconnection is a new one
    User,         \* whose connection it is
    Notes,        \* a sequence: the notes of the current phase in listing order
    Author,       \* who wrote each note
    Ops,          \* the identifiers clients choose
    Selections,   \* the sets of notes somebody picks up together
    MaxPlace,     \* places are 0..MaxPlace
    MaxGroup,     \* group identifiers are 1..MaxGroup
    Agenda,       \* the steps of the phase, in order
    OnMap,        \* whether the phase works on the two-axis map
    InitPlace, InitShared, InitGroups,    \* the board at the start
    Outside,      \* what a run lets happen besides moves and their leases
    MaxOutside,   \* and how many interferences (undo and retention apart)
    None

Steps == {"share", "grouping", "vote", "decide", "place"}

ASSUME ConnsAssumption == User \in [Conns -> Users]
ASSUME AgendaAssumption == Agenda \in Seq(Steps) /\ Agenda # << >>
ASSUME BoundsAssumption ==
    MaxPlace \in Nat /\ MaxGroup \in Nat /\ MaxOutside \in Nat /\ OnMap \in BOOLEAN

VARIABLES
    notes,        \* note -> [shared, at, pos, vis]: pos and vis are its versions
    groups,       \* the stored groups
    gver,         \* group_history_versions
    room,         \* [phase, map, step, timer, closed, members]
    moves,        \* [op, lock, conn]: both tables and the socket attachments
    checkpoints,  \* phase_rollback_checkpoints
    alarm,        \* whether an alarm stands for the leases
    outside,      \* how much interference there has been
    past          \* for the properties only: what others did since an operation

vars == <<notes, groups, gver, room, moves, checkpoints, alarm, outside, past>>

NoteIds == ToSet(Notes)
Places == 0..MaxPlace
GroupIds == 1..MaxGroup

\* A message names one note at least (contracts/room-protocol.ts:479).
ASSUME SelectionsAssumption == Selections \subseteq (SUBSET NoteIds) \ {{}}
ASSUME NamesAssumption == None \notin Ops \cup Conns \cup Places /\ Ops \cap Conns = {}
\* The identity given to a message whose socket closed is nobody's connection.
ASSUME IdentitiesAssumption == \A c \in Conns : <<c>> \notin Conns
ASSUME NotesAssumption == Notes \in Seq(NoteIds)
ASSUME BoardAssumption ==
    \A n \in NoteIds : InitPlace[n] \in Places /\ InitShared[n] \in BOOLEAN

\* The names that occur: one somebody gave, one it was changed to, none yet.
GroupNames == {"named", "renamed", Unnamed}
GroupRows == [id : GroupIds, name : GroupNames, notes : Seq(NoteIds)]

\* The identifier is the key of the table.
Keys(gs) == \A i, k \in DOMAIN gs : gs[i].id = gs[k].id => i = k

ASSUME GroupsAssumption == InitGroups \in Seq(GroupRows) /\ Keys(InitGroups)

(************************** the board **************************************)

\* Where moving notes is allowed at all.
Movable(step) == step \in {"share", "grouping", "decide", "place"}

\* The steps in which the map is shown and may be resized.
MapVisible(step) == OnMap /\ step \in {"share", "place"}

Version(ns, n) == <<ns[n].pos, ns[n].vis>>

\* Places that do not move do not change their version (the trigger compares).
Placed(ns, at) ==
    [n \in NoteIds |-> IF n \in DOMAIN at /\ at[n] # ns[n].at
                       THEN [ns[n] EXCEPT !.at = at[n], !.pos = @ + 1] ELSE ns[n]]

SharedNotes(ns) == Those(Notes, {n \in NoteIds : ns[n].shared})

ClustersOf(ns) ==
    Clusters(SharedNotes(ns),
             [n \in NoteIds |-> {k \in NoteIds \ {n} : ns[k].at = ns[n].at}])

\* Identifiers no group ever had.
FreshIds == {i \in GroupIds : gver[i] = 0}

\* A bound of the model: the supply of identifiers lasts.
Supplied(gs) == IdsOf(gs) \subseteq GroupIds

\* The groups after the notes have come to lie as in ns.
Regrouped(ns) ==
    IF room.step # "grouping" THEN groups
    ELSE Saved(groups, Reorganized(ClustersOf(ns), groups, FreshIds))

\* The group triggers.
Counted(before, after) ==
    [i \in GroupIds |-> IF i \in Touched(before, after) THEN gver[i] + 1 ELSE gver[i]]

Touches(group, ns) == NotesOf(group.notes) \cap ns # {}

\* removeNoteGroups
WithoutNote(n) == Those(groups, {g \in ToSet(groups) : ~Touches(g, {n})})

(************************** operations *************************************)

NoTable == [n \in {} |-> 0]

\* start: what the client saw, before: where the notes were, receipt and
\* expected as stored with the operation once it is accepted.
Unused == [state |-> "none", late |-> FALSE, user |-> None, conn |-> None,
           of |-> None, seen |-> NoTable, phase |-> 0, map |-> 0, before |-> NoTable,
           receipt |-> None, expected |-> None]

Targets(p) == DOMAIN p.seen

IsActive(p) == p.state = "active"
IsFinished(p) == p.state \notin {"none", "active"}

\* Mutant of FinishAll: the locks of a settled row are forgotten
FinishAllRowsOnly(m, ops, state) ==
    [m EXCEPT !.op = [o \in Ops |-> IF o \in ops
                          THEN [m.op[o] EXCEPT !.state = state, !.late = FALSE]
                          ELSE m.op[o]],
              !.lock = [n \in NoteIds |-> m.lock[n]]]

\* finish: the row is settled and its locks go.
FinishAll(m, ops, state) ==
    [m EXCEPT !.op = [o \in Ops |-> IF o \in ops
                          THEN [m.op[o] EXCEPT !.state = state, !.late = FALSE]
                          ELSE m.op[o]],
              !.lock = [n \in NoteIds |-> IF m.lock[n] \in ops THEN None ELSE m.lock[n]]]

Finish(m, o, state) == FinishAll(m, {o}, state)

\* Mutant of Forgotten: the name of a dropped receipt is free again
ForgottenWholly(p) ==
    [Unused EXCEPT !.user = p.user]

\* A receipt past its retention leaves its name, so that the name stays used.
Forgotten(p) ==
    [Unused EXCEPT !.state = "expired", !.user = p.user, !.conn = p.conn]

\* expireMoveOperations
Expire(m) ==
    LET lapsed == {o \in Ops : IsActive(m.op[o]) /\ m.op[o].late}
        done == FinishAll(m, lapsed, "expired")
    IN [done EXCEPT !.op = [o \in Ops |-> IF IsFinished(@[o]) /\ @[o].late
                                THEN Forgotten(@[o]) ELSE @[o]]]

\* The active operations ended by the triggers on phases and decisions.
CancelAll(m) == FinishAll(m, {o \in Ops : IsActive(m.op[o])}, "cancelled")

\* releaseConnectionMoves
ReleaseConnection(m, c) ==
    FinishAll(m, {o \in Ops : IsActive(m.op[o]) /\ m.op[o].conn = c}, "cancelled")

NoDrag == [note |-> None, live |-> FALSE]

\* findActiveDrag: the open connections dragging the note, lapsed leases apart.
ActiveDrags(m, n) ==
    {c \in Conns : m.conn[c].open /\ m.conn[c].drag = [note |-> n, live |-> TRUE]}

RetireAllDrags(m) ==
    [m EXCEPT !.conn = [c \in Conns |-> [m.conn[c] EXCEPT !.drag = NoDrag]]]

\* The operation still matches the room: phase, map, notes as seen.
Matches(p, ns, rm) ==
    /\ Movable(rm.step) /\ ~rm.closed
    /\ p.phase = rm.phase /\ p.map = rm.map
    /\ \A n \in Targets(p) : ns[n].shared /\ Version(ns, n) = p.seen[n]

HoldsAll(m, o) == {n \in NoteIds : m.lock[n] = o} = Targets(m.op[o])

\* presenceOperation
Presents(m, ns, rm, c) ==
    LET o == m.conn[c].attached IN
    /\ User[c] \in rm.members
    /\ IsActive(m.op[o]) /\ ~m.op[o].late
    /\ m.op[o].user = User[c] /\ m.op[o].conn = c
    /\ Matches(m.op[o], ns, rm) /\ HoldsAll(m, o)

\* syncMovePresence: a connection whose operation no longer stands loses it.
Sync(m, ns, rm) ==
    LET gone == {c \in Conns : /\ m.conn[c].open /\ m.conn[c].attached # None
                               /\ ~Presents(m, ns, rm, c)}
        ended == {o \in Ops : IsActive(m.op[o]) /\ \E c \in gone : m.conn[c].attached = o}
    IN [FinishAll(m, ended, "cancelled") EXCEPT
            !.conn = [c \in Conns |-> IF c \in gone THEN [@[c] EXCEPT !.attached = None]
                                      ELSE @[c]]]

\* The identity an operation is bound to.  A socket that closed while its
\* message waited has lost its own and is given a new one.
Identity(c) == IF moves.conn[c].open THEN c ELSE <<c>>

(************************** what the properties look at ********************)

\* The part of the board an accepted operation changed: its notes, and the
\* groups with such notes or named in its receipt.
Part(r, ns, gs) ==
    [notes  |-> [n \in DOMAIN r.affected |-> <<ns[n].at, ns[n].shared>>],
     groups |-> {g \in ToSet(gs) : \/ Touches(g, DOMAIN r.affected)
                                   \/ g.id \in {h.id : h \in r.groupsBefore \cup r.groupsAfter}}]

\* The groups of the receipt alone, without those it never knew.
KnownPart(r, ns, gs) ==
    [notes  |-> Part(r, ns, gs).notes,
     groups |-> {g \in Part(r, ns, gs).groups : g.id \in r.known}]

NothingPast == [others |-> FALSE, knownOthers |-> FALSE, at |-> NoTable, groups |-> {}]

\* Updates `past` in a step taken by connection `by` (None: the system).
Remember(by) ==
    past' = [o \in Ops |->
        LET p == moves.op[o] IN
        IF p.state = "accepted" /\ p.receipt # None
        THEN [past[o] EXCEPT
                !.others = @ \/ /\ by # p.conn /\ <<notes, groups>>' # <<notes, groups>>
                                /\ Part(p.receipt, notes, groups) # Part(p.receipt, notes', groups'),
                !.knownOthers = @ \/ /\ by # p.conn /\ <<notes, groups>>' # <<notes, groups>>
                                     /\ KnownPart(p.receipt, notes, groups)
                                         # KnownPart(p.receipt, notes', groups')]
        ELSE IF moves'.op[o].state = "accepted"
        THEN [NothingPast EXCEPT !.at = [n \in NoteIds |-> notes[n].at],
                                 !.groups = ToSet(groups)]
        ELSE past[o]]

(************************** steps ******************************************)

Init ==
    /\ notes = [n \in NoteIds |-> [shared |-> InitShared[n], at |-> InitPlace[n],
                                   pos |-> 0, vis |-> 0]]
    /\ groups = InitGroups
    /\ gver = [i \in GroupIds |-> IF \E k \in DOMAIN InitGroups : InitGroups[k].id = i
                                  THEN 1 ELSE 0]
    /\ room = [phase |-> 1, map |-> 0, step |-> Agenda[1], timer |-> "running",
               closed |-> FALSE, members |-> Users]
    /\ moves = [op   |-> [o \in Ops |-> Unused],
                lock |-> [n \in NoteIds |-> None],
                conn |-> [c \in Conns |-> [open |-> TRUE, waiting |-> FALSE,
                                           attached |-> None, drag |-> NoDrag]]]
    /\ checkpoints = << >>
    /\ alarm = FALSE
    /\ outside = 0
    /\ past = [o \in Ops |-> NothingPast]

\* A message of the connection is handled.  One that was already being
\* authorised when its socket closed is still carried out, once.
Handles(c) ==
    /\ moves.conn[c].open \/ moves.conn[c].waiting
    /\ User[c] \in room.members

\* The attachment of a closed socket is out of reach afterwards.
Answered(m, c) == [m EXCEPT !.conn[c].waiting = FALSE]

\* The gate before the handlers of board changes.
Allowed(c) ==
    /\ Handles(c) /\ ~room.closed
    /\ room.timer \in {"running", "ended"}
    /\ Movable(room.step)

\* Mutant of SyncAlarm: no alarm is set for moves
SyncAlarmForDrags ==
    alarm' = \E c \in Conns : moves'.conn[c].drag # NoDrag

\* syncRoomAlarm, as far as leases are concerned.
SyncAlarm ==
    alarm' = \/ \E o \in Ops : IsActive(moves'.op[o])
             \/ \E c \in Conns : moves'.conn[c].drag # NoDrag

\* The table and the attachments after a handler of a board change: what
\* moved on the board may have ended somebody's operation.
SettleMoves(m, c) == moves' = Sync(Answered(m, c), notes', room')

KeepBoard == UNCHANGED <<notes, groups, gver, room>>
Inside == UNCHANGED <<outside, checkpoints>>
FromOutside(kind) == kind \in Outside /\ outside < MaxOutside /\ outside' = outside + 1

\* validate
Valid(m, p) == Matches(p, notes, room) /\ \A n \in Targets(p) : ActiveDrags(m, n) = {}

\* note:move:start.  `seen` are the versions the client believes in.
Start(c, o, targets, stale) ==
    LET seen == [n \in targets |-> <<notes[n].pos, notes[n].vis + (IF stale THEN 1 ELSE 0)>>]
        expired == Expire(moves)
        synced == Sync(expired, notes, room)
        p == [Unused EXCEPT !.state = "active", !.user = User[c], !.conn = Identity(c),
                            !.seen = seen, !.phase = room.phase, !.map = room.map,
                            !.before = [n \in targets |-> notes[n].at]]
        granted == /\ synced.conn[c].attached = None
                   /\ Valid(synced, p)
                   /\ \A n \in targets : synced.lock[n] = None
        started == [synced EXCEPT
                       !.op[o] = p,
                       !.lock = [n \in NoteIds |-> IF n \in targets THEN o ELSE @[n]],
                       !.conn[c].attached = IF moves.conn[c].open THEN o ELSE @]
    IN /\ Allowed(c)
       /\ KeepBoard /\ Inside
       /\ SettleMoves(IF expired.op[o].state # "none" THEN expired
                      ELSE IF granted THEN started ELSE synced, c)
       /\ SyncAlarm
       /\ Remember(c)

\* The operation the message may go on with (activeOperation).
Mine(m, c, o) == m.op[o].user = User[c] /\ IsActive(m.op[o]) /\ m.op[o].conn = Identity(c)
Stands(m, o) == Valid(m, m.op[o]) /\ HoldsAll(m, o)

\* note:move:preview extends the lease.
Preview(c, o) ==
    LET expired == Expire(moves) IN
    /\ Allowed(c)
    /\ KeepBoard /\ Inside
    /\ SettleMoves(IF ~Mine(expired, c, o) THEN expired
                   ELSE IF ~Stands(expired, o) THEN Finish(expired, o, "rejected")
                   ELSE [expired EXCEPT !.op[o].late = FALSE], c)
    /\ SyncAlarm
    /\ Remember(c)

\* Mutant of Clamped: notes may be moved off the board at one side
ClampedBelow(ns, targets, delta) ==
    LET low == CHOOSE a \in Places : /\ \E n \in targets : ns[n].at = a
                                     /\ \A n \in targets : ns[n].at >= a
        high == CHOOSE a \in Places : /\ \E n \in targets : ns[n].at = a
                                      /\ \A n \in targets : ns[n].at <= a
    IN IF low + delta < 0 THEN 0 - low ELSE delta

\* clampDelta: all notes of the move stay on the board.
Clamped(ns, targets, delta) ==
    LET low == CHOOSE a \in Places : /\ \E n \in targets : ns[n].at = a
                                     /\ \A n \in targets : ns[n].at >= a
        high == CHOOSE a \in Places : /\ \E n \in targets : ns[n].at = a
                                      /\ \A n \in targets : ns[n].at <= a
    IN IF low + delta < 0 THEN 0 - low
       ELSE IF high + delta > MaxPlace THEN MaxPlace - high ELSE delta

\* advanceHistory: the histories of the same connection follow its own change.
\* `before` and `after` are the versions of the notes the change affected.
Advanced(op, c, before, after, gbefore, gafter, gs) ==
    LET Follow(e) ==
          [targets |-> [n \in DOMAIN e.targets |->
                          IF n \in DOMAIN before /\ e.targets[n] = before[n]
                          THEN after[n] ELSE e.targets[n]],
           groups  |->
              IF \E i \in DOMAIN e.groups : gbefore[i] # e.groups[i] THEN e.groups
              ELSE [i \in DOMAIN e.groups \cup
                          {g.id : g \in {h \in ToSet(gs) : /\ gbefore[h.id] # gafter[h.id]
                                                           /\ Touches(h, DOMAIN e.targets)}}
                      |-> gafter[i]]]
    IN [o \in Ops |->
          IF /\ op[o].state = "accepted" /\ op[o].expected # None
             /\ op[o].user = User[c] /\ op[o].conn = Identity(c)
          THEN [op[o] EXCEPT !.expected = Follow(@)] ELSE op[o]]

\* expectedFrom: what must not have changed when the operation is undone.
ExpectedFrom(r, gafter, gs) ==
    [targets |-> r.affected,
     groups  |-> [i \in {g.id : g \in {h \in ToSet(gs) \cup r.groupsBefore :
                                          Touches(h, DOMAIN r.affected)}} |-> gafter[i]]]

\* What the row of an accepted operation stores about its effect.
Receipt(targets, extra, ns, gsBefore, gsAfter, before, changed) ==
    LET affected == targets \cup extra
                    \cup UNION {NotesOf(g.notes) : g \in gsBefore \cup gsAfter}
    IN [changed |-> changed, before |-> before,
        after |-> [n \in targets |-> ns[n].at],
        groupsBefore |-> gsBefore, groupsAfter |-> gsAfter,
        affected |-> [n \in affected |-> Version(ns, n)],
        known |-> {}]

\* Mutant of CommitEffect: every note is kept on the board on its own
CommitEffectApart(c, o, delta, expired) ==
    LET p == expired.op[o]
        d == delta
        r == Receipt(Targets(p), {}, notes', ToSet(groups) \ ToSet(groups'),
                     ToSet(groups') \ ToSet(groups), p.before, d # 0)
        followed == IF d = 0 THEN expired.op
                    ELSE Advanced(expired.op, c, [n \in DOMAIN r.affected |-> Version(notes, n)],
                                  r.affected, gver, gver', groups')
        expected == ExpectedFrom(r, gver', groups')
    IN /\ notes' = Placed(notes, [n \in Targets(p) |-> notes[n].at + Clamped(notes, {n}, d)])
       /\ groups' = IF d # 0 THEN Regrouped(notes') ELSE groups
       /\ Supplied(groups') /\ gver' = Counted(groups, groups')
       /\ UNCHANGED room
       /\ SettleMoves(Finish([expired EXCEPT
              !.op = [followed EXCEPT ![o].receipt = [r EXCEPT !.known = DOMAIN expected.groups],
                                      ![o].expected = expected]], o, "accepted"), c)

\* The effect of a valid commit on the board and the tables.
CommitEffect(c, o, delta, expired) ==
    LET p == expired.op[o]
        d == Clamped(notes, Targets(p), delta)
        r == Receipt(Targets(p), {}, notes', ToSet(groups) \ ToSet(groups'),
                     ToSet(groups') \ ToSet(groups), p.before, d # 0)
        followed == IF d = 0 THEN expired.op
                    ELSE Advanced(expired.op, c, [n \in DOMAIN r.affected |-> Version(notes, n)],
                                  r.affected, gver, gver', groups')
        expected == ExpectedFrom(r, gver', groups')
    IN /\ notes' = Placed(notes, [n \in Targets(p) |-> notes[n].at + d])
       /\ groups' = IF d # 0 THEN Regrouped(notes') ELSE groups
       /\ Supplied(groups') /\ gver' = Counted(groups, groups')
       /\ UNCHANGED room
       /\ SettleMoves(Finish([expired EXCEPT
              !.op = [followed EXCEPT ![o].receipt = [r EXCEPT !.known = DOMAIN expected.groups],
                                      ![o].expected = expected]], o, "accepted"), c)

\* note:move:commit
Commit(c, o, delta) ==
    LET expired == Expire(moves) IN
    /\ Allowed(c)
    /\ \/ /\ Mine(expired, c, o) /\ Stands(expired, o)
          /\ CommitEffect(c, o, delta, expired)
       \/ /\ ~(Mine(expired, c, o) /\ Stands(expired, o))
          /\ KeepBoard
          /\ SettleMoves(IF Mine(expired, c, o) THEN Finish(expired, o, "rejected")
                         ELSE expired, c)
    /\ Inside
    /\ SyncAlarm
    /\ Remember(c)

\* note:move:cancel
Cancel(c, o) ==
    LET expired == Expire(moves) IN
    /\ Handles(c) /\ ~room.closed
    /\ KeepBoard /\ Inside
    /\ IF expired.op[o].user # User[c] THEN moves' = Answered(expired, c)
       ELSE SettleMoves(IF Mine(expired, c, o) THEN Finish(expired, o, "cancelled")
                        ELSE expired, c)
    /\ SyncAlarm
    /\ Remember(c)

\* note:move:status, also after the room has closed; no alarm is set here.
Status(c, o) ==
    LET expired == Expire(moves) IN
    /\ Handles(c)
    /\ KeepBoard /\ Inside
    /\ SettleMoves(IF /\ room.closed /\ IsActive(expired.op[o])
                      /\ expired.op[o].user = User[c]
                   THEN Finish(expired, o, "cancelled") ELSE expired, c)
    /\ UNCHANGED alarm
    /\ Remember(c)

\* Mutant of MayUndo: a source from another phase is accepted
MayUndoRewound(m, c, src) ==
    LET p == m.op[src]
        r == p.receipt
        e == p.expected
        ids == {g.id : g \in ToSet(groups)}
    IN /\ room.timer = "running" /\ ~room.closed /\ Movable(room.step)
       /\ p.state = "accepted" /\ r # None
       /\ r.changed
       /\ p.user = User[c] /\ p.conn = Identity(c)
       /\ \A i \in DOMAIN e.groups : gver[i] = e.groups[i]
       /\ \A g \in ToSet(groups) : Touches(g, DOMAIN e.targets) => g.id \in DOMAIN e.groups
       /\ \A n \in DOMAIN e.targets : /\ notes[n].shared
                                      /\ Version(notes, n) = e.targets[n]
                                      /\ m.lock[n] = None
                                      /\ ActiveDrags(m, n) = {}
       /\ \A n \in DOMAIN r.after : notes[n].at = r.after[n]
       /\ r.groupsAfter \subseteq ToSet(groups)
       /\ \A g \in r.groupsBefore : g.id \in {h.id : h \in r.groupsAfter} \/ g.id \notin ids

\* What must hold for the undo of `src` to be let through: the source is this
\* connection's own accepted change and nothing it changed is different now.
MayUndo(m, c, src) ==
    LET p == m.op[src]
        r == p.receipt
        e == p.expected
        ids == {g.id : g \in ToSet(groups)}
    IN /\ room.timer = "running" /\ ~room.closed /\ Movable(room.step)
       /\ p.state = "accepted" /\ r # None
       /\ r.changed
       /\ p.user = User[c] /\ p.conn = Identity(c)
       /\ p.phase = room.phase /\ p.map = room.map
       /\ \A i \in DOMAIN e.groups : gver[i] = e.groups[i]
       /\ \A g \in ToSet(groups) : Touches(g, DOMAIN e.targets) => g.id \in DOMAIN e.groups
       /\ \A n \in DOMAIN e.targets : /\ notes[n].shared
                                      /\ Version(notes, n) = e.targets[n]
                                      /\ m.lock[n] = None
                                      /\ ActiveDrags(m, n) = {}
       /\ \A n \in DOMAIN r.after : notes[n].at = r.after[n]
       /\ r.groupsAfter \subseteq ToSet(groups)
       /\ \A g \in r.groupsBefore : g.id \in {h.id : h \in r.groupsAfter} \/ g.id \notin ids

\* A rejected request keeps its row, so that its fate can be asked for.
Denied(m, c, o, src) ==
    [m EXCEPT !.op[o] = [Unused EXCEPT !.state = "rejected", !.user = User[c],
                                       !.conn = Identity(c), !.of = src]]

\* The stored rows without those of the identifiers.
RowsWithout(ids) == Those(groups, {g \in ToSet(groups) : g.id \notin ids})

\* Mutant of UndoneGroups: groups the source dissolved do not come back
UndoneGroupsGone(r) ==
    RowsWithout({h.id : h \in r.groupsAfter})

\* The groups after an undo: those the source made go, those it found come back.
UndoneGroups(r) ==
    RowsWithout({h.id : h \in r.groupsAfter}) \o SetToSeq(r.groupsBefore)

\* Deleting and inserting a row counts twice.
UndoneVersions(r) ==
    [i \in GroupIds |-> gver[i] + (IF i \in {g.id : g \in r.groupsAfter} THEN 1 ELSE 0)
                              + (IF i \in {g.id : g \in r.groupsBefore} THEN 1 ELSE 0)]

\* The effect of an inverse operation that is let through.
UndoEffect(c, o, src, expired) ==
    LET p == expired.op[src]
        r == p.receipt
        ns == Placed(notes, r.before)
        gs == UndoneGroups(r)
        gv == UndoneVersions(r)
        undone == [changed |-> TRUE, before |-> r.after, after |-> r.before,
                   groupsBefore |-> r.groupsAfter,
                   groupsAfter |-> {g \in ToSet(gs) : g.id \in {h.id : h \in r.groupsBefore}},
                   affected |-> [n \in DOMAIN p.expected.targets |-> Version(ns, n)],
                   known |-> {}]
        followed == Advanced(expired.op, c,
                             [n \in DOMAIN undone.affected |-> Version(notes, n)],
                             undone.affected, gver, gv, gs)
        expected == ExpectedFrom(undone, gv, gs)
        row == [Unused EXCEPT !.state = "accepted", !.user = User[c], !.conn = Identity(c),
                              !.of = src, !.phase = p.phase, !.map = p.map,
                              !.before = undone.before,
                              !.receipt = [undone EXCEPT !.known = DOMAIN expected.groups],
                              !.expected = expected]
    IN /\ notes' = ns /\ groups' = gs /\ gver' = gv /\ UNCHANGED room
       /\ SettleMoves([expired EXCEPT !.op = [followed EXCEPT ![o] = row]], c)

\* note:move:inverse.  The client names the versions it wants taken back; when
\* they are not the stored ones (`stale`), the request is denied.
TakeBack(c, o, src, stale) ==
    LET expired == Expire(moves)
        undo == ~stale /\ MayUndo(expired, c, src) IN
    /\ Handles(c)
    /\ \/ /\ expired.op[o].state # "none"
          /\ KeepBoard /\ SettleMoves(expired, c)
       \/ /\ expired.op[o].state = "none" /\ ~undo
          /\ KeepBoard /\ SettleMoves(Denied(expired, c, o, src), c)
       \/ /\ expired.op[o].state = "none" /\ undo
          /\ UndoEffect(c, o, src, expired)
    /\ Inside
    /\ SyncAlarm
    /\ Remember(c)

(************************** older clients **********************************)

PlaceAndRegroup(ns) ==
    /\ notes' = ns /\ groups' = Regrouped(ns) /\ Supplied(groups')
    /\ gver' = Counted(groups, groups')
    /\ UNCHANGED room

\* note:move: one note, refused while it is locked or dragged.
MoveOne(c, n, at) ==
    LET expired == Expire(moves) IN
    /\ FromOutside("drag") /\ Allowed(c)
    /\ notes[n].shared
    /\ \/ /\ expired.lock[n] = None /\ ActiveDrags(expired, n) = {}
          /\ PlaceAndRegroup(Placed(notes, [k \in {n} |-> at]))
       \/ /\ ~(expired.lock[n] = None /\ ActiveDrags(expired, n) = {})
          /\ KeepBoard
    /\ SettleMoves(expired, c)
    /\ UNCHANGED <<checkpoints, alarm>>
    /\ Remember(c)

\* Whose private note may be dragged onto the map.
OwnOnMap(c, n) == /\ ~notes[n].shared /\ OnMap /\ room.step = "share"
                  /\ Author[n] = User[c]

\* Mutant of DragStart: locked notes may be dragged
DragStartDespiteLock(c, n) ==
    LET expired == Expire(moves)
        drag == moves.conn[c].drag
        current == moves.conn[c].open /\ drag.live
        accepted == /\ ActiveDrags(expired, n) \subseteq {c}
    IN /\ FromOutside("drag") /\ Allowed(c)
       /\ notes[n].shared \/ OwnOnMap(c, n)
       /\ current => drag.note = n
       /\ KeepBoard
       /\ SettleMoves(IF accepted THEN [expired EXCEPT !.conn[c].drag =
                                            [note |-> n, live |-> TRUE]]
                      ELSE expired, c)
       /\ SyncAlarm
       /\ UNCHANGED checkpoints
       /\ Remember(c)

\* note:drag:start.  A connection that drags already is refused, unless it
\* repeats the request.
DragStart(c, n) ==
    LET expired == Expire(moves)
        drag == moves.conn[c].drag
        current == moves.conn[c].open /\ drag.live
        accepted == /\ expired.lock[n] = None
                    /\ ActiveDrags(expired, n) \subseteq {c}
    IN /\ FromOutside("drag") /\ Allowed(c)
       /\ notes[n].shared \/ OwnOnMap(c, n)
       /\ current => drag.note = n
       /\ KeepBoard
       /\ SettleMoves(IF accepted THEN [expired EXCEPT !.conn[c].drag =
                                            [note |-> n, live |-> TRUE]]
                      ELSE expired, c)
       /\ SyncAlarm
       /\ UNCHANGED checkpoints
       /\ Remember(c)

Dragging(c) == moves.conn[c].open /\ moves.conn[c].drag.live

\* note:drag:move writes every position it receives and extends the lease; a
\* note that went private ends the drag.
DragMove(c, at) ==
    LET n == moves.conn[c].drag.note IN
    /\ FromOutside("drag") /\ Allowed(c) /\ Dragging(c)
    /\ \/ /\ notes[n].shared
          /\ notes' = Placed(notes, [k \in {n} |-> at])
          /\ UNCHANGED <<groups, gver, room>>
          /\ SettleMoves(moves, c)
       \/ /\ ~notes[n].shared
          /\ KeepBoard
          /\ SettleMoves(IF OwnOnMap(c, n) THEN moves
                         ELSE [moves EXCEPT !.conn[c].drag = NoDrag], c)
    /\ SyncAlarm
    /\ UNCHANGED checkpoints
    /\ Remember(c)

\* note:drag:end, with or without a last position.
DragEnd(c, at) ==
    LET n == moves.conn[c].drag.note IN
    /\ Allowed(c) /\ Dragging(c)
    /\ IF notes[n].shared THEN PlaceAndRegroup(Placed(notes, [k \in {n} |-> at]))
       ELSE KeepBoard
    /\ SettleMoves([moves EXCEPT !.conn[c].drag = NoDrag], c)
    /\ SyncAlarm
    /\ Inside
    /\ Remember(c)

\* cursor:leave gives up whatever the connection was moving.
CursorLeave(c) ==
    LET left == IF moves.conn[c].attached = None THEN moves
                ELSE Sync(ReleaseConnection(moves, c), notes, room) IN
    /\ FromOutside("socket") /\ Handles(c) /\ ~room.closed
    /\ moves.conn[c].attached # None \/ moves.conn[c].drag # NoDrag
    /\ KeepBoard
    /\ moves' = Answered([left EXCEPT !.conn[c].drag = IF @.live THEN NoDrag ELSE @], c)
    /\ UNCHANGED <<checkpoints, alarm>>
    /\ Remember(c)

(************************** the rest of the board **************************)

\* note:unpublish takes the note, and the groups it is in, off the shared board.
Unpublish(c, n) ==
    LET expired == Expire(moves)
        gs == WithoutNote(n) IN
    /\ FromOutside("share") /\ Allowed(c)
    /\ room.step = "share" /\ Author[n] = User[c] /\ notes[n].shared
    /\ expired.lock[n] = None
    /\ ActiveDrags(expired, n) \subseteq {c}
    /\ notes' = [notes EXCEPT ![n].shared = FALSE, ![n].vis = @ + 1]
    /\ groups' = gs /\ gver' = Counted(groups, gs) /\ UNCHANGED room
    /\ SettleMoves(IF Dragging(c) /\ moves.conn[c].drag.note = n /\ ~OnMap
                   THEN [expired EXCEPT !.conn[c].drag = NoDrag] ELSE expired, c)
    /\ UNCHANGED <<checkpoints, alarm>>
    /\ Remember(c)

\* note:publish
Publish(c, n, at) ==
    /\ FromOutside("share") /\ Allowed(c)
    /\ room.step = "share" /\ Author[n] = User[c] /\ ~notes[n].shared
    /\ notes' = [Placed(notes, [k \in {n} |-> at]) EXCEPT ![n].shared = TRUE, ![n].vis = @ + 1]
    /\ UNCHANGED <<groups, gver, room>>
    /\ SettleMoves(moves, c)
    /\ UNCHANGED <<checkpoints, alarm>>
    /\ Remember(c)

\* group:create: somebody names a frame of notes without a group.
CreateGroup(c, cluster) ==
    /\ FromOutside("group") /\ Allowed(c) /\ room.step = "grouping"
    /\ Len(cluster) >= 2 /\ Frame(groups, cluster) = 0 /\ FreshIds # {}
    /\ groups' = Append(groups, [id |-> NewId(FreshIds, {}), name |-> "named",
                                 notes |-> cluster])
    /\ gver' = [gver EXCEPT ![NewId(FreshIds, {})] = @ + 1]
    /\ UNCHANGED <<notes, room>>
    /\ SettleMoves(moves, c)
    /\ UNCHANGED <<checkpoints, alarm>>
    /\ Remember(c)

\* group:update-name
RenameGroup(c, k) ==
    /\ FromOutside("group") /\ Allowed(c) /\ room.step = "grouping"
    /\ groups' = [groups EXCEPT ![k].name = IF @ = "named" THEN "renamed" ELSE "named"]
    /\ gver' = [gver EXCEPT ![groups[k].id] = @ + 1]
    /\ UNCHANGED <<notes, room>>
    /\ SettleMoves(moves, c)
    /\ UNCHANGED <<checkpoints, alarm>>
    /\ Remember(c)

\* Mutant of Resize: the map is resized under a move
ResizeAnyway(c) ==
    LET expired == Expire(moves) IN
    /\ FromOutside("map") /\ Handles(c) /\ ~room.closed /\ MapVisible(room.step)
    /\ \A d \in Conns : ~Dragging(d)
    /\ room' = [room EXCEPT !.map = @ + 1]
    /\ UNCHANGED <<notes, groups, gver>>
    /\ SettleMoves(expired, c)
    /\ UNCHANGED <<checkpoints, alarm>>
    /\ Remember(c)

\* idea-map:resize is refused while anything moves.
Resize(c) ==
    LET expired == Expire(moves) IN
    /\ FromOutside("map") /\ Handles(c) /\ ~room.closed /\ MapVisible(room.step)
    /\ \A d \in Conns : ~Dragging(d)
    /\ \A n \in NoteIds : expired.lock[n] = None
    /\ room' = [room EXCEPT !.map = @ + 1]
    /\ UNCHANGED <<notes, groups, gver>>
    /\ SettleMoves(expired, c)
    /\ UNCHANGED <<checkpoints, alarm>>
    /\ Remember(c)

(************************** phases, people, connections ********************)

Position == CHOOSE i \in DOMAIN Agenda : Agenda[i] = room.step

\* A phase boundary: the trigger ends every operation, the room every drag.
\* The attachments of the moves are cleaned by the next change of the board.
Boundary(m) == moves' = RetireAllDrags(CancelAll(m))

\* phase:next
NextStep ==
    LET gs == IF room.step = "grouping"
              THEN Saved(groups, Finalized(ClustersOf(notes), groups, FreshIds)) ELSE groups IN
    /\ FromOutside("phase") /\ ~room.closed /\ Position < Len(Agenda)
    /\ checkpoints' = Append(checkpoints, [notes |-> notes, groups |-> groups,
                                           step |-> room.step, timer |-> room.timer])
    /\ groups' = gs /\ Supplied(gs) /\ gver' = Counted(groups, gs)
    /\ room' = [room EXCEPT !.phase = @ + 1, !.step = Agenda[Position + 1], !.timer = "idle"]
    /\ Boundary(moves)
    /\ SyncAlarm
    /\ UNCHANGED notes
    /\ Remember(None)

\* phase:rollback puts the notes back with the versions they had; the groups
\* are deleted and inserted again, which counts.
Rollback ==
    LET saved == Last(checkpoints)
        ids(gs) == {g.id : g \in ToSet(gs)} IN
    /\ FromOutside("phase") /\ ~room.closed /\ checkpoints # << >>
    /\ checkpoints' = Front(checkpoints)
    /\ notes' = saved.notes /\ groups' = saved.groups
    /\ gver' = [i \in GroupIds |-> gver[i] + (IF i \in ids(groups) THEN 1 ELSE 0)
                                          + (IF i \in ids(saved.groups) THEN 1 ELSE 0)]
    /\ room' = [room EXCEPT !.phase = @ + 1, !.map = @ + 1, !.step = saved.step,
                            !.timer = IF saved.timer = "idle" THEN "idle" ELSE "running"]
    /\ Boundary(moves)
    /\ SyncAlarm
    /\ Remember(None)

\* timer:start, :stop and the end of the time
SetTimer(state) ==
    /\ room.timer # state /\ ~room.closed
    /\ IF state = "running" THEN UNCHANGED outside ELSE FromOutside("timer")
    /\ room' = [room EXCEPT !.timer = state]
    /\ UNCHANGED <<notes, groups, gver, moves, checkpoints, alarm>>
    /\ Remember(None)

\* note:decide
Adopt(c) ==
    /\ FromOutside("phase") /\ Allowed(c) /\ room.step = "decide"
    /\ KeepBoard
    /\ SettleMoves(RetireAllDrags(CancelAll(moves)), c)
    /\ UNCHANGED <<checkpoints, alarm>>
    /\ Remember(c)

\* outcome:publish completes the room; its members stay.
Complete ==
    /\ FromOutside("phase") /\ room.step = "decide" /\ ~room.closed
    /\ room' = [room EXCEPT !.closed = TRUE]
    /\ moves' = Sync(moves, notes, room')
    /\ UNCHANGED <<notes, groups, gver, checkpoints, alarm>>
    /\ Remember(None)

CloseSockets(m, cs) ==
    [m EXCEPT !.conn = [c \in Conns |-> IF c \in cs
        THEN [m.conn[c] EXCEPT !.open = FALSE, !.attached = None, !.drag = NoDrag]
        ELSE m.conn[c]]]

\* leaveMember: the trigger ends the person's operations.
Leave(u) ==
    LET mine == {o \in Ops : moves.op[o].user = u}
        active == {o \in mine : IsActive(moves.op[o])}
        trigger == [FinishAll(moves, active, "cancelled") EXCEPT
                      !.lock = [n \in NoteIds |-> IF @[n] \in mine THEN None ELSE @[n]]]
    IN /\ FromOutside("leave") /\ u \in room.members
       /\ room' = [room EXCEPT !.members = @ \ {u}]
       /\ moves' = CloseSockets(Sync(trigger, notes, room'), {c \in Conns : User[c] = u})
       /\ UNCHANGED <<notes, groups, gver, checkpoints, alarm>>
       /\ Remember(None)

\* webSocketClose, perhaps with one message still on its way to its handler.
SocketCloses(c, waiting) ==
    /\ FromOutside("socket") /\ moves.conn[c].open
    /\ moves' = [Sync(CloseSockets(ReleaseConnection(moves, c), {c}), notes, room)
                    EXCEPT !.conn[c].waiting = waiting]
    /\ KeepBoard
    /\ SyncAlarm
    /\ UNCHANGED checkpoints
    /\ Remember(c)

(************************** time *******************************************)

\* The lease of an active operation, or the retention of a finished one, ends.
TimeEnds(o) ==
    /\ ~moves.op[o].late
    /\ \/ IsActive(moves.op[o]) /\ "lease" \in Outside
       \/ /\ IsFinished(moves.op[o]) /\ "retention" \in Outside
          /\ moves.op[o] # Forgotten(moves.op[o])
    /\ moves' = [moves EXCEPT !.op[o].late = TRUE]
    /\ UNCHANGED <<notes, groups, gver, room, checkpoints, alarm, outside, past>>

DragLapses(c) ==
    /\ moves.conn[c].drag.live
    /\ moves' = [moves EXCEPT !.conn[c].drag.live = FALSE]
    /\ UNCHANGED <<notes, groups, gver, room, checkpoints, alarm, outside, past>>

LeaseOver ==
    \/ \E o \in Ops : IsActive(moves.op[o]) /\ moves.op[o].late
    \/ \E c \in Conns : moves.conn[c].drag # NoDrag /\ ~moves.conn[c].drag.live

\* The alarm of the room, when it rings for a lease.
Alarm ==
    LET expired == Sync(Expire(moves), notes, room) IN
    /\ alarm /\ LeaseOver
    /\ moves' = [expired EXCEPT !.conn = [c \in Conns |->
                    IF @[c].drag.live THEN @[c] ELSE [@[c] EXCEPT !.drag = NoDrag]]]
    /\ SyncAlarm
    /\ KeepBoard /\ Inside
    /\ Remember(None)

(************************** the specification ******************************)

\* The operations a client may ask to take back.
Sources == {o \in Ops : "undo" \in Outside /\ moves.op[o].state # "none"}

\* A repeated request is answered from the table, whatever it asks for, and an
\* operation nobody knows is the same nothing to every message about it.
IsNew(o) == moves.op[o].state = "none"
First(o, choices) == IF IsNew(o) THEN choices ELSE {CHOOSE x \in choices : TRUE}

Message(c) ==
    \/ \E o \in Ops : \E targets \in First(o, Selections), stale \in First(o, BOOLEAN) :
           Start(c, o, targets, stale)
    \/ \E o \in {o \in Ops : ~IsNew(o)} : Preview(c, o) \/ Cancel(c, o) \/ Status(c, o)
    \/ \E o \in Ops : \E delta \in IF IsActive(moves.op[o]) THEN {-1, 0, 1} ELSE {0} :
           Commit(c, o, delta)
    \/ \E o \in Ops : \E src \in IF IsNew(o) THEN Sources ELSE Sources \cap {o} :
       \E stale \in First(o, BOOLEAN) :
           TakeBack(c, o, src, stale)

OldMessage(c) ==
    \/ \E n \in NoteIds, at \in Places : MoveOne(c, n, at) \/ Publish(c, n, at)
    \/ \E n \in NoteIds : DragStart(c, n) \/ Unpublish(c, n)
    \/ \E at \in Places : DragMove(c, at) \/ DragEnd(c, at)
    \/ /\ room.step = "grouping"
       /\ \E k \in DOMAIN ClustersOf(notes) : CreateGroup(c, ClustersOf(notes)[k])
    \/ \E k \in DOMAIN groups : RenameGroup(c, k)
    \/ CursorLeave(c) \/ Resize(c) \/ Adopt(c)

Event ==
    \/ NextStep \/ Rollback \/ Complete
    \/ \E state \in {"running", "idle", "ended"} : SetTimer(state)
    \/ \E u \in Users : Leave(u)
    \/ \E c \in Conns, waiting \in BOOLEAN : SocketCloses(c, waiting)
    \/ \E o \in Ops : TimeEnds(o)
    \/ \E c \in Conns : DragLapses(c)

Next == Alarm \/ Event \/ \E c \in Conns : Message(c) \/ OldMessage(c)

Spec == Init /\ [][Next]_vars

\* The platform rings an alarm that is due.
FairSpec == Spec /\ WF_vars(Alarm)

(***************************************************************************)
(* Properties                                                              *)
(***************************************************************************)

\* The stored groups.
GroupsOK == groups \in Seq(GroupRows) /\ Keys(groups)

TypeOK ==
    /\ notes \in [NoteIds -> [shared: BOOLEAN, at: Places, pos: Nat, vis: Nat]]
    /\ GroupsOK
    /\ gver \in [GroupIds -> Nat]
    /\ room.step \in Steps /\ room.members \subseteq Users
    /\ \A o \in Ops : /\ moves.op[o].state \in {"none", "active", "accepted", "rejected",
                                               "cancelled", "expired"}
                      /\ Targets(moves.op[o]) \subseteq NoteIds
    /\ moves.lock \in [NoteIds -> Ops \cup {None}]
    /\ \A c \in Conns : moves.conn[c].attached \in Ops \cup {None}

\* Every lock belongs to an active move of that note, and an active move holds
\* all its notes: phases, adoption, departures, lapses and closed sockets clear
\* the two tables together (finish 80, triggers of migration 20261004104600).
LocksMatchOperations ==
    \A o \in Ops : {n \in NoteIds : moves.lock[n] = o}
                     = IF IsActive(moves.op[o]) THEN Targets(moves.op[o]) ELSE {}

Becomes(o, state) == moves.op[o].state # state /\ moves'.op[o].state = state

\* A move is accepted only from where its owner picked the notes up: they have
\* not been anywhere else meanwhile, they keep their distances, and no other
\* note moves with them (validate 467, commit 1010).
CommitsFromWhereSeen ==
    [][\A o \in Ops : Becomes(o, "accepted") /\ moves'.op[o].of = None =>
         LET p == moves.op[o] IN
         /\ \A n \in Targets(p) : /\ Version(notes, n) = p.seen[n]
                                  /\ notes[n].at = p.before[n]
         /\ \A n, k \in Targets(p) : notes'[n].at - p.before[n] = notes'[k].at - p.before[k]
         /\ \A n \in NoteIds \ Targets(p) : notes'[n] = notes[n]]_vars

\* An identifier is good for one effect: once its operation is over, it never
\* becomes active or accepted again, also after its receipt was dropped (106).
IdentifiersAreUsedOnce ==
    [][\A o \in Ops : IsFinished(moves.op[o]) =>
         moves'.op[o].state \in {moves.op[o].state, "expired"}]_vars

\* An undo puts the notes of its source exactly where they were before it, and
\* the groups it had changed as they were, names included.
UndoIsExact ==
    [][\A o \in Ops : Becomes(o, "accepted") /\ moves'.op[o].of # None =>
         LET src == moves'.op[o].of
             r == moves.op[src].receipt
             changed == {g.id : g \in r.groupsBefore \cup r.groupsAfter} IN
         /\ \A n \in DOMAIN r.before : notes'[n].at = past[src].at[n]
         /\ {g \in ToSet(groups') : g.id \in changed}
              = {g \in past[src].groups : g.id \in changed}]_vars

Undoes(o) == Becomes(o, "accepted") /\ moves'.op[o].of # None

\* Nobody else has moved, hidden or regrouped anything the source had to do
\* with: an undo is refused across a peer's change ("ほかの人の変更があるため、
\* この移動は戻せません", 583), a rollback to equal versions included.
UndoTakesNothing ==
    [][\A o \in Ops : Undoes(o) => ~past[moves'.op[o].of].knownOthers]_vars

\* The same for every group the notes are in by now: "peer変更を跨いだ版は
\* 追随しない" (314), the history never follows across a peer's change.
UndoSparesPeers ==
    [][\A o \in Ops : Undoes(o) => ~past[moves'.op[o].of].others]_vars

\* While a move is under way the map keeps its size (idea-map.ts:83): the
\* coordinates its owner sees mean the same at the commit.
MapStandsStill ==
    [][\A o \in Ops : moves.op[o].state = "active" /\ moves'.op[o].state \in {"active", "accepted"}
         => room'.map = moves.op[o].map]_vars

\* A lease that ran out is taken back, and the notes are free again, although
\* nobody asks: the alarm is set for it (alarms.ts:20, alarm 1420).  So is the
\* drag of an older client that stopped talking.
LapsedHoldsEnd ==
    /\ \A o \in Ops : (IsActive(moves.op[o]) /\ moves.op[o].late)
                        ~> (~IsActive(moves.op[o]) \/ ~moves.op[o].late)
    /\ \A c \in Conns : (moves.conn[c].drag # NoDrag /\ ~moves.conn[c].drag.live)
                         ~> (moves.conn[c].drag = NoDrag \/ moves.conn[c].drag.live)

\* Who has a note in hand: a move, or the connection of an older client.
HolderOf(n) ==
    IF moves.lock[n] # None THEN moves.lock[n]
    ELSE IF ActiveDrags(moves, n) = {} THEN None
    ELSE CHOOSE c \in Conns : c \in ActiveDrags(moves, n)

Holding == INSTANCE NoteHolding WITH
    Notes <- NoteIds,
    Movers <- Ops,
    Draggers <- Conns,
    OffBoard <- None,
    place <- [n \in NoteIds |-> IF notes[n].shared THEN notes[n].at ELSE None],
    holder <- [n \in NoteIds |-> HolderOf(n)],
    settled <- {o \in Ops : moves.op[o].state = "accepted" /\ moves.op[o].of = None},
    lapsed <- {o \in Ops : IsActive(moves.op[o]) /\ moves.op[o].late},
    era <- room.phase

\* Moves, drags, one-note moves, undo, sharing and rollback together keep what
\* NoteHolding promises: no note changes its place under its holder's hands.
HoldingSpec == Holding!Spec
=============================================================================
