# idea-boost: verification project

idea-boost is a collaborative board for small design sprints. This directory
holds TLA+ models of the parts of it that are distributed, concurrent or long
running, the TLC runs that check them on small instances, and TLAPS proofs of
what holds on instances of any size.

Contents: [the system](#the-system), [modules](#modules),
[runs](#runs-what-is-checked), [fairness](#fairness),
[proofs](#what-is-proved), [abstractions](#what-is-left-out-and-why),
[disagreements with the documents](#disagreements-with-the-documents),
[plan](#plan).

## The system

A Next.js worker serves the pages and an API worker (`workers/api-worker.ts`)
everything else. The state lives in two kinds of Cloudflare Durable Objects and
in a D1 database:

| Part | State | Operations | Talks to |
| --- | --- | --- | --- |
| `RoomDO`, one per room (`workers/room`) | SQLite: members, colours, fences, seats, receipts, phase, timer, sharing, notes, votes, decisions, checkpoints, moves, outbox; one alarm | RPCs of participation and creation, about fifty socket messages, `fetch`, `webSocketClose`, `alarm` | D1 (projection), `AccountDO.mayOperate`, sockets |
| `AccountDO`, one per user (`workers/account`) | operations, generation, active operation, index of rooms | `prepare`, `inspect`, `commit`, `cancel`, `mayOperate` | every `RoomDO` of the user, D1 |
| D1 | directory of rooms, creation control, projected outcomes, viewers | batches and compare-and-set updates | |
| Room creation (`workers/lib`) | rows in D1, a marker in the room | reserve, initialise, publish, close, clean up | D1, `RoomDO` |
| Client (`features`) | optimistic edits, autosave, move history, creation journal | retries with the same ids | socket and HTTP |

What makes each part correct, and what is hard about it:

* **Participation ledger (RoomDO).** Capacity, leases and fences hold against
  calls that are late, repeated or never come. Correct when seats are not
  oversold, fences never go back and a member who left can still see what the
  room promised.
* **Account participation (AccountDO).** Moving a person from the rooms he is in
  to another one takes a reservation, a leave per room and a join, each a call
  to another object, any of which may be the last thing before the account is
  reset. Correct when the person ends in one room, the reported result is true,
  a room is left only with a seat in hand, and the account is not locked for
  ever.
* **Progression (RoomDO).** Fourteen steps with gates over the timer, the ready
  marks of whoever is connected, votes, decisions and turns, plus rollback,
  restart and an alarm that is shared by all deadlines. Correct when nothing
  skips a turn or a decision, when a gate that opens after the extension is
  gone through, and when the alarm is never too late.
* **Room creation.** Three stores that cannot be written together and retries
  for a day. Correct when a request leads to one room or to none, the room is
  published only when it exists, the person is told the truth, and requests
  nobody drives any more come to rest.
* **Move operations.** Locks with leases, revisions, receipts, inverse moves.
  Correct when two people cannot move one note at once, a repeated request has
  one effect, what lapses is taken back, and an undo does not reach across
  what somebody else did.
* **Outcome projection and completion.** Three writers to D1 and one alarm.
  Correct when what is acknowledged is what was sent, what is due is written in
  the end, and nothing expired comes back.
* **Note content, sockets and the autosave of the client.** A draft is sent,
  asked after, carried into the next step or put aside; in the room a digest is
  awaited between two checks. Correct when a save replaces only what its writer
  saw, and nothing typed is forgotten that the room does not have.

`PROJECT.json` lists the components with their sources, and the hazards with
the lines where they bite.

## Modules

| Module | Models | Lines to compare it with |
| --- | --- | --- |
| `RoomLedger` | the participation tables of all rooms, one action per RPC or message | `room-do.ts` 365-1054 |
| `RoomLedgerProofs` | theorems about it | |
| `Participation` | `AccountDO` on top of `RoomLedger`, which it refines | `account-do.ts` 176-1229 |
| `ParticipationProofs` | its inductive invariant | |
| `ParticipationResults` | what follows for the people who move | |
| `Progress` | the steps of one room | `phase.ts`, `timer.ts`, `sharing.ts`, `sharing-state.ts`, `phase-rollback.ts`, `alarms.ts`, handlers in `room-do.ts` |
| `ProgressProofs` | theorems about it | |
| `RoomCreation` | one request to create a room, in D1, the room and the account | `lib/room-creation.ts`, `lib/room-creation-cleanup.ts`, the creating operations of `account-do.ts` |
| `CreationPromise` | what it promises the person: the abstract specification | |
| `RoomCreationProofs` | theorems about creation and its promise | |
| `Grouping` | clusters of notes and what becomes of their groups: operators only | `contracts/grouping.ts`, `groups.ts` |
| `MoveOperations` | moving notes, and whatever interferes | `move-operations.ts`, `note-handlers.ts`, `broadcast.ts` |
| `MoveOperationsProofs` | theorems about it | |
| `NoteHolding` | what moving promises the people at the board: the abstract specification | |
| `OutcomeProjection` | the way of outcome, history and viewers to D1 and out again | `shared-outcome-storage.ts`, `progress-history.ts`, `completed-rooms.ts`, `alarms.ts` |
| `OutcomeProofs` | theorems about it | |
| `NoteAutosave` | a note, the tab its author writes it in, and the room | `use-note-autosave.ts`, `note-handlers.ts`, `phase.ts`, `phase-rollback.ts` |
| `NoteAutosaveProofs` | theorems about it | |
| `MCParticipation`, `MCProgress`, `MCRoomCreation`, `MCMoveOperations` | instances for TLC | |

`Participation` extends `RoomLedger` and drives its actions. The other
components meet in rows and objects that are different, or only at one call, so
each module takes the others as environment: a grant to work, a phase that goes
on, a room that ends are actions of its own there, free to come at any moment.

### RoomLedger

One variable per table: `members`, `colors` (a leaver keeps the colour), `retained`
(who keeps access to the outcome), `fence`, `seat`, `receipts`, and the `stage`
of the room and its `title`. `RoomDO` runs these handlers without an await
between the first read and the last write, so each is one action: `Reserve`,
`Commit`, `Leave`, `Cancel`, `LeaveDirect`, `RemoveMember`, `Disband`, `Complete`,
`Rename`. The answers are operators of their own (`ReserveReply`, ...) because
`Participation` acts on them. `LedgerNext` allows every call with any
arguments at any time. It is the abstract specification of a room:
`Participation` takes only steps that `LedgerSpec` allows, which is checked on an
instance and proved for all.

### Participation

A request of the API becomes a process of the account (`run`) with its own
copy of what it read, which runs up to the next RPC, waits, and goes on. At
every wait it may die (`MaxAborts`): the copy is lost, what is stored stays, and
the RPC that was under way may land at any later time, or never (`orphans`).
`Prepare`, `Inspect`, `Resume`, `ConfirmDestination`, `AskSeat`, `LeaveSource`,
`JoinDestination`, `FinishReady`, `CancelNext` follow the branches of the handlers
in `account-do.ts`. `MayOperate` is the question a room asks before it handles
a message, `Operate` the message itself, later. `OthersReserve` and `OthersJoin` are
people whose accounts are not followed.

### Progress

The whole room is one record, because each handler is one function on it: the
input gate of the object keeps other events out while storage is awaited, and
the awaits on other objects come before the handler or after everything that
is modelled here. `Accept` is what `handleClientMessage` does around each handler:
run it, then `advanceAfterExtendedTimer` (`Advance`). `SyncAlarm` and `SyncIdle` are
called exactly where the code calls them, so a forgotten call would show.
Deadlines are kept as the time left; `Tick` counts them down and stops at zero,
so the alarm may be late and any message may come first. The board is what the
gates ask of it: decided phases, whether the current phase has a candidate, and
who has cast all votes.

### RoomCreation

The row of the request in D1 (`control`, `details`), the two directories
(`dir`, `outcome`), the object of each room (`room`) and the operation of the
account (`op`) are separate variables because no transaction spans them. `run` is
the attempt being served, stopped at one of its awaits (`Awaits`); every await is
an action, and `Abort` may end the attempt at each, with its last write landing
later or never. `Retire`, `Claim`, `CronInspect`, `CronPublish`, `CronRemove`,
`Sweep` are the hourly job, `CronFails` a store that does not answer it. Any
clock may be up to `Skew` behind (`Clock`), and no two readings need agree.
`request` says when the identifier was made and whether it is one of the time
before deadlines. The account may ask again, under another name too.

`CreationPromise` is the view of the person: the request is `open` until it is
decided for one room or closed, `ready` names that room, and after a refusal none
turns up. `RoomCreation` implements it with `verdict` read off the directory, the
control row and the watermark, and `answer` off the operation.

### MoveOperations, Grouping, NoteHolding

`moves` holds the operations with their receipts, the lock table, and the
attachment of each socket; `notes` carry the two versions a client has to name,
`gver` the versions of groups. `Start`, `Preview`, `Commit`, `Cancel`, `Status` and
`TakeBack` are the messages; `MoveOne`, `DragStart`, `DragMove`, `DragEnd` those of
older clients; the rest is what interferes: sharing, hiding, naming frames, the
size of the map, phases, rollback, adoption, completion, people who leave,
sockets that close with one message still waiting. Every message ends with the
same `SettleMoves` as in the code. A lease or a retention may end at any moment
(`TimeEnds`, `DragLapses`); the effects wait for whoever looks, or for `Alarm`.

`Grouping` translates the clustering with its stack and the reorganisation
with its ties, as order and names matter for what an undo restores. Each loop over
a list is a recursive function of the number of elements seen, with one operator
for a turn of it (`Visit`, `AddCluster`, `AddPart`, `AddFrame`), so that it can be
proved about.

`NoteHolding` has no leases, versions, receipts or rows: notes lie somewhere,
somebody holds them together, and a note changes its place only in its
holder's hands or while nobody holds it. `MoveOperations` implements it with
the lock table and the live drags as `holder`.

### OutcomeProjection

`room` is what the object stores, `d1` what has arrived. The three writers share
one flight each among their callers (`writer`, `at`); a write is three moments:
what is sent, its effect in D1 (`Land`), and the answer (`Answer`), which
acknowledges only the version that was sent. `SyncAlarm` recomputes the one alarm
as `alarms.ts` does, `Ring` goes through the alarm's handler, `Crash` forgets
flights and handlers and keeps storage and the alarm. `Expire` is the end of the
thirty days; from then on the writers erase. `lost` marks the case described
below that the code cannot recover from.

### NoteAutosave

`draft`, `active`, `due`, `asking`, `waiting` and `view` are the refs of the hook:
the draft with the save under way, the composition of this page, the timer or
microtask that will call `flush`, the status timer, the share that waits for a
save, and the state last heard from the room. There is one action per callback
(`Change`, `CompositionStart`, `CompositionEnd`, `Share`, `Flush`, `Ring`) and per type of
message (`ReceiveSnapshot`, `ReceivePhase`, ...). `up` is the chain of messages of the
socket; a save is served in two steps, `Admit` before the digest and
`SaveContent` after it, and anything of the room may come between. `Break` leaves
what was under way in `late`, where the room may still take it while the tab
has connected again. `Reload` keeps only the session storage. `Expire` ends the
session, `EndOfSession` is what the tab then does, `LogIn` a new page.

Outside the tab others save, share, return and delete the note, and the room
goes on, starts over or rolls back, which brings back a content revision that
was there before.

## Runs: what is checked

| Run | Instance | Question |
| --- | --- | --- |
| `switch` | one account, two operations, two rooms, two requests that die, one outside event | is the result true, is a room left only with a seat in hand, is the index complete |
| `rooms` | an account that starts in two rooms and goes to the last seat of a third, which a stranger may take; one request that dies | is the grant to work for one room, is every join exclusive, does each step refine `LedgerSpec`, does the operation end |
| `late_calls` | as `switch`, with a stranger and two ticks of time | shows a disagreement described below |
| `sprint` | two people, from the lobby through all steps, one checkpoint | turns, extensions, gates, rollback, the alarm; do deserted rooms close and extended turns end |
| `create` | one request, new or old, asked twice under two names, one attempt that dies, two possible rooms | does one room or none come of it, is it there when it is found, is the person told the truth |
| `cleanup` | a new request, one attempt that dies, the hourly job fair | is it decided, is its name forgotten |
| `moves` | two people, two notes on the map, two moves, two interferences | locks and rows, commits from where the notes were seen, the map, `NoteHolding` |
| `undo` | two people, three notes in the grouping step, three operations, two interferences | is an undo exact, is it refused across what others did |
| `leases` | three connections of two people, two notes, one move, the alarm fair | is what lapsed taken back, are identifiers used once |
| `peers` | as `undo`, with frames that are named | shows a disagreement described below |
| `outcome` | three uses, two records, one failing call, one crash, one visitor | is what is reported as saved there, is everything due written, is everything expired erased |
| `notes` | one note, two texts, two inputs, three outside events | overwriting, losing, settling of drafts |

The properties, by what could go wrong:

* *A person in two rooms, or in none.* `JoinIsExclusive`, `LeaveHoldsSeat`,
  `GrantIsExclusive`, `IndexCoversRooms`, `ResultIsTrue`, `EveryMoveEnds`.
* *A room that promises more than it has.* `SeatsWithinCapacity`, and `LedgerSpec`
  as refinement.
* *A sprint that skips or stops.* `EveryoneIsHeard`, `AnnouncedTurnIsGiven`,
  `NoOpenGateIsMissed`, `DecisionsMatchPhase`, `AlarmCovers`, `IdleRoomCloses`,
  `ExtendedTurnEnds`.
* *A room without a creator, two rooms, or none after all.* `FoundRoomsExist`,
  `FoundRoomsAreKept`, `PromiseSpec` as refinement, `DecidedInTheEnd`,
  `NameIsForgotten`.
* *Two hands on a note, or an undo of somebody else's work.* `LocksMatchOperations`,
  `CommitsFromWhereSeen`, `MapStandsStill`, `HoldingSpec` as refinement,
  `UndoIsExact`, `UndoTakesNothing`, `LapsedHoldsEnd`, `IdentifiersAreUsedOnce`.
* *A report of what is not there, or content that comes back.*
  `AcknowledgedIsThere`, `ProjectedInTheEnd`, `ErasedInTheEnd`.
* *Text that is overwritten unseen or forgotten.* `NoUnseenOverwrite`,
  `NothingTypedIsLost`, `DraftsSettle`.

Each module with a state has one type invariant besides. Every property is
stated with a comment at its definition, and for every one `PROJECT.json`
names a mutant of the code that breaks it.

### Bounds and why they are enough

* Two seats and three people are the smallest room in which a seat is free,
  held and taken by different people. Two operations are needed for one to
  overtake the other; their cancellations take a generation each. Two requests
  that die allow one in the operation and one in its recovery. `MaxEvents` counts
  leaves, removals, renamings, disbandings and completions: one at an arbitrary
  moment is what the code has to cope with between two of its reads.
* A lease of one tick and one tick of time: a lease is valid or over, nothing
  else is compared. `late_calls` has a second tick for the lease of the stranger.
* Every duration of `Progress` is one tick; what matters is which deadline comes
  first, and lateness is free. `MaxDepth` keeps the newest checkpoint only; the
  real list is bounded by the thirteen steps behind. The run starts in the lobby
  and reaches every step, so paths across a phase border occur.
* In `RoomCreation` a window of two ticks, a grace of one and a skew of one keep
  every order of the deadlines that different clocks can read, and `MaxTime` lies
  beyond all of them. Two identifiers of rooms are enough for an attempt and its
  retry to draw different ones, two names for a retry with other contents.
* Two connections and three operations let a move, one that follows it and an
  undo meet. Two or three places are apart or together; a group needs two notes
  and gains or loses a third. `Outside` names the interferences of a run,
  `MaxOutside` how many of them happen. The code draws random identifiers for
  groups, the model the smallest one of `1..MaxGroup` that no group ever had;
  `Supplied` keeps a step from being taken when there is none left. In the runs the
  supply never ends: the same states are reached without that guard.
* `OutcomeProjection`: the third use may come while the first is under way and
  the second waits. One failing call and one crash meet every step of the three
  writers; more of the same return to states already seen.
* `NoteAutosave`: two texts, one of them blank, tell what was seen from what was
  not, since revisions make equal texts different. Three outside events are a
  rollback, what it takes back and one more. `MaxQueue` lets the status timer ring
  only while nothing is under way: a second query asks what the first asked.
* Symmetry, between operations of one owner or identifiers of rooms, is used
  only in runs without liveness.

`CHECK_DEADLOCK FALSE` stands where the system really stops: a closed room does
nothing more, and when faults and outside events are used up and everything has
ended there is nothing left to do.

## Fairness

* `rooms`: weak fairness of the work of a request that did not die (a Durable
  Object runs its code to the end), and of the resumption of an unfinished
  operation: the client keeps the operation's id and sends it again, and
  opening any room asks `inspect`, which resumes what is active
  (`account-do.ts` 390-438).
* `sprint`: weak fairness of `Tick`, time passes, and of `Alarm`, which Cloudflare
  delivers at least once. No message is fair: nobody has to do anything. The
  condition of the alarm is written out, which is the same and lets TLC avoid
  evaluating `ENABLED`.
* `cleanup`: time and the hourly job go on; strong fairness of its calls, as they
  may fail again and again but not always. Nothing is asked of the account.
* `leases`: weak fairness of `Alarm` alone.
* `outcome`: handlers go on, D1 answers, alarms ring; crashes and failing calls
  are bounded. Nobody has to use or visit the room.
* `notes`: the timers of the tab ring, messages arrive, the live connection is
  served, a broken one is opened again. The person has to do nothing, nor does
  anybody else; late messages of old connections may be served or not.

## What is proved

The proofs hold for every value of the constants that the named assumptions of
the modules admit; TLC evaluates those on every run. In each module an inductive
invariant is proved first and the properties of the runs follow from it.

**`RoomLedgerProofs`** (`OwnerAssumption`, `GensAssumption`, `NumbersAssumption`,
`PlacementsAssumption`: operations have owners, the capacity is a number, rooms
do not start overfull).

* `LedgerTypeCorrect`: `LedgerSpec => []LedgerTypeOK`.
* `SeatsAreNeverOversold`: `LedgerSpec => []SeatsWithinCapacity`. The property is not
  inductive: it looks only at leases that still run, and `Commit` turns a row into
  a colour without counting again. The inductive invariant `SeatInvariant` counts
  everybody who has a colour or a reservation row, expired or not (`Taken`), and
  keeps that set finite and within the capacity. The argument has two lemmas:
  `ReserveKeepsSeats`, as `Reserve` purges the expired rows and counts before it
  adds one, and `OthersShrink`, as no other step adds anybody to `Taken`: `Commit`
  gives a colour only to somebody who holds a row. `SeatInvariantImplies` goes back to
  the property, which counts a subset.
* `FencesOnlyAdvance`: `LedgerSpec => FenceNeverGoesBack`, an action property, from the
  type invariant and `FenceSteps`, which has one step per action; only `Reserve`,
  `Commit` and `Cancel` write a fence.

The lemmas are about `AnyStep`, a step of the ledger with any generation, so that
they serve the account as well.

**`ParticipationProofs`, `ParticipationResults`** (the same, `UsersAssumption`,
`RoomsAssumption`: at least one room, and the placeholder is none).

* `SwitchInvariant`, `SwitchTypeCorrect`: `TypeOK /\ SwitchInv` is inductive.
  `SwitchInv` says where each operation, each request being served and each
  orphaned call may stand. Its core is that an operation that is over is fenced
  off everywhere it has been, so that only the operation which holds the account
  can still change where its user is.
* `AccountsUseTheLedger`: `Spec => LedgerSpec` when `Gens = Nat`, the set that only TLC
  has to bound. `MovesNeverOversell` is the theorem of the ledger under the account.
* `LeaversHoldTheirSeat`: `LeaveHoldsSeat`, for any number of requests that die.
* `ReportedResultsStand`: a final result stays true (`ResultInv`).
* `SettledInvariant`, and from it `ResultsAreTrue`, `IndexIsComplete`, `JoinsAreExclusive`,
  `GrantsAreExclusive`: under `[]LateCallsApart`, which the next section is about.
  `Settled` adds to the above that an operation given up can join nobody any more
  (`AllGivenUp`) and that each room a user is in is listed or being moved (`Covered`).
* `OneDeadRequest`: where at most one request dies, all four hold without that
  condition.

**`ProgressProofs`** (`TimesAssumption`, `DepthAssumption`, `PeopleAssumption`,
`StartsAssumption`: durations and depth are positive, people are finitely many).

* `ProgressInvariant`: `Good(room)` is inductive: the record has its type, the alarm
  is not after any deadline (`Covers`), and a room that is open is `Sound`: the
  decisions are those of the phases before the present one, turns and order agree
  with the phase and the members, a timer that runs has a duration. A rollback
  makes a checkpoint the present, so `Sound` says the same of each checkpoint
  (`CheckpointSound`) and that they are of earlier phases in order (`Chain`).
* From it `ProgressTypeCorrect`, `AlarmIsInTime`, `DecisionsKeepUp` and the action
  properties `NobodyIsPassedOver`, `NoTurnIsSkipped`, `GatesAreTaken`. For the last one
  each handler is shown to end in `Advance`, after which no gate is open.

**`RoomCreationProofs`** (`CreationAssumption`: identifiers are issued after the first
watermark, the pause between two retries is positive).

* `CreationInvariant`: what an attempt, the late write of a dead one or the hourly
  job may still do rests only on facts that, once true, stay true (`Onward`: a room
  has begun, the request is decided, its row is bound to a room, a closed room is
  found no more). With this `AttemptOK` and `JobOK` survive the steps of the others,
  whenever they come and whatever the clocks say. `StoreInv` relates the stores.
* From it `CreationTypeCorrect`, `CreatorIsInFoundRoom`, `FoundRoomsStay`, and
  `CreationKeepsPromise`: `Spec => PromiseSpec`, step by step.

**`MoveOperationsProofs`** (`ConnsAssumption`, `AgendaAssumption`, `BoundsAssumption`,
`SelectionsAssumption`, `NamesAssumption`, `BoardAssumption`, `NotesAssumption`,
`GroupsAssumption`: the groups at the start have different identifiers;
`IdentitiesAssumption`: the new identity of a closed socket is no connection).

* `MoveInvariant`: a handler is a chain of operators that end operations and let go
  of locks (`Ends`, which is transitive), with one start, commit or undo in it at
  most. Each operator is shown once to keep `Tables`, that the lock table is what
  the active operations name; then `RowOK` of each operation and `Current`, that an
  active one is of the present phase and map and that a note whose version it saw
  lies where it saw it.
  Two parts more are there for the refinement alone: `Hands`, that a note is in the
  hands of one move or of one drag, and `Stand`, that the move an open connection is
  attached to stands as its owner saw it while the lease runs. Without `Stand` a
  start could find a note free because `Sync` had just ended somebody's good move.
* From it `LocksBelongToMoves`, `IdentifiersStayUsed`, `MapKeepsItsSize`,
  `CommitsAreFromWhereSeen`.
* `MovesKeepHolding`: `Spec => HoldingSpec`. Each handler is shown to give nobody a
  note (`KeepsHands`), or to take free ones (`TakesNotes`, `TakesDrag`), and to move
  notes only by a commit (`PutsDown`), where nobody holds them (`MovesFree`), or in a
  drag. One lemma for each kind of step then finds the step of `NoteHolding`.
* `HistoriesAreTrue`, and from it `UndoSparesOthers` (`UndoTakesNothing`), `UndoPutsBack`
  (`UndoIsExact`) and `TypesAreKept` (`TypeOK`). The two properties compare the board with
  the past, which the code does not store; it compares versions. So `UndoInv` says
  what the stored history of an accepted move knows: its versions are never ahead
  of those of the board in the same phase (`HistoryOK`), the receipt says where the
  notes and the groups were (`Remembers`), and if somebody else has changed what it
  watches, then a version differs or the phase is another one (`Aware`). Versions of
  notes do go back, in a rollback, but the phase does not, and those of groups never
  do. Later moves of the same connection rewrite the versions of older histories:
  `AdvancedCarries` shows that `advanceHistory` carries only what was up to date before
  them. Each kind of step is then shown to bring the versions forwards (`Onward`)
  and to carry histories at most (`Trail`).
* An undo puts groups back by their identifier, so it can be exact only if no two
  rows share one. `GroupInv` says this of the table, of the checkpoints and of
  the receipts, and that an identifier in the table has been counted, so that a new
  one is none of those. The rows come out of the nested loops of `Grouping`. A
  property of a loop is shown turn by turn and carried over its turns by
  `LoopStays`, which rests on the least number at which it would fail (`CountUp`): a
  list of rows in the making is a `Draft`, where at most the missing identifier
  occurs twice; `PartStays` and `AddFrameStays` show that a part torn off a group and a
  drawn frame keep it so, `SavedRows` that writing the draft over the table gives a
  table with a key, and `StepGroups`, `GroupsKeep` that every step does. It holds
  as long as a new identifier can be found, which is the bound `Supplied`.

**`OutcomeProofs`** (`ProjectionAssumption`).

* `ProjectionTypeCorrect`, `ProjectionInvariant`, `SavedIsInD1`. `AcknowledgedIsThere` says
  nothing of a version on its way, so the invariant adds it: D1 is between what was
  acknowledged and what was sent (`KeptIn`, `FlightOf`), and equals what was sent
  once it has landed. Records and viewers are treated alike (`Recalled`,
  `HistoryFlight`, `ViewersFlight`).

**`NoteAutosaveProofs`** (`BlankIsText`, `BoundsAssumption`, `NoneAssumption`: the bounds
are numbers, and the placeholders are no draft and no save).

* `NoteInvariant`: `Inv` is inductive. A content revision alone does not tell what
  was seen, as a rollback brings an old revision back and others then write a
  different text under the same number. So the view, a draft, a save on its way, a receipt
  and every message say what they say of a phase revision (`Known`): if the room
  is still in it, or in the sharing that came right after it without a rollback,
  the note has gone on from there, is gone, or has that very text. Whatever the
  room does (`RoomMoves`), this stays true (`KnownStays`); that is why a save may arrive
  over a broken connection at any later moment. `StreamOK` adds the order of the
  messages to the tab: the revisions of snapshots rise, a `phase:updated` repeats the snapshot
  right before it, and an answer is true to whoever has heard all that came before
  it. `Agrees` says that an operation was sent with one text only.
* From it `NoteTypes`, `OverwriteIsSeen` (`SaveContent` compares both revisions, so what it
  replaces is what `Known` names) and `TypedIsKept` (the tab drops a draft for an
  answer, and an answer is backed by a receipt that `ReceiptOK` finds in the note,
  unless it was rolled back).

### The limit of the promises to people who move

`ResultIsTrue` (the clause about operations being given up), `IndexCoversRooms`,
`JoinIsExclusive` and `GrantIsExclusive` are not true without `LateCallsApart`: that of no
operation a join and a renewal of its seat are both on their way from dead
requests. The attempt to prove them led to this behaviour of the model, with two
rooms and two requests that die:

1. a request reserves a seat, leaves the source and dies in the call that joins;
   a second one resumes the operation and dies in the call that renews the seat;
   neither call has arrived, and the lease ends;
2. a stranger holds the last seat; the next attempt to renew is told that the
   room is full, and `finishFailure` stores that the operation is given up
   (`account-do.ts:793`);
3. the stranger's lease ends, the late renewal arrives and gets a seat, the late
   join arrives and takes it;
4. only now does the cancellation reach the destination (`account-do.ts:831`,
   `room-do.ts:678`). It raises the fence and leaves the member.

The operation ends as "rejected" while its user is in the room, the index does
not list it, and the next operation joins another room besides. It takes two
calls that outlive a lease of 120 seconds and arrive in the time between a write
and a call of one handler. The run `late_calls` finds it, with two ticks of time
for the two leases. `OneDeadRequest` says that one dead request is not enough;
`switch` allows two but only one tick, so no seat can be lost and found again.
With any bounds the theorems hold up to this combination of calls.

### What is only model-checked

* Liveness: `EveryMoveEnds`, `IdleRoomCloses`, `ExtendedTurnEnds`, `DecidedInTheEnd`,
  `NameIsForgotten`, `LapsedHoldsEnd`, `ProjectedInTheEnd`, `ErasedInTheEnd`, `DraftsSettle`.
  Fairness and `ENABLED` are out of the prover's reach.
* What the loops of `Grouping` compute beyond what `GroupInv` needs: that a cluster
  is a connected part, that a part keeps the order of the walk, which group
  dominates. No run states it as a property of its own; it enters the runs
  through what an undo restores. Where a definition that the proofs need was
  recursive in the code it is written by choice (`Stop` takes the first stop of a
  route, `Drawn` an order in which the lots agree), or as a recursive function
  about which the least counterexample can be argued, as above.

## What is left out, and why

* Ledger: display colours are counted, not assigned; names of members do not
  matter to participation.
* Participation: preview samples, the page scan of `ensureIndex` (one step), the
  expiry of outcomes, wording. The answer `busy` of a room in a transition cannot
  occur: `getPendingPhaseTransition` returns null (`phase.ts:94`). One permission to
  work is on its way at a time. All objects read one clock. The reading of the
  receipts of several rooms after a failure is one step. Other people's accounts
  only hold and take seats.
* Progress: messages with a stale revision are refused inside the transaction
  by an equality test, so only current ones act. `timer:pause` is always
  refused, and `timer:resume` and `timer:stop` act only on a paused timer, which
  no current code stores outside a checkpoint. The branch of
  `captureRollbackCheckpoint` for an announced turn cannot be taken by
  `phase:next`, which asks for a complete round. `sendSnapshot` makes a sharing
  state only for rooms older than it. Sessions that expire without an event,
  the deadlines of moves, drags and projections, and what the client shows are
  not modelled. The timer may be started in the lobby, since the server does
  not refuse it, and `start_phase` leaves it running; the model does the same.
* RoomCreation: one request at a time; requests of different identifiers share
  only the watermark. An account that dies after it closed a pending request in
  D1 and is never taken up again leaves hidden rows, which no property speaks of.
* MoveOperations: places are numbers on a line, and only equal ones are close;
  the coordinate space, rate limits and the distance a preview may go are left
  out. Notes are deleted only in steps without moves, so deletion is not there.
  A commit or an undo takes place or does not: a storage failure inside its
  transaction (`move-operations.ts` 699, 1027), which takes back everything, is not
  modelled.
* OutcomeProjection: what a snapshot contains and who may read it; records whose
  capture failed; `revokeViewer`, which no caller reaches once a room is
  completed. A call to D1 that a crash cuts off took place or did not. The
  batch and the update of its expiry are one write.
* NoteAutosave: one note in one phase; the steps after sharing are one step.
  Refusals for the account, the timer or the turn are one action (`Deny`), and the
  second look at the timer after the digest is not there. Failures of the
  session storage, notes excluded by adoption, font sizes and creation of notes
  are left out. Other tabs act in one step. `recoverDisconnected` also runs when the
  page finds the room unavailable; here it runs when the session is over.
  `kept` and `over` are history for the properties.
* Votes and stickers, presence, names, the rest of the client, the HTTP routes,
  feedback and the preview environment: see the components in `PROJECT.json`.

## Disagreements with the documents

Two are shown by a run:

* `late_calls`. `docs/adr/0015-account-room-participation.md:15` says that nobody takes
  part in two rooms though answers are lost. Two late calls of one operation that
  is being given up can bring this about: see
  [the limit](#the-limit-of-the-promises-to-people-who-move).
* `peers`. The comment at `move-operations.ts:314` says that the history of moves
  does not follow across a peer's change. `advanceHistory` compares only the
  groups an older receipt knows and then adds every group the new move touches,
  so a frame a peer named in between enters the receipt unseen, and the undo of
  the older move is accepted. `UndoTakesNothing` in `undo` is the part that does
  hold.

Others were met while modelling and are left to the text:

* `docs/product/sprint-flow.md:75` says that a private note that is blank in the
  room stays when personal work passes into sharing, so that its author's text
  can be saved late. `phase:next` (`phase.ts` 739-747) deletes it, and
  `phase-transition.spec.ts:279` tests that it does. An author who is typing in a
  new note at that moment finds the draft put aside as "missing".
* `docs/product/sprint-flow.md:76` (also 81, and `docs/prd.md:153`) says that after the
  extension of a turn the next presenter takes over automatically. The code acts
  in the name of the presenter (`room-do.ts` 1489-1499), and `controllableState`
  (`sharing.ts` 26-53) refuses people who are not members: if the presenter has
  left the room, nobody takes over until a member passes the turn by hand.
  `ExtendedTurnEnds` excepts this case.
* `fetch` does not evaluate the gate, so a connection that completes the
  conditions of a step whose extension is over changes nothing until the next
  message, disconnection or alarm. `NoOpenGateIsMissed` excepts it.
* The row of a disbanded room stays in D1 until its outcome goes, while
  `api-worker.ts:423` speaks as if it were gone.
* `progress-history.ts:233` says that a projection that was late is deleted. If a
  record lands after the completed room was erased by somebody leaving, and the
  deletion that should follow fails or the object dies before it, nothing
  remembers it. `ErasedInTheEnd` excepts this case by `lost`.
* After a conflict nothing takes `recoveryReason` from a draft that stays: text
  typed into the note afterwards takes the place of the recovered text and is
  never sent. `DraftsSettle` counts such a draft as put aside.
* A draft marked "result-unknown" whose status answer comes after the note was
  shared elsewhere keeps that mark (`use-note-autosave.ts` 566-570), although the
  answer is known by then. `DraftsSettle` excepts this mark, and only on a note
  that can no longer be edited here.

## Plan

Left, in this order:

1. Extensions: the page scan of `ensureIndex`; two requests of creation that meet
   at the watermark; the creation of notes with its identifiers and receipts, and
   the receipts of shares (`share-operations.ts`); the optimistic edits of the
   client with `use-room-notes`.
2. Votes and stickers as far as two tabs of one person can race for them.
