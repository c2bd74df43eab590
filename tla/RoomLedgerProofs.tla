--------------------------- MODULE RoomLedgerProofs ---------------------------
(***************************************************************************)
(* Theorems about RoomLedger, for any number of rooms, people, operations  *)
(* and seats.  The seat count needs a stronger invariant than              *)
(* SeatsWithinCapacity: rows that have expired but were not purged yet are *)
(* counted too (SeatInvariant), because a row only turns into a colour     *)
(* through Commit, which looks at the row and not at the count.            *)
(***************************************************************************)
EXTENDS RoomLedger, FiniteSetTheorems, TLAPS

\* Whoever has a colour or a reservation row, expired or not.
Taken(r) == colors[r] \cup {u \in People : seat[r][u].op # NoOp}

SeatInvariant ==
  /\ LedgerTypeOK
  /\ \A r \in Rooms :
       IsFiniteSet(Taken(r)) /\ Cardinality(Taken(r)) <= Capacity

-----------------------------------------------------------------------------
\* The steps the lemmas are about: calls with any generation and any lease.
\* Gens and Leases only keep what TLC enumerates finite.
AnyCalls ==
  \E r \in Rooms, o \in Ops, g \in Nat :
     \/ Reserve(r, o, g)
     \/ Commit(r, o, g)
     \/ \E lease \in Nat, t \in Titles : Leave(r, o, g, lease, t)
     \/ Cancel(r, o, g)

AnyStep == AnyCalls \/ Surroundings

LEMMA StepsAreAnySteps == [LedgerNext]_ledgerVars => [AnyStep]_ledgerVars
<1> SUFFICES ASSUME Calls PROVE AnyCalls
  BY DEF LedgerNext, AnyStep
<1>1. Gens \subseteq Nat /\ Leases \subseteq Nat
  BY GensAssumption, NumbersAssumption DEF Leases
<1>2. QED BY <1>1, Zenon DEF Calls, AnyCalls

-----------------------------------------------------------------------------
\* The tables keep their types.
LEMMA TypeInit == LedgerInit => LedgerTypeOK
BY PlacementsAssumption, OwnerAssumption
   DEF LedgerInit, LedgerTypeOK, Fence, Seat, NoFence, NoSeat

LEMMA TakeOutType ==
  ASSUME LedgerTypeOK, NEW r \in Rooms, NEW u \in People, NEW keep \in BOOLEAN,
         TakeOut(r, u, keep)
  PROVE  /\ members' \in [Rooms -> SUBSET People]
         /\ colors' \in [Rooms -> SUBSET People]
         /\ retained' \in [Rooms -> SUBSET People]
         /\ stage' \in [Rooms -> {"open", "completed", "disbanded"}]
BY DEF LedgerTypeOK, TakeOut

LEMMA EnterType ==
  ASSUME LedgerTypeOK, NEW r \in Rooms, NEW u \in People, Enter(r, u)
  PROVE  LedgerTypeOK'
<1>1. fence[r][u] \in Fence
  BY DEF LedgerTypeOK
<1>2. [fence[r][u] EXCEPT !.joined = TRUE] \in Fence
  BY <1>1 DEF Fence
<1>3. fence' \in [Rooms -> [People -> Fence]]
  BY <1>2 DEF Enter, LedgerTypeOK
<1>4. seat' \in [Rooms -> [People -> Seat]]
  BY DEF Enter, LedgerTypeOK, Seat, NoSeat
<1>5. QED BY <1>3, <1>4 DEF Enter, LedgerTypeOK

LEMMA TypeNext == LedgerTypeOK /\ [AnyStep]_ledgerVars => LedgerTypeOK'
<1> SUFFICES ASSUME LedgerTypeOK, [AnyStep]_ledgerVars PROVE LedgerTypeOK'
  OBVIOUS
<1> USE OwnerAssumption, NumbersAssumption
<1>1. ASSUME NEW r \in Rooms, NEW o \in Ops, NEW g \in Nat, Reserve(r, o, g)
      PROVE  LedgerTypeOK'
  <2>1. Owner[o] \in People /\ g \in Nat
    OBVIOUS
  <2>2. seat' \in [Rooms -> [People -> Seat]]
    BY <1>1, <2>1 DEF Reserve, LedgerTypeOK, Seat, NoSeat
  <2>3. fence' \in [Rooms -> [People -> Fence]]
    BY <1>1, <2>1 DEF Reserve, LedgerTypeOK, Fence
  <2>4. QED BY <1>1, <2>2, <2>3 DEF Reserve, LedgerTypeOK
<1>2. ASSUME NEW r \in Rooms, NEW o \in Ops, NEW g \in Nat, Commit(r, o, g)
      PROVE  LedgerTypeOK'
  <2>1. Owner[o] \in People
    OBVIOUS
  <2>2. CASE ~Joins(r, o, g)
    BY <1>2, <2>2 DEF Commit, LedgerTypeOK, ledgerVars
  <2>3. CASE Joins(r, o, g)
    <3>1. Enter(r, Owner[o])
      BY <1>2, <2>3 DEF Commit
    <3>2. QED BY <2>1, <3>1, EnterType
  <2>4. QED BY <2>2, <2>3
<1>3. ASSUME NEW r \in Rooms, NEW o \in Ops, NEW g \in Nat,
             NEW lease \in Nat, NEW t \in Titles, Leave(r, o, g, lease, t)
      PROVE  LedgerTypeOK'
  <2>1. CASE ~Exits(r, o, g, lease, t)
    BY <1>3, <2>1 DEF Leave, LedgerTypeOK, ledgerVars
  <2>2. CASE Exits(r, o, g, lease, t)
    <3>1. Owner[o] \in People
      OBVIOUS
    <3>2. Exit(r, o)
      BY <1>3, <2>2 DEF Leave
    <3>3. QED BY <3>1, <3>2, TakeOutType DEF Exit, LedgerTypeOK
  <2>3. QED BY <2>1, <2>2
<1>4. ASSUME NEW r \in Rooms, NEW o \in Ops, NEW g \in Nat, Cancel(r, o, g)
      PROVE  LedgerTypeOK'
  <2>1. Owner[o] \in People /\ g + 1 \in Nat
    OBVIOUS
  <2>2. seat' \in [Rooms -> [People -> Seat]]
    BY <1>4, <2>1 DEF Cancel, LedgerTypeOK, Seat, NoSeat
  <2>3. fence' \in [Rooms -> [People -> Fence]]
    BY <1>4, <2>1 DEF Cancel, LedgerTypeOK, Fence
  <2>4. QED BY <1>4, <2>2, <2>3 DEF Cancel, LedgerTypeOK
<1>5. ASSUME NEW r \in Rooms, NEW u \in People, LeaveDirect(r, u)
      PROVE  LedgerTypeOK'
  BY <1>5, TakeOutType DEF LeaveDirect, LedgerTypeOK
<1>6. ASSUME NEW r \in Rooms, NEW u \in People, RemoveMember(r, u)
      PROVE  LedgerTypeOK'
  BY <1>6, TakeOutType DEF RemoveMember, LedgerTypeOK
<1>7. ASSUME NEW r \in Rooms, Disband(r) \/ Complete(r) \/ Rename(r)
      PROVE  LedgerTypeOK'
  <2>1. CASE Disband(r)
    BY <2>1 DEF Disband, LedgerTypeOK
  <2>2. CASE Complete(r)
    BY <2>2 DEF Complete, LedgerTypeOK
  <2>3. CASE Rename(r)
    <3>1. PICK t \in Titles : title' = [title EXCEPT ![r] = t]
      BY <2>3 DEF Rename
    <3>2. title' \in [Rooms -> Titles]
      BY <3>1 DEF LedgerTypeOK
    <3>3. QED BY <2>3, <3>2 DEF Rename, LedgerTypeOK
  <2>4. QED BY <1>7, <2>1, <2>2, <2>3
<1>8. ASSUME Tick PROVE LedgerTypeOK'
  BY <1>8 DEF Tick, LedgerTypeOK
<1>9. ASSUME UNCHANGED ledgerVars PROVE LedgerTypeOK'
  BY <1>9 DEF ledgerVars, LedgerTypeOK
<1>10. ASSUME AnyCalls PROVE LedgerTypeOK'
  <2>1. PICK r \in Rooms, o \in Ops, g \in Nat :
          \/ Reserve(r, o, g)
          \/ Commit(r, o, g)
          \/ \E lease \in Nat, t \in Titles : Leave(r, o, g, lease, t)
          \/ Cancel(r, o, g)
    BY <1>10, Zenon DEF AnyCalls
  <2>2. ASSUME NEW lease \in Nat, NEW t \in Titles, Leave(r, o, g, lease, t)
        PROVE  LedgerTypeOK'
    BY <1>3, <2>2
  <2>3. QED BY <1>1, <1>2, <1>4, <2>1, <2>2
<1>11. ASSUME Surroundings PROVE LedgerTypeOK'
  BY <1>5, <1>6, <1>7, <1>8, <1>11 DEF Surroundings
<1>12. QED BY <1>9, <1>10, <1>11 DEF AnyStep

\* Every table of a room keeps its type, whatever calls arrive.
THEOREM LedgerTypeCorrect == LedgerSpec => []LedgerTypeOK
<1>1. LedgerInit => LedgerTypeOK
  BY TypeInit
<1>2. LedgerTypeOK /\ [LedgerNext]_ledgerVars => LedgerTypeOK'
  BY TypeNext, StepsAreAnySteps
<1>3. QED BY <1>1, <1>2, PTL DEF LedgerSpec

-----------------------------------------------------------------------------
\* The seat count.

LEMMA OccupancyShrinks ==
  ASSUME NEW S, NEW T, T \subseteq S, IsFiniteSet(S), Cardinality(S) <= Capacity
  PROVE  IsFiniteSet(T) /\ Cardinality(T) <= Capacity
<1>1. IsFiniteSet(T) /\ Cardinality(T) <= Cardinality(S)
  BY FS_Subset
<1>2. Cardinality(T) \in Nat /\ Cardinality(S) \in Nat
  BY <1>1, FS_CardinalityType
<1>3. QED BY <1>1, <1>2, NumbersAssumption

\* A reservation is granted to somebody without a colour only when colours and
\* waiting seats leave one free.
LEMMA OneMoreSeat ==
  ASSUME NEW C, NEW W, NEW u, IsFiniteSet(C), IsFiniteSet(W), C \cap W = {},
         ~(Cardinality(C) + Cardinality(W) >= Capacity)
  PROVE  /\ IsFiniteSet((C \cup W) \cup {u})
         /\ Cardinality((C \cup W) \cup {u}) <= Capacity
<1>1. Cardinality(C) \in Nat /\ Cardinality(W) \in Nat
  BY FS_CardinalityType
<1>2. IsFiniteSet(C \cup W)
  BY FS_Union
<1>3. Cardinality(C \cup W) = Cardinality(C) + Cardinality(W)
  <2>1. Cardinality(C \cap W) = 0
    BY FS_EmptySet
  <2>2. Cardinality(C \cup W) =
          Cardinality(C) + Cardinality(W) - Cardinality(C \cap W)
    BY FS_Union, Zenon
  <2>3. QED BY <1>1, <2>1, <2>2
<1>4. /\ IsFiniteSet((C \cup W) \cup {u})
      /\ \/ Cardinality((C \cup W) \cup {u}) = Cardinality(C \cup W)
         \/ Cardinality((C \cup W) \cup {u}) = Cardinality(C \cup W) + 1
  BY <1>2, FS_AddElement
<1>5. QED BY <1>1, <1>3, <1>4, NumbersAssumption

LEMMA ReserveKeepsSeats ==
  ASSUME SeatInvariant, NEW r \in Rooms, NEW o \in Ops, NEW g \in Nat,
         Reserve(r, o, g), NEW q \in Rooms
  PROVE  IsFiniteSet(Taken(q)') /\ Cardinality(Taken(q)') <= Capacity
<1> DEFINE u == Owner[o]
           granted == ReserveReply(r, o, g) = "ok"
<1>1. u \in People /\ o # NoOp
  BY OwnerAssumption
<1>2. IsFiniteSet(Taken(q)) /\ Cardinality(Taken(q)) <= Capacity
  BY DEF SeatInvariant
<1>3. colors' = colors
  BY DEF Reserve
<1>4. \A w \in People : w # u \/ ~granted =>
        seat'[r][w] = IF Live(seat[r][w]) THEN seat[r][w] ELSE NoSeat
  BY <1>1 DEF Reserve, SeatInvariant, LedgerTypeOK
<1>5. \A w \in People : w # u \/ ~granted =>
        (seat'[r][w].op # NoOp => Live(seat[r][w]) /\ seat[r][w].op # NoOp)
  BY <1>4 DEF NoSeat, Live
<1>6. CASE q # r
  <2>1. seat'[q] = seat[q]
    BY <1>6 DEF Reserve, SeatInvariant, LedgerTypeOK
  <2>2. Taken(q)' = Taken(q)
    BY <1>3, <2>1 DEF Taken
  <2>3. QED BY <1>2, <2>2
<1>7. CASE q = r /\ (~granted \/ u \in colors[r])
  <2>1. Taken(q)' \subseteq Taken(q)
    BY <1>3, <1>5, <1>7 DEF Taken
  <2>2. QED BY <1>2, <2>1, OccupancyShrinks
<1>8. CASE q = r /\ granted /\ u \notin colors[r]
  <2>1. IsFiniteSet(colors[r]) /\ IsFiniteSet(Waiting(r, u))
    <3>1. colors[r] \subseteq Taken(r) /\ Waiting(r, u) \subseteq Taken(r)
      BY DEF Taken, Waiting, Live
    <3>2. QED BY <1>2, <1>8, <3>1, FS_Subset
  <2>2. colors[r] \cap Waiting(r, u) = {}
    BY DEF Waiting
  <2>3. ~(Cardinality(colors[r]) + Cardinality(Waiting(r, u)) >= Capacity)
    BY <1>8 DEF ReserveReply
  <2>4. Taken(q)' \subseteq (colors[r] \cup Waiting(r, u)) \cup {u}
    BY <1>3, <1>5, <1>8 DEF Taken, Waiting
  <2>5. /\ IsFiniteSet((colors[r] \cup Waiting(r, u)) \cup {u})
        /\ Cardinality((colors[r] \cup Waiting(r, u)) \cup {u}) <= Capacity
    BY <2>1, <2>2, <2>3, OneMoreSeat
  <2>6. QED BY <2>4, <2>5, OccupancyShrinks
<1>9. QED BY <1>6, <1>7, <1>8

\* Every other step takes nobody in who was not counted before.
LEMMA OthersShrink ==
  ASSUME SeatInvariant, [AnyStep]_ledgerVars,
         \A r \in Rooms, o \in Ops, g \in Nat : ~Reserve(r, o, g),
         NEW q \in Rooms
  PROVE  Taken(q)' \subseteq Taken(q)
<1> USE OwnerAssumption DEF SeatInvariant, LedgerTypeOK
<1>1. ASSUME UNCHANGED ledgerVars PROVE Taken(q)' \subseteq Taken(q)
  BY <1>1 DEF ledgerVars, Taken
<1>2. ASSUME NEW r \in Rooms, NEW o \in Ops, NEW g \in Nat, Commit(r, o, g)
      PROVE  Taken(q)' \subseteq Taken(q)
  <2>1. CASE ~Joins(r, o, g)
    BY <1>1, <1>2, <2>1 DEF Commit
  <2>2. CASE Joins(r, o, g)
    <3>1. Enter(r, Owner[o])
      BY <1>2, <2>2 DEF Commit
    <3>2. seat[r][Owner[o]].op = o
      BY <2>2 DEF Joins, CommitReply
    <3>3. Owner[o] \in People /\ Owner[o] \in Taken(r)
      BY <3>2 DEF Taken
    <3>4. colors'[q] \subseteq Taken(q)
      BY <3>1, <3>3 DEF Enter, Taken
    <3>5. \A w \in People : seat'[q][w].op # NoOp => seat[q][w].op # NoOp
      BY <3>1, <3>3 DEF Enter, NoSeat
    <3>6. QED BY <3>4, <3>5 DEF Taken
  <2>3. QED BY <2>1, <2>2
<1>3. ASSUME NEW r \in Rooms, NEW u \in People, NEW keep \in BOOLEAN,
             TakeOut(r, u, keep), seat' = seat
      PROVE  Taken(q)' \subseteq Taken(q)
  <2>1. colors'[q] \subseteq colors[q]
    BY <1>3 DEF TakeOut
  <2>2. QED BY <1>3, <2>1 DEF Taken
<1>4. ASSUME NEW r \in Rooms, NEW o \in Ops, NEW g \in Nat,
             NEW lease \in Nat, NEW t \in Titles, Leave(r, o, g, lease, t)
      PROVE  Taken(q)' \subseteq Taken(q)
  <2>1. CASE ~Exits(r, o, g, lease, t)
    BY <1>1, <1>4, <2>1 DEF Leave
  <2>2. CASE Exits(r, o, g, lease, t)
    BY <1>3, <1>4, <2>2 DEF Leave, Exit
  <2>3. QED BY <2>1, <2>2
<1>5. ASSUME NEW r \in Rooms, NEW o \in Ops, NEW g \in Nat, Cancel(r, o, g)
      PROVE  Taken(q)' \subseteq Taken(q)
  <2>1. colors' = colors
    BY <1>5 DEF Cancel
  <2>2. \A w \in People : seat'[q][w].op # NoOp => seat[q][w].op # NoOp
    BY <1>5 DEF Cancel, NoSeat
  <2>3. QED BY <2>1, <2>2 DEF Taken
<1>6. ASSUME NEW r \in Rooms, NEW u \in People,
             LeaveDirect(r, u) \/ RemoveMember(r, u)
      PROVE  Taken(q)' \subseteq Taken(q)
  BY <1>3, <1>6 DEF LeaveDirect, RemoveMember
<1>7. ASSUME NEW r \in Rooms, Disband(r) \/ Complete(r) \/ Rename(r)
      PROVE  Taken(q)' \subseteq Taken(q)
  <2>1. seat' = seat /\ colors'[q] \subseteq colors[q]
    BY <1>7 DEF Disband, Complete, Rename
  <2>2. QED BY <2>1 DEF Taken
<1>8. ASSUME Tick PROVE Taken(q)' \subseteq Taken(q)
  BY <1>8 DEF Tick, Taken
<1>9. ASSUME AnyCalls PROVE Taken(q)' \subseteq Taken(q)
  <2>1. PICK r \in Rooms, o \in Ops, g \in Nat :
          \/ Commit(r, o, g)
          \/ \E lease \in Nat, t \in Titles : Leave(r, o, g, lease, t)
          \/ Cancel(r, o, g)
    BY <1>9, Zenon DEF AnyCalls
  <2>2. ASSUME NEW lease \in Nat, NEW t \in Titles, Leave(r, o, g, lease, t)
        PROVE  Taken(q)' \subseteq Taken(q)
    BY <1>4, <2>2
  <2>3. QED BY <1>2, <1>5, <2>1, <2>2
<1>10. ASSUME Surroundings PROVE Taken(q)' \subseteq Taken(q)
  BY <1>6, <1>7, <1>8, <1>10, Zenon DEF Surroundings
<1>11. QED BY <1>1, <1>9, <1>10, Zenon DEF AnyStep

LEMMA SeatInit == LedgerInit => SeatInvariant
<1> SUFFICES ASSUME LedgerInit, NEW r \in Rooms
             PROVE  IsFiniteSet(Taken(r)) /\ Cardinality(Taken(r)) <= Capacity
  BY TypeInit DEF SeatInvariant
<1>1. Taken(r) = members[r]
  BY PlacementsAssumption DEF LedgerInit, Taken, NoSeat
<1>2. QED BY <1>1, PlacementsAssumption DEF LedgerInit

LEMMA SeatNext == SeatInvariant /\ [AnyStep]_ledgerVars => SeatInvariant'
<1> SUFFICES ASSUME SeatInvariant, [AnyStep]_ledgerVars PROVE SeatInvariant'
  OBVIOUS
<1>1. LedgerTypeOK'
  BY TypeNext DEF SeatInvariant
<1>2. ASSUME NEW q \in Rooms
      PROVE  IsFiniteSet(Taken(q)') /\ Cardinality(Taken(q)') <= Capacity
  <2>1. CASE \E r \in Rooms, o \in Ops, g \in Nat : Reserve(r, o, g)
    BY <2>1, ReserveKeepsSeats
  <2>2. CASE \A r \in Rooms, o \in Ops, g \in Nat : ~Reserve(r, o, g)
    <3>1. Taken(q)' \subseteq Taken(q)
      BY <2>2, OthersShrink
    <3>2. IsFiniteSet(Taken(q)) /\ Cardinality(Taken(q)) <= Capacity
      BY DEF SeatInvariant
    <3>3. QED BY <3>1, <3>2, OccupancyShrinks
  <2>3. QED BY <2>1, <2>2
<1>3. QED BY <1>1, <1>2 DEF SeatInvariant

LEMMA SeatInvariantImplies == SeatInvariant => SeatsWithinCapacity
<1> SUFFICES ASSUME SeatInvariant, NEW r \in Rooms
    PROVE Cardinality(colors[r] \cup {u \in People : Live(seat[r][u])})
            <= Capacity
  BY DEF SeatsWithinCapacity
<1>1. colors[r] \cup {u \in People : Live(seat[r][u])} \subseteq Taken(r)
  BY DEF Taken, Live
<1>2. QED BY <1>1, OccupancyShrinks DEF SeatInvariant

\* Colours and unexpired reservations of a room never exceed its capacity,
\* whatever calls arrive and in whatever order (reserveParticipation).
THEOREM SeatsAreNeverOversold == LedgerSpec => []SeatsWithinCapacity
<1>1. LedgerInit => SeatInvariant
  BY SeatInit
<1>2. SeatInvariant /\ [LedgerNext]_ledgerVars => SeatInvariant'
  BY SeatNext, StepsAreAnySteps
<1>3. SeatInvariant => SeatsWithinCapacity
  BY SeatInvariantImplies
<1>4. QED BY <1>1, <1>2, <1>3, PTL DEF LedgerSpec

-----------------------------------------------------------------------------
\* The fences.

Forward(old, new) ==
  \/ new.gen > old.gen
  \/ new.gen = old.gen /\ new.op = old.op /\ (old.joined => new.joined)

LEMMA FenceSteps ==
  ASSUME LedgerTypeOK, [AnyStep]_ledgerVars, NEW q \in Rooms, NEW w \in People
  PROVE  Forward(fence[q][w], fence'[q][w])
<1> USE OwnerAssumption DEF LedgerTypeOK
<1>1. fence[q][w] \in Fence
  OBVIOUS
<1>2. Forward(fence[q][w], fence[q][w])
  BY <1>1 DEF Forward, Fence
<1>3. ASSUME fence' = fence PROVE Forward(fence[q][w], fence'[q][w])
  BY <1>2, <1>3
<1>4. ASSUME NEW r \in Rooms, NEW o \in Ops, NEW g \in Nat, Reserve(r, o, g)
      PROVE  Forward(fence[q][w], fence'[q][w])
  <2>1. CASE fence' = fence
    BY <1>3, <2>1
  <2>2. CASE /\ fence[r][Owner[o]].gen < g
             /\ fence' = [fence EXCEPT ![r][Owner[o]] =
                            [gen |-> g, op |-> o, joined |-> FALSE]]
    <3>1. CASE q = r /\ w = Owner[o]
      BY <1>1, <2>2, <3>1 DEF Forward, Fence
    <3>2. CASE ~(q = r /\ w = Owner[o])
      <4>1. fence'[q][w] = fence[q][w]
        BY <2>2, <3>2
      <4>2. QED BY <1>2, <4>1
    <3>3. QED BY <3>1, <3>2
  <2>3. QED BY <1>4, <2>1, <2>2 DEF Reserve
<1>5. ASSUME NEW r \in Rooms, NEW o \in Ops, NEW g \in Nat, Commit(r, o, g)
      PROVE  Forward(fence[q][w], fence'[q][w])
  <2>1. CASE ~Joins(r, o, g)
    BY <1>3, <1>5, <2>1 DEF Commit, ledgerVars
  <2>2. CASE Joins(r, o, g)
    <3>1. fence' = [fence EXCEPT ![r][Owner[o]].joined = TRUE]
      BY <1>5, <2>2, Zenon DEF Commit, Enter
    <3>2. fence'[q][w] = IF q = r /\ w = Owner[o]
                         THEN [fence[q][w] EXCEPT !.joined = TRUE]
                         ELSE fence[q][w]
      BY <3>1
    <3>3. QED BY <1>1, <3>2 DEF Forward, Fence
  <2>3. QED BY <2>1, <2>2
<1>6. ASSUME NEW r \in Rooms, NEW o \in Ops, NEW g \in Nat, Cancel(r, o, g)
      PROVE  Forward(fence[q][w], fence'[q][w])
  <2>1. CASE fence' = fence
    BY <1>3, <2>1
  <2>2. CASE /\ fence[r][Owner[o]].gen <= g
             /\ fence' = [fence EXCEPT ![r][Owner[o]] =
                            [gen |-> g + 1, op |-> NoOp, joined |-> FALSE]]
    <3>1. CASE q = r /\ w = Owner[o]
      BY <1>1, <2>2, <3>1 DEF Forward, Fence
    <3>2. CASE ~(q = r /\ w = Owner[o])
      <4>1. fence'[q][w] = fence[q][w]
        BY <2>2, <3>2
      <4>2. QED BY <1>2, <4>1
    <3>3. QED BY <3>1, <3>2
  <2>3. QED BY <1>6, <2>1, <2>2 DEF Cancel
<1>7. ASSUME NEW r \in Rooms, NEW o \in Ops, NEW g \in Nat,
             NEW lease \in Nat, NEW t \in Titles, Leave(r, o, g, lease, t)
      PROVE  fence' = fence
  BY <1>7 DEF Leave, Exit, ledgerVars
<1>8. ASSUME AnyCalls PROVE Forward(fence[q][w], fence'[q][w])
  <2>1. PICK r \in Rooms, o \in Ops, g \in Nat :
          \/ Reserve(r, o, g)
          \/ Commit(r, o, g)
          \/ \E lease \in Nat, t \in Titles : Leave(r, o, g, lease, t)
          \/ Cancel(r, o, g)
    BY <1>8, Zenon DEF AnyCalls
  <2>2. ASSUME NEW lease \in Nat, NEW t \in Titles, Leave(r, o, g, lease, t)
        PROVE  fence' = fence
    BY <1>7, <2>2
  <2>3. QED BY <1>3, <1>4, <1>5, <1>6, <2>1, <2>2
<1>9. ASSUME Surroundings PROVE fence' = fence
  BY <1>9 DEF Surroundings, LeaveDirect, RemoveMember, Disband, Complete,
              Rename, Tick
<1>10. ASSUME UNCHANGED ledgerVars PROVE fence' = fence
  BY <1>10 DEF ledgerVars
<1>11. QED BY <1>3, <1>8, <1>9, <1>10 DEF AnyStep

\* No call ever takes a fence back, hands its generation to another operation
\* or forgets that the operation joined: an operation that was overtaken or
\* cancelled stays so (reserveParticipation, commitParticipation,
\* cancelParticipation).
THEOREM FencesOnlyAdvance == LedgerSpec => FenceNeverGoesBack
<1>1. LedgerTypeOK /\ [LedgerNext]_ledgerVars =>
        \A q \in Rooms, w \in People : Forward(fence[q][w], fence'[q][w])
  BY FenceSteps, StepsAreAnySteps
<1>2. (\A q \in Rooms, w \in People : Forward(fence[q][w], fence'[q][w])) =>
        \A r \in Rooms, u \in People :
          LET old == fence[r][u]
              new == fence'[r][u]
          IN \/ new.gen > old.gen
             \/ new.gen = old.gen /\ new.op = old.op
                /\ (old.joined => new.joined)
  BY DEF Forward
<1>3. QED BY <1>1, <1>2, LedgerTypeCorrect, PTL
             DEF LedgerSpec, FenceNeverGoesBack

-----------------------------------------------------------------------------
\* A reservation was granted under the fence of its own operation, or that
\* fence has moved on since.
SeatsFollowFences ==
  \A r \in Rooms, w \in People :
    LET row == seat[r][w]
        f == fence[r][w]
    IN row.op # NoOp => f.gen > row.gen \/ (f.gen = row.gen /\ f.op = row.op)

LEMMA SeatsFollow ==
  LedgerTypeOK /\ SeatsFollowFences /\ [AnyStep]_ledgerVars
  => SeatsFollowFences'
<1> SUFFICES ASSUME LedgerTypeOK, SeatsFollowFences, [AnyStep]_ledgerVars,
                    NEW q \in Rooms, NEW w \in People, seat'[q][w].op # NoOp
             PROVE  LET row == seat'[q][w]
                        f == fence'[q][w]
                    IN f.gen > row.gen \/ (f.gen = row.gen /\ f.op = row.op)
  BY DEF SeatsFollowFences
<1> USE OwnerAssumption DEF LedgerTypeOK
<1>1. /\ seat[q][w] \in Seat /\ fence[q][w] \in Fence
      /\ fence'[q][w] \in Fence
  BY TypeNext
<1>2. CASE seat'[q][w] = seat[q][w]
  <2>1. Forward(fence[q][w], fence'[q][w])
    BY FenceSteps
  <2>2. LET row == seat[q][w]
            f == fence[q][w]
        IN f.gen > row.gen \/ (f.gen = row.gen /\ f.op = row.op)
    BY <1>2 DEF SeatsFollowFences
  <2>3. QED BY <1>1, <1>2, <2>1, <2>2 DEF Forward, Fence, Seat
<1>3. ASSUME NEW r \in Rooms, NEW o \in Ops, NEW g \in Nat, Reserve(r, o, g),
             seat'[q][w] # seat[q][w]
      PROVE  LET row == seat'[q][w]
                 f == fence'[q][w]
             IN f.gen > row.gen \/ (f.gen = row.gen /\ f.op = row.op)
  <2>1. /\ q = r /\ w = Owner[o] /\ ReserveReply(r, o, g) = "ok"
        /\ seat'[q][w] = [op |-> o, gen |-> g, expires |-> now + LeaseTime]
    BY <1>3 DEF Reserve, NoSeat
  <2>2. /\ ~(fence[q][w].gen > g)
        /\ fence[q][w].gen = g => fence[q][w].op = o
    BY <2>1 DEF ReserveReply
  <2>3. fence'[q][w] = IF fence[q][w].gen < g
                       THEN [gen |-> g, op |-> o, joined |-> FALSE]
                       ELSE fence[q][w]
    BY <1>3, <2>1 DEF Reserve
  <2>4. fence[q][w].gen \in Nat
    BY <1>1 DEF Fence
  <2>5. seat'[q][w].gen = g /\ seat'[q][w].op = o
    BY <2>1
  <2>6. fence'[q][w].gen = g /\ fence'[q][w].op = o
    <3>1. CASE fence[q][w].gen < g
      BY <2>3, <3>1
    <3>2. CASE ~(fence[q][w].gen < g)
      <4>1. fence[q][w].gen = g
        <5>1. \A a, b \in Nat : ~(a < b) /\ ~(a > b) => a = b
          OBVIOUS
        <5>2. QED BY <2>2, <2>4, <3>2, <5>1
      <4>2. QED BY <2>2, <2>3, <3>2, <4>1
    <3>3. QED BY <3>1, <3>2
  <2>7. QED BY <2>5, <2>6
<1>4. ASSUME NEW r \in Rooms, NEW o \in Ops, NEW g \in Nat,
             Commit(r, o, g) \/ Cancel(r, o, g)
      PROVE  seat'[q][w] \in {seat[q][w], NoSeat}
  BY <1>4 DEF Commit, Cancel, Enter, ledgerVars
<1>5. ASSUME NEW r \in Rooms, NEW o \in Ops, NEW g \in Nat,
             NEW lease \in Nat, NEW t \in Titles, Leave(r, o, g, lease, t)
      PROVE  seat' = seat
  BY <1>5 DEF Leave, Exit, ledgerVars
<1>6. ASSUME Surroundings PROVE seat' = seat
  BY <1>6 DEF Surroundings, LeaveDirect, RemoveMember, Disband, Complete,
              Rename, Tick
<1>7. CASE AnyCalls /\ seat'[q][w] # seat[q][w]
  <2>1. PICK r \in Rooms, o \in Ops, g \in Nat :
          \/ Reserve(r, o, g)
          \/ Commit(r, o, g)
          \/ \E lease \in Nat, t \in Titles : Leave(r, o, g, lease, t)
          \/ Cancel(r, o, g)
    BY <1>7, Zenon DEF AnyCalls
  <2>2. seat'[q][w] # NoSeat
    BY DEF NoSeat
  <2>3. Reserve(r, o, g)
    BY <1>4, <1>5, <1>7, <2>1, <2>2
  <2>4. QED BY <1>3, <1>7, <2>3
<1>8. QED BY <1>2, <1>6, <1>7 DEF AnyStep, ledgerVars
=============================================================================
