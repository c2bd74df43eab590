---------------------------- MODULE ProgressProofs ----------------------------
(***************************************************************************)
(* Theorems about Progress, for any number of people, any durations and    *)
(* any number of checkpoints.                                              *)
(***************************************************************************)
EXTENDS Progress, FiniteSetTheorems, SequenceTheorems, WellFoundedInduction, TLAPS

-----------------------------------------------------------------------------
\* Orders, and what is drawn by lot.

LEMMA OrdersAreSequences ==
  ASSUME NEW s
  PROVE  s \in Orders <=> s \in Seq(People) /\ IsInjective(s)
<1>1. ASSUME s \in Orders
      PROVE  s \in Seq(People) /\ IsInjective(s)
  <2>1. PICK n \in 0 .. Cardinality(People) : s \in [1 .. n -> People] /\ IsInjective(s)
    BY <1>1 DEF Orders
  <2>2. n \in Nat
    BY FS_CardinalityType, PeopleAssumption
  <2>3. QED BY <2>1, <2>2, IsASeq
<1>2. ASSUME s \in Seq(People), IsInjective(s)
      PROVE  s \in Orders
  <2>1. Len(s) \in Nat /\ s \in [1 .. Len(s) -> People]
    BY <1>2, LenProperties
  <2>2. s \in Injection(1 .. Len(s), People)
    BY <1>2, <2>1 DEF Injection, IsInjective
  <2>3. Cardinality(1 .. Len(s)) <= Cardinality(People)
    BY <2>2, PeopleAssumption, FS_Injection
  <2>4. Cardinality(1 .. Len(s)) = Len(s)
    BY <2>1, FS_Interval
  <2>5. Cardinality(People) \in Nat
    BY FS_CardinalityType, PeopleAssumption
  <2>6. Len(s) \in 0 .. Cardinality(People)
    BY <2>1, <2>3, <2>4, <2>5
  <2>7. QED BY <1>2, <2>1, <2>6 DEF Orders
<1>3. QED BY <1>1, <1>2

LEMMA EmptyOrder == <<>> \in Orders
<1>1. <<>> \in Seq(People) /\ IsInjective(<<>>)
  BY DEF IsInjective
<1>2. QED BY <1>1, OrdersAreSequences

LEMMA DrawnIsOrder ==
  ASSUME NEW lot \in Lots, NEW S \in SUBSET People
  PROVE  Drawn(lot, S) \in Orders /\ Range(Drawn(lot, S)) = S
<1> DEFINE below(u) == {v \in S : lot[v] <= lot[u]}
           rank == [u \in S |-> Cardinality(below(u))]
           n == Cardinality(S)
           d == Drawn(lot, S)
<1>0. n \in Nat /\ IsFiniteSet(S) /\ IsFiniteSet(1 .. n) /\ Cardinality(1 .. n) = n
  <2>1. IsFiniteSet(S)
    BY PeopleAssumption, FS_Subset
  <2>2. n \in Nat
    BY <2>1, FS_CardinalityType
  <2>3. QED BY <2>1, <2>2, FS_Interval
<1>1. \A u \in S : lot[u] \in Nat
  <2>1. lot \in [People -> 1 .. Cardinality(People)]
    BY DEF Lots, Injection
  <2>2. Cardinality(People) \in Nat
    BY PeopleAssumption, FS_CardinalityType
  <2>3. QED BY <2>1, <2>2
<1>2. \A u, v \in S : lot[u] = lot[v] => u = v
  BY DEF Lots, Injection, IsInjective
<1>3. \A u \in S : IsFiniteSet(below(u)) /\ Cardinality(below(u)) \in 1 .. n
  <2> SUFFICES ASSUME NEW u \in S
               PROVE  IsFiniteSet(below(u)) /\ Cardinality(below(u)) \in 1 .. n
    OBVIOUS
  <2>1. below(u) \in SUBSET S /\ u \in below(u)
    BY <1>1
  <2> HIDE DEF below
  <2>2. IsFiniteSet(below(u)) /\ Cardinality(below(u)) <= n
    BY <1>0, <2>1, FS_Subset
  <2>3. Cardinality(below(u)) \in Nat /\ Cardinality(below(u)) # 0
    BY <2>1, <2>2, FS_CardinalityType, FS_EmptySet
  <2>4. QED BY <1>0, <2>2, <2>3
<1>4. \A u, v \in S : Cardinality(below(u)) = Cardinality(below(v)) => u = v
  <2>1. ASSUME NEW u \in S, NEW v \in S, lot[u] < lot[v]
        PROVE  Cardinality(below(u)) # Cardinality(below(v))
    <3>1. below(u) \in SUBSET below(v) /\ v \in below(v) /\ v \notin below(u)
      BY <1>1, <2>1
    <3>2. IsFiniteSet(below(v))
      BY <1>3
    <3> HIDE DEF below
    <3>3. QED BY <3>1, <3>2, FS_Subset
  <2>2. ASSUME NEW u \in S, NEW v \in S, u # v
        PROVE  lot[u] < lot[v] \/ lot[v] < lot[u]
    BY <1>1, <1>2, <2>2
  <2> HIDE DEF below
  <2>3. QED BY <2>1, <2>2
<1> HIDE DEF below
<1>5. rank \in Surjection(S, 1 .. n)
  <2>1. rank \in Injection(S, 1 .. n)
    BY <1>3, <1>4 DEF Injection, IsInjective
  <2>2. QED BY <1>0, <2>1, FS_Injection
<1>6. \A i \in 1 .. n : \E u \in S : Cardinality(below(u)) = i
  BY <1>5 DEF Surjection
<1>7. d = [i \in 1 .. n |-> CHOOSE u \in S : Cardinality(below(u)) = i]
  BY DEF Drawn, below
<1>8. \A i \in 1 .. n : d[i] \in S /\ Cardinality(below(d[i])) = i
  BY <1>6, <1>7
<1> HIDE DEF d
<1>9. d \in [1 .. n -> S]
  BY <1>7, <1>8
<1>10. IsInjective(d)
  BY <1>8, <1>9 DEF IsInjective
<1>11. Range(d) = S
  <2>1. \A u \in S : d[Cardinality(below(u))] = u
    BY <1>3, <1>4, <1>8
  <2>2. QED BY <1>3, <1>8, <1>9, <2>1 DEF Range
<1>12. d \in Seq(People)
  <2>1. d \in [1 .. n -> People]
    BY <1>9
  <2>2. QED BY <1>0, <2>1, IsASeq
<1>13. QED BY <1>10, <1>11, <1>12, OrdersAreSequences DEF d

\* Somebody more, or several, at the end of an order.
LEMMA LongerOrder ==
  ASSUME NEW s \in Orders, NEW t \in Orders, Range(s) \cap Range(t) = {}
  PROVE  /\ s \o t \in Orders /\ Range(s \o t) = Range(s) \cup Range(t)
         /\ Len(s) <= Len(s \o t)
<1>1. s \in Seq(People) /\ t \in Seq(People) /\ IsInjective(s) /\ IsInjective(t)
  BY OrdersAreSequences
<1>2. /\ s \o t \in Seq(People) /\ Len(s \o t) = Len(s) + Len(t)
      /\ \A i \in 1 .. Len(s) + Len(t) :
           (s \o t)[i] = IF i <= Len(s) THEN s[i] ELSE t[i - Len(s)]
      /\ Len(s) \in Nat /\ Len(t) \in Nat
  BY <1>1, ConcatProperties, LenProperties
<1>3. /\ DOMAIN s = 1 .. Len(s) /\ DOMAIN t = 1 .. Len(t)
      /\ DOMAIN (s \o t) = 1 .. Len(s) + Len(t)
  BY <1>1, <1>2, LenProperties
<1>4. IsInjective(s \o t)
  <2> SUFFICES ASSUME NEW i \in 1 .. Len(s) + Len(t), NEW j \in 1 .. Len(s) + Len(t),
                      (s \o t)[i] = (s \o t)[j]
               PROVE  i = j
    BY <1>3 DEF IsInjective
  <2>1. \A k \in 1 .. Len(s) : s[k] \in Range(s)
    BY <1>3 DEF Range
  <2>2. \A k \in 1 .. Len(t) : t[k] \in Range(t)
    BY <1>3 DEF Range
  <2>3. \A k, l \in 1 .. Len(s) : s[k] = s[l] => k = l
    BY <1>1, <1>3 DEF IsInjective
  <2>4. \A k, l \in 1 .. Len(t) : t[k] = t[l] => k = l
    BY <1>1, <1>3 DEF IsInjective
  <2>5. CASE i <= Len(s) /\ j <= Len(s)
    <3>1. i \in 1 .. Len(s) /\ j \in 1 .. Len(s) /\ s[i] = s[j]
      BY <1>2, <2>5
    <3>2. QED BY <2>3, <3>1
  <2>6. CASE i > Len(s) /\ j > Len(s)
    <3>1. /\ i - Len(s) \in 1 .. Len(t) /\ j - Len(s) \in 1 .. Len(t)
          /\ t[i - Len(s)] = t[j - Len(s)]
      BY <1>2, <2>6
    <3>2. i - Len(s) = j - Len(s)
      BY <2>4, <3>1
    <3>3. QED BY <1>2, <3>2
  <2>7. CASE i <= Len(s) /\ j > Len(s)
    <3>1. i \in 1 .. Len(s) /\ j - Len(s) \in 1 .. Len(t) /\ s[i] = t[j - Len(s)]
      BY <1>2, <2>7
    <3>2. QED BY <2>1, <2>2, <3>1
  <2>8. CASE i > Len(s) /\ j <= Len(s)
    <3>1. j \in 1 .. Len(s) /\ i - Len(s) \in 1 .. Len(t) /\ s[j] = t[i - Len(s)]
      BY <1>2, <2>8
    <3>2. QED BY <2>1, <2>2, <3>1
  <2>9. QED BY <1>2, <2>5, <2>6, <2>7, <2>8
<1>5. Range(s \o t) = Range(s) \cup Range(t)
  BY <1>1, RangeConcatenation
<1>6. s \o t \in Orders
  BY <1>2, <1>4, OrdersAreSequences
<1>7. QED BY <1>2, <1>5, <1>6

LEMMA OneMore ==
  ASSUME NEW s \in Orders, NEW u \in People, u \notin Range(s)
  PROVE  /\ Append(s, u) \in Orders /\ Range(Append(s, u)) = Range(s) \cup {u}
         /\ Len(s) < Len(Append(s, u))
<1>1. s \in Seq(People) /\ <<u>> \in Seq(People)
  BY OrdersAreSequences
<1>2. <<u>> \in Orders /\ Range(<<u>>) = {u}
  <2>1. IsInjective(<<u>>) /\ Range(<<u>>) = {u}
    BY DEF IsInjective, Range
  <2>2. QED BY <1>1, <2>1, OrdersAreSequences
<1>3. Append(s, u) = s \o <<u>> /\ Len(Append(s, u)) = Len(s) + 1
  BY <1>1, AppendIsConcat, AppendProperties
<1>4. Len(s) \in Nat
  BY <1>1
<1>5. QED BY <1>2, <1>3, <1>4, LongerOrder

-----------------------------------------------------------------------------
\* Phases.

LEMMA StepTypes ==
  /\ StepCount[1] = 5 /\ StepCount[2] = 4 /\ StepCount[3] = 5
  /\ VotingStep[1] = 4 /\ VotingStep[2] = 3 /\ VotingStep[3] = 4
  /\ \A p \in 1 .. 3 : StepCount[p] \in 4 .. 5 /\ VotingStep[p] = StepCount[p] - 1
  /\ \A p, k : <<p, k>> \in Steps <=> p \in 1 .. 3 /\ k \in 1 .. StepCount[p]
  /\ \A ph \in Steps : /\ ph = <<ph[1], ph[2]>> /\ ph # Lobby
                       /\ ph[1] \in 1 .. 3 /\ ph[2] \in 1 .. StepCount[ph[1]]
<1>1. /\ StepCount[1] = 5 /\ StepCount[2] = 4 /\ StepCount[3] = 5
      /\ VotingStep[1] = 4 /\ VotingStep[2] = 3 /\ VotingStep[3] = 4
  BY DEF StepCount, VotingStep
<1>2. \A p \in 1 .. 3 : StepCount[p] \in 4 .. 5 /\ VotingStep[p] = StepCount[p] - 1
  BY <1>1
<1>3. \A p, k : <<p, k>> \in Steps <=> p \in 1 .. 3 /\ k \in 1 .. StepCount[p]
  BY DEF Steps
<1>4. \A ph \in Steps : /\ ph = <<ph[1], ph[2]>>
                        /\ ph[1] \in 1 .. 3 /\ ph[2] \in 1 .. StepCount[ph[1]]
  BY DEF Steps
<1>5. \A ph \in Steps : ph # Lobby
  BY <1>4 DEF Lobby
<1>6. QED BY <1>1, <1>2, <1>3, <1>4, <1>5

LEMMA NextOfLobby ==
  /\ Lobby[1] = 0 /\ Lobby[2] = 0 /\ ~IsSharing(Lobby) /\ ~IsResult(Lobby)
  /\ NextPhase(Lobby) = <<1, 1>> /\ <<1, 1>> \in Steps
  /\ ~IsSharing(<<1, 1>>) /\ ~IsResult(<<1, 1>>)
BY StepTypes DEF Lobby, IsSharing, IsResult, NextPhase

LEMMA NextOfStep ==
  ASSUME NEW ph \in Steps
  PROVE  /\ NextPhase(ph) \in Steps /\ NextPhase(ph)[1] \in {ph[1], ph[1] + 1}
         /\ NextPhase(ph)[1] # ph[1] => IsResult(ph) /\ ~IsResult(NextPhase(ph))
         /\ NextPhase(ph)[1] = ph[1] /\ NextPhase(ph) # ph => ~IsResult(ph)
         /\ IsSharing(ph) => /\ NextPhase(ph) # ph /\ ~IsSharing(NextPhase(ph))
                             /\ ~IsResult(ph) /\ NextPhase(ph)[1] = ph[1]
                             /\ NextPhase(ph) # <<ph[1], 1>> /\ ph # <<ph[1], 1>>
<1>1. ph = <<ph[1], ph[2]>> /\ ph # Lobby /\ ph[1] \in 1 .. 3
      /\ ph[2] \in 1 .. StepCount[ph[1]] /\ StepCount[ph[1]] \in 4 .. 5
  BY StepTypes
<1>2. CASE ph[2] < StepCount[ph[1]]
  <2>1. NextPhase(ph) = <<ph[1], ph[2] + 1>>
    BY <1>1, <1>2 DEF NextPhase
  <2>2. NextPhase(ph) \in Steps
    BY <1>1, <1>2, <2>1, StepTypes
  <2>3. NextPhase(ph)[1] = ph[1] /\ NextPhase(ph)[2] = ph[2] + 1
    BY <2>1
  <2>4. ~IsResult(ph)
    BY <1>1, <1>2 DEF IsResult
  <2>5. IsSharing(ph) => /\ NextPhase(ph) # ph /\ ~IsSharing(NextPhase(ph))
                         /\ NextPhase(ph) # <<ph[1], 1>> /\ ph # <<ph[1], 1>>
    BY <1>1, <2>1, <2>3 DEF IsSharing
  <2>6. QED BY <2>2, <2>3, <2>4, <2>5
<1>3. CASE ph[2] = StepCount[ph[1]] /\ ph[1] < 3
  <2>1. NextPhase(ph) = <<ph[1] + 1, 1>>
    BY <1>1, <1>3 DEF NextPhase
  <2>2. NextPhase(ph) \in Steps
    BY <1>1, <1>3, <2>1, StepTypes
  <2>3. NextPhase(ph)[1] = ph[1] + 1 /\ NextPhase(ph)[2] = 1 /\ ph[1] + 1 # ph[1]
    BY <1>1, <2>1
  <2>4. IsResult(ph) /\ ~IsSharing(ph)
    BY <1>1, <1>3 DEF IsResult, IsSharing
  <2>5. ~IsResult(NextPhase(ph))
    BY <1>1, <1>3, <2>2, <2>3, StepTypes DEF IsResult
  <2>6. QED BY <2>2, <2>3, <2>4, <2>5
<1>4. CASE ph[2] = StepCount[ph[1]] /\ ~(ph[1] < 3)
  <2>1. NextPhase(ph) = ph
    BY <1>1, <1>4 DEF NextPhase
  <2>2. ~IsSharing(ph)
    BY <1>1, <1>4 DEF IsSharing
  <2>3. QED BY <2>1, <2>2
<1>5. QED BY <1>1, <1>2, <1>3, <1>4

\* A sharing step is only reached from the first step of its phase.
LEMMA BeforeSharing ==
  ASSUME NEW ph \in Steps, NEW q \in Steps, IsSharing(ph), NextPhase(q) = ph
  PROVE  q # ph /\ q # NextPhase(ph) /\ ~IsSharing(q)
<1>1. /\ q = <<q[1], q[2]>> /\ q # Lobby /\ q[1] \in 1 .. 3
      /\ q[2] \in 1 .. StepCount[q[1]] /\ StepCount[q[1]] \in 4 .. 5
  BY StepTypes
<1>2. ph[2] = 2
  BY DEF IsSharing
<1>3. q[2] = 1
  <2>1. CASE q[2] < StepCount[q[1]]
    BY <1>1, <1>2, <2>1 DEF NextPhase
  <2>2. CASE ~(q[2] < StepCount[q[1]])
    BY <1>1, <1>2, <2>2 DEF NextPhase
  <2>3. QED BY <2>1, <2>2
<1>4. ph = <<q[1], 2>>
  BY <1>1, <1>3 DEF NextPhase
<1>5. NextPhase(ph) = <<q[1], 3>>
  BY <1>1, <1>4, StepTypes DEF NextPhase, Lobby
<1>6. QED BY <1>1, <1>2, <1>3, <1>5 DEF IsSharing

-----------------------------------------------------------------------------
(***************************************************************************)
(* The invariant.  The promises about decisions, turns and gates rest on   *)
(* each other: a checkpoint has to be as sound as the room it is put back  *)
(* into, its clock stopped or over, and the steps checkpoints were taken   *)
(* at follow each other up to the present one.                             *)
(***************************************************************************)
MatchesPhase(ph, board) ==
  /\ board.decided \ {ph[1]} = 1 .. (ph[1] - 1)
  /\ ph[1] \in board.decided => IsResult(ph)

Turns(ph, s, t) ==
  /\ s.status = "none" => s.order = <<>>
  /\ IsSharing(ph) <=> s.status \in {"ready", "active", "complete"}
  /\ s.status # "active" => s.startsIn = NoTime
  /\ s.startsIn # NoTime => t.status = "idle"
  /\ s.status = "active" => s.heard < Len(s.order)
  /\ s.status = "complete" => s.heard >= Len(s.order)

LiveTimer(t) == t.status # "paused" /\ (t.status # "idle" => t.full > 0)

KeptTimer(t) ==
  /\ t.status # "running" /\ (t.status # "idle" => t.full > 0)
  /\ t.status = "paused" => t.left > 0

CheckpointSound(cp) ==
  /\ MatchesPhase(cp.phase, cp.board) /\ Turns(cp.phase, cp.sharing, cp.timer)
  /\ KeptTimer(cp.timer) /\ cp.sharing.startsIn = NoTime

Chain(ph, cps) ==
  /\ \A i \in 1 .. Len(cps) - 1 : NextPhase(cps[i].phase) = cps[i + 1].phase
  /\ cps # <<>> => NextPhase(cps[Len(cps)].phase) = ph

Sound(r) ==
  /\ MatchesPhase(r.phase, r.board) /\ Turns(r.phase, r.sharing, r.timer)
  /\ LiveTimer(r.timer)
  /\ r.sharing.status # "none" => r.members \subseteq Range(r.sharing.order)
  /\ Chain(r.phase, r.checkpoints)
  /\ \A i \in 1 .. Len(r.checkpoints) : CheckpointSound(r.checkpoints[i])

Covers(r) == \A d \in Deadlines(r) : r.alarm # NoTime /\ r.alarm <= d

Good(r) == r \in Room /\ (~r.closed => Sound(r)) /\ Covers(r)

\* Good, but for an alarm that is still to be set.
Fit(r) == r \in Room /\ (~r.closed => Sound(r))

\* Everybody there was heard before the step the newest checkpoint is of was left.
Heard(r) ==
  LET s == Last(r.checkpoints).sharing
  IN r.members \subseteq {s.order[i] : i \in 1 .. s.heard}

-----------------------------------------------------------------------------
\* Types of what rooms are made of, and the alarm.

LEMMA Times ==
  /\ TurnTime \in Nat /\ ExtraTime \in Nat /\ LeadTime \in Nat /\ IdleTime \in Nat
  /\ TurnTime > 0 /\ ExtraTime > 0 /\ LeadTime > 0 /\ IdleTime > 0
  /\ NoTime \notin Nat /\ NoTime \in Time
  /\ TurnTime \in Time /\ LeadTime \in Time /\ IdleTime \in Time /\ 0 \in Time
BY TimesAssumption DEF Time

LEMMA SimpleTypes ==
  /\ NoTimer \in Timer /\ NoSharing \in Sharing
  /\ \A t \in Timer : /\ [t EXCEPT !.status = "ended"] \in Timer
                      /\ [t EXCEPT !.status = "paused"] \in Timer
  /\ \A n \in Nat, b \in BOOLEAN, x \in {"idle", "running", "paused", "ended"},
        l \in Nat : [status |-> x, left |-> l, full |-> n, ext |-> b] \in Timer
  /\ \A o \in Orders, n \in Nat, t \in Time,
        x \in {"none", "inactive", "ready", "active", "complete"} :
       [status |-> x, order |-> o, heard |-> n, startsIn |-> t] \in Sharing
<1>1. NoTimer \in Timer
  BY DEF NoTimer, Timer
<1>2. NoSharing \in Sharing
  BY EmptyOrder, Times DEF NoSharing, Sharing
<1>3. \A t \in Timer : /\ [t EXCEPT !.status = "ended"] \in Timer
                       /\ [t EXCEPT !.status = "paused"] \in Timer
  BY DEF Timer
<1>4. \A n \in Nat, b \in BOOLEAN, x \in {"idle", "running", "paused", "ended"},
         l \in Nat : [status |-> x, left |-> l, full |-> n, ext |-> b] \in Timer
  BY DEF Timer
<1>5. \A o \in Orders, n \in Nat, t \in Time,
         x \in {"none", "inactive", "ready", "active", "complete"} :
        [status |-> x, order |-> o, heard |-> n, startsIn |-> t] \in Sharing
  BY DEF Sharing
<1>6. QED BY <1>1, <1>2, <1>3, <1>4, <1>5

LEMMA DeadlinesAreTimes ==
  ASSUME NEW r \in Room
  PROVE  Deadlines(r) \subseteq Nat
<1>1. r.idle \in Time /\ r.sharing.startsIn \in Time /\ r.timer.left \in Nat
  BY DEF Room, Sharing, Timer
<1>2. QED BY <1>1 DEF Deadlines, Time

LEMMA LeastDeadline ==
  ASSUME NEW S \in SUBSET Nat, S # {}
  PROVE  Min(S) \in S /\ \A d \in S : Min(S) <= d
<1>1. \E m \in S : \A j \in S : m <= j
  <2>1. PICK m \in S : \A j \in S : ~(<<j, m>> \in OpToRel(<, Nat))
    BY NatLessThanWellFounded, WFMin
  <2>2. \A j \in S : ~(j < m)
    BY <2>1 DEF OpToRel
  <2>3. QED BY <2>2
<1>2. QED BY <1>1 DEF Min

\* The alarm follows every deadline, and nothing but the alarm changes.
LEMMA SyncAlarmEffect ==
  ASSUME NEW r \in Room
  PROVE  /\ \E a \in Time : SyncAlarm(r) = [r EXCEPT !.alarm = a]
         /\ SyncAlarm(r) \in Room /\ Covers(SyncAlarm(r))
<1> DEFINE a == IF Deadlines(r) = {} THEN NoTime ELSE Min(Deadlines(r))
           q == [r EXCEPT !.alarm = a]
<1>1. Deadlines(r) \subseteq Nat
  BY DeadlinesAreTimes
<1>2. a \in Time /\ \A d \in Deadlines(r) : a # NoTime /\ a <= d
  BY <1>1, LeastDeadline, Times DEF Time
<1>3. SyncAlarm(r) = q
  BY DEF SyncAlarm
<1> HIDE DEF a
<1>4. q \in Room /\ q.alarm = a /\ Deadlines(q) = Deadlines(r)
  BY <1>2 DEF Room, Deadlines
<1>5. Covers(q)
  BY <1>2, <1>4 DEF Covers
<1>6. QED BY <1>2, <1>3, <1>4, <1>5

LEMMA AlarmApart ==
  ASSUME NEW r \in Room, NEW a \in Time, NEW q, q = [r EXCEPT !.alarm = a]
  PROVE  /\ q \in Room
         /\ q.members = r.members /\ q.connected = r.connected /\ q.phase = r.phase
         /\ q.ready = r.ready /\ q.board = r.board /\ q.timer = r.timer
         /\ q.sharing = r.sharing /\ q.checkpoints = r.checkpoints
         /\ q.idle = r.idle /\ q.closed = r.closed
BY DEF Room

\* What SyncAlarm leaves alone decides whether a room is sound.
Alike(q, r) ==
  /\ q.members = r.members /\ q.connected = r.connected /\ q.phase = r.phase
  /\ q.ready = r.ready /\ q.board = r.board /\ q.timer = r.timer
  /\ q.sharing = r.sharing /\ q.checkpoints = r.checkpoints /\ q.closed = r.closed

LEMMA AlikeIsSound ==
  ASSUME NEW q, NEW r, Alike(q, r)
  PROVE  /\ Sound(q) <=> Sound(r)
         /\ GateIsOpen(q) <=> GateIsOpen(r)
         /\ MayMoveOn(q) <=> MayMoveOn(r)
         /\ Heard(q) <=> Heard(r)
<1>1. Sound(q) <=> Sound(r)
  BY DEF Alike, Sound
<1>2. MayMoveOn(q) <=> MayMoveOn(r)
  BY DEF Alike, MayMoveOn, VotesAreIn, AllReady
<1>3. GateIsOpen(q) <=> GateIsOpen(r)
  BY <1>2 DEF Alike, GateIsOpen
<1>4. Heard(q) <=> Heard(r)
  BY DEF Alike, Heard
<1>5. QED BY <1>1, <1>2, <1>3, <1>4

LEMMA Synced ==
  ASSUME NEW r \in Room
  PROVE  /\ SyncAlarm(r) \in Room /\ Alike(SyncAlarm(r), r)
         /\ (~r.closed => Sound(r)) => Good(SyncAlarm(r))
<1>1. PICK a \in Time : SyncAlarm(r) = [r EXCEPT !.alarm = a]
  BY SyncAlarmEffect
<1>2. Alike(SyncAlarm(r), r)
  BY <1>1, AlarmApart DEF Alike
<1>3. SyncAlarm(r) \in Room /\ Covers(SyncAlarm(r))
  BY SyncAlarmEffect
<1>4. (Sound(SyncAlarm(r)) <=> Sound(r)) /\ SyncAlarm(r).closed = r.closed
  BY <1>2, AlikeIsSound DEF Alike
<1>5. QED BY <1>2, <1>3, <1>4 DEF Good

-----------------------------------------------------------------------------
\* The end of a turn, and the next one.

LEMMA CommitTurnEffect ==
  ASSUME NEW r \in Room, NEW heard \in Nat
  PROVE  LET q == CommitTurn(r, heard)
             over == heard >= Len(r.sharing.order)
         IN /\ q \in Room /\ Covers(q)
            /\ q.members = r.members /\ q.connected = r.connected /\ q.phase = r.phase
            /\ q.ready = r.ready /\ q.board = r.board /\ q.checkpoints = r.checkpoints
            /\ q.closed = r.closed
            /\ q.sharing = [r.sharing EXCEPT !.heard = heard,
                              !.status = IF over THEN "complete" ELSE "active",
                              !.startsIn = IF over THEN NoTime ELSE LeadTime]
            /\ q.timer = IF ~over THEN NoTimer
                         ELSE [status |-> "ended", left |-> 0, ext |-> r.timer.ext,
                               full |-> IF r.timer.status = "idle" THEN TurnTime
                                        ELSE r.timer.full]
<1> DEFINE over == heard >= Len(r.sharing.order)
           s == [r.sharing EXCEPT !.heard = heard,
                   !.status = IF over THEN "complete" ELSE "active",
                   !.startsIn = IF over THEN NoTime ELSE LeadTime]
           t == IF ~over THEN NoTimer
                ELSE [status |-> "ended", left |-> 0, ext |-> r.timer.ext,
                      full |-> IF r.timer.status = "idle" THEN TurnTime ELSE r.timer.full]
           p == [r EXCEPT !.sharing = s, !.timer = t]
<1>1. r.sharing \in Sharing /\ r.timer \in Timer
  BY DEF Room
<1>2. s \in Sharing
  BY <1>1, Times DEF Sharing
<1>3. t \in Timer
  <2>1. r.timer.ext \in BOOLEAN /\ r.timer.full \in Nat
    BY <1>1 DEF Timer
  <2>2. QED BY <2>1, Times, SimpleTypes DEF Timer
<1>4. CommitTurn(r, heard) = SyncAlarm(p)
  BY DEF CommitTurn
<1> HIDE DEF s, t
<1>5. /\ p \in Room /\ p.members = r.members /\ p.connected = r.connected
      /\ p.phase = r.phase /\ p.ready = r.ready /\ p.board = r.board
      /\ p.checkpoints = r.checkpoints /\ p.closed = r.closed
      /\ p.sharing = s /\ p.timer = t
  BY <1>2, <1>3 DEF Room
<1> HIDE DEF p
<1>6. SyncAlarm(p) \in Room /\ Covers(SyncAlarm(p)) /\ Alike(SyncAlarm(p), p)
  BY <1>5, SyncAlarmEffect, Synced
<1>7. QED BY <1>4, <1>5, <1>6 DEF Alike, s, t

\* Turns are in order again, whichever turn ended or began.
LEMMA CommitTurnSound ==
  ASSUME NEW r \in Room, Sound(r), IsSharing(r.phase), NEW heard \in Nat
  PROVE  Sound(CommitTurn(r, heard)) /\ Good(CommitTurn(r, heard))
<1> DEFINE q == CommitTurn(r, heard)
           over == heard >= Len(r.sharing.order)
<1>1. /\ q \in Room /\ Covers(q)
      /\ q.members = r.members /\ q.phase = r.phase /\ q.board = r.board
      /\ q.checkpoints = r.checkpoints
      /\ q.sharing = [r.sharing EXCEPT !.heard = heard,
                        !.status = IF over THEN "complete" ELSE "active",
                        !.startsIn = IF over THEN NoTime ELSE LeadTime]
      /\ q.timer = IF ~over THEN NoTimer
                   ELSE [status |-> "ended", left |-> 0, ext |-> r.timer.ext,
                         full |-> IF r.timer.status = "idle" THEN TurnTime
                                  ELSE r.timer.full]
  BY CommitTurnEffect
<1>2. r.sharing \in Sharing /\ r.timer \in Timer
  BY DEF Room
<1>3. /\ q.sharing.order = r.sharing.order /\ q.sharing.heard = heard
      /\ q.sharing.status = IF over THEN "complete" ELSE "active"
      /\ q.sharing.startsIn = IF over THEN NoTime ELSE LeadTime
  BY <1>1, <1>2 DEF Sharing
<1>4. LiveTimer(q.timer)
  BY <1>1, Times DEF LiveTimer, NoTimer, Sound
<1>5. Len(r.sharing.order) \in Nat
  <2>1. r.sharing.order \in Seq(People)
    BY <1>2, OrdersAreSequences DEF Sharing
  <2>2. QED BY <2>1
<1> HIDE DEF q
<1>6. Turns(q.phase, q.sharing, q.timer)
  <2>1. CASE over
    BY <1>1, <1>3, <2>1 DEF Turns
  <2>2. CASE ~over
    BY <1>1, <1>3, <1>5, <2>2 DEF Turns, NoTimer
  <2>3. QED BY <2>1, <2>2
<1>7. q.members \subseteq Range(q.sharing.order)
  <2>1. r.sharing.status # "none"
    BY DEF Sound, Turns
  <2>2. QED BY <1>1, <1>3, <2>1 DEF Sound
<1>8. Sound(q)
  BY <1>1, <1>4, <1>6, <1>7 DEF Sound
<1>9. QED BY <1>1, <1>8 DEF Good, q

-----------------------------------------------------------------------------
\* The next step.

Lucky(lot, r) == lot \in Lots \/ r.sharing.order # <<>>

LEMMA ResetSharingEffect ==
  ASSUME NEW r \in Room, NEW next, NEW lot, Lucky(lot, r),
         r.sharing.status = "none" => r.sharing.order = <<>>,
         r.sharing.status # "none" => r.members \subseteq Range(r.sharing.order),
         r.sharing.status # "active" => r.sharing.startsIn = NoTime
  PROVE  LET s == ResetSharing(r, next, lot)
         IN /\ s \in Sharing
            /\ \A t : Turns(next, s, t)
            /\ s.status # "none" => r.members \subseteq Range(s.order)
            /\ s.status \notin {"active", "complete"}
<1> DEFINE old == r.sharing
           s == ResetSharing(r, next, lot)
<1>1. old \in Sharing /\ r.members \in SUBSET People
  BY DEF Room
<1>2. CASE ~IsSharing(next) /\ old.status = "none"
  <2>1. s = old
    BY <1>2 DEF ResetSharing
  <2>2. QED BY <1>1, <1>2, <2>1 DEF Turns
<1>3. CASE ~(~IsSharing(next) /\ old.status = "none")
  <2> DEFINE o == IF IsSharing(next) /\ old.order = <<>>
                  THEN Drawn(lot, r.members) ELSE old.order
  <2>1. s = [status |-> IF IsSharing(next) THEN "ready" ELSE "inactive",
             order |-> o, heard |-> 0, startsIn |-> NoTime]
    BY <1>3 DEF ResetSharing
  <2>2. o \in Orders /\ r.members \subseteq Range(o)
    <3>1. CASE IsSharing(next) /\ old.order = <<>>
      BY <1>1, <3>1, DrawnIsOrder DEF Lucky
    <3>2. CASE ~(IsSharing(next) /\ old.order = <<>>)
      <4>1. old.status # "none"
        BY <1>3, <3>2
      <4>2. QED BY <1>1, <3>2, <4>1 DEF Sharing
    <3>3. QED BY <3>1, <3>2
  <2> HIDE DEF o
  <2>3. s \in Sharing
    BY <2>1, <2>2, Times DEF Sharing
  <2>4. /\ s.status = IF IsSharing(next) THEN "ready" ELSE "inactive"
        /\ s.order = o /\ s.startsIn = NoTime
    BY <2>1
  <2>5. QED BY <2>2, <2>3, <2>4 DEF Turns
<1>4. QED BY <1>2, <1>3

\* Checkpoints come and go at the end, and the oldest is forgotten.
AllSound(cps) == \A i \in 1 .. Len(cps) : CheckpointSound(cps[i])

LEMMA CheckpointAdded ==
  ASSUME NEW cps \in Seq(Checkpoint), NEW cp \in Checkpoint,
         Chain(cp.phase, cps), AllSound(cps), CheckpointSound(cp)
  PROVE  LET new == Newest(Append(cps, cp))
         IN /\ new \in Seq(Checkpoint) /\ Last(new) = cp
            /\ Chain(NextPhase(cp.phase), new) /\ AllSound(new)
<1> DEFINE all == Append(cps, cp)
           n == Len(cps) + 1
<1>1. /\ all \in Seq(Checkpoint) /\ Len(all) = n /\ n \in Nat /\ n > 0
      /\ \A i \in 1 .. Len(cps) : all[i] = cps[i]
      /\ all[n] = cp /\ all # <<>> /\ Len(cps) \in Nat
  BY AppendProperties
<1> HIDE DEF all
<1>2. Chain(NextPhase(cp.phase), all)
  <2>1. ASSUME NEW i \in 1 .. n - 1
        PROVE  NextPhase(all[i].phase) = all[i + 1].phase
    <3>1. i \in 1 .. Len(cps) /\ all[i] = cps[i]
      BY <1>1
    <3>2. CASE i = Len(cps)
      BY <1>1, <3>1, <3>2 DEF Chain
    <3>3. CASE i # Len(cps)
      <4>1. i \in 1 .. Len(cps) - 1 /\ i + 1 \in 1 .. Len(cps)
        BY <1>1, <3>1, <3>3
      <4>2. QED BY <1>1, <3>1, <4>1 DEF Chain
    <3>4. QED BY <3>2, <3>3
  <2>2. QED BY <1>1, <2>1 DEF Chain
<1>3. AllSound(all)
  <2>1. \A i \in 1 .. n : i = n \/ i \in 1 .. Len(cps)
    BY <1>1
  <2>2. QED BY <1>1, <2>1 DEF AllSound
<1>4. CASE n > MaxDepth
  <2> DEFINE new == Tail(all)
  <2>1. Newest(all) = new /\ n > 1
    BY <1>1, <1>4, DepthAssumption DEF Newest
  <2>2. /\ new \in Seq(Checkpoint) /\ Len(new) = n - 1
        /\ \A i \in 1 .. Len(new) : new[i] = all[i + 1]
    BY <1>1, HeadTailProperties
  <2> HIDE DEF new
  <2>3. Last(new) = cp /\ new[Len(new)] = cp
    BY <1>1, <2>1, <2>2 DEF Last
  <2>4. Chain(NextPhase(cp.phase), new)
    <3>1. ASSUME NEW i \in 1 .. Len(new) - 1
          PROVE  NextPhase(new[i].phase) = new[i + 1].phase
      <4>1. i \in 1 .. Len(new) /\ i + 1 \in 1 .. Len(new) /\ i + 1 \in 1 .. n - 1
        BY <1>1, <2>2
      <4>2. new[i] = all[i + 1] /\ new[i + 1] = all[i + 1 + 1]
        BY <2>2, <4>1
      <4>3. NextPhase(all[i + 1].phase) = all[i + 1 + 1].phase
        BY <1>1, <1>2, <4>1 DEF Chain
      <4>4. QED BY <4>2, <4>3
    <3>2. QED BY <2>3, <3>1 DEF Chain
  <2>5. AllSound(new)
    <3>1. \A i \in 1 .. Len(new) : i + 1 \in 1 .. n
      BY <1>1, <2>2
    <3>2. QED BY <1>1, <1>3, <2>2, <3>1 DEF AllSound
  <2>6. QED BY <2>1, <2>2, <2>3, <2>4, <2>5 DEF all
<1>5. CASE ~(n > MaxDepth)
  <2>1. Newest(all) = all
    BY <1>1, <1>5 DEF Newest
  <2>2. QED BY <1>1, <1>2, <1>3, <2>1 DEF all, Last
<1>6. QED BY <1>4, <1>5

LEMMA CheckpointTaken ==
  ASSUME NEW cps \in Seq(Checkpoint), cps # <<>>, NEW ph,
         Chain(ph, cps), AllSound(cps)
  PROVE  /\ Front(cps) \in Seq(Checkpoint) /\ Last(cps) \in Checkpoint
         /\ Chain(Last(cps).phase, Front(cps)) /\ AllSound(Front(cps))
         /\ CheckpointSound(Last(cps)) /\ NextPhase(Last(cps).phase) = ph
<1> DEFINE n == Len(cps)
           rest == Front(cps)
<1>1. n \in Nat /\ n > 0 /\ \A i \in 1 .. n : cps[i] \in Checkpoint
  BY EmptySeq, LenProperties, ElementOfSeq
<1>2. /\ rest \in Seq(Checkpoint) /\ Len(rest) = n - 1
      /\ \A i \in 1 .. n - 1 : rest[i] = cps[i]
  <2>1. \A i \in 1 .. n - 1 : cps[i] \in Checkpoint
    BY <1>1
  <2>2. /\ SubSeq(cps, 1, n - 1) \in Seq(Checkpoint)
        /\ Len(SubSeq(cps, 1, n - 1)) = IF 1 <= n - 1 THEN n - 1 - 1 + 1 ELSE 0
        /\ \A i \in 1 .. n - 1 - 1 + 1 : SubSeq(cps, 1, n - 1)[i] = cps[1 + i - 1]
    BY <1>1, <2>1, SubSeqProperties
  <2>3. n - 1 - 1 + 1 = n - 1 /\ \A i \in 1 .. n - 1 : 1 + i - 1 = i
    BY <1>1
  <2>4. rest = SubSeq(cps, 1, n - 1)
    BY DEF Front
  <2>5. Len(rest) = n - 1
    <3> HIDE DEF n
    <3>1. (IF 1 <= n - 1 THEN n - 1 - 1 + 1 ELSE 0) = n - 1
      BY <1>1
    <3>2. QED BY <2>2, <2>4, <3>1
  <2>6. \A i \in 1 .. n - 1 : rest[i] = cps[i]
    BY <2>2, <2>3, <2>4
  <2>7. QED BY <2>2, <2>4, <2>5, <2>6
<1> HIDE DEF rest
<1>3. Last(cps) = cps[n] /\ Last(cps) \in Checkpoint /\ CheckpointSound(Last(cps))
      /\ NextPhase(Last(cps).phase) = ph
  BY <1>1 DEF Last, AllSound, Chain
<1>4. Chain(Last(cps).phase, rest)
  <2>1. ASSUME NEW i \in 1 .. Len(rest) - 1
        PROVE  NextPhase(rest[i].phase) = rest[i + 1].phase
    <3>1. i \in 1 .. n - 1 /\ i + 1 \in 1 .. n - 1
      BY <1>1, <1>2
    <3>2. QED BY <1>2, <3>1 DEF Chain
  <2>2. ASSUME rest # <<>>
        PROVE  NextPhase(rest[Len(rest)].phase) = Last(cps).phase
    <3>1. Len(rest) # 0
      BY <1>2, <2>2
    <3>2. n - 1 \in 1 .. n - 1 /\ rest[n - 1] = cps[n - 1]
      BY <1>1, <1>2, <3>1
    <3>3. NextPhase(cps[n - 1].phase) = cps[n - 1 + 1].phase
      BY <3>2 DEF Chain
    <3>4. QED BY <1>1, <1>2, <1>3, <3>2, <3>3
  <2>3. QED BY <2>1, <2>2 DEF Chain
<1>5. AllSound(rest)
  <2>1. \A i \in 1 .. Len(rest) : i \in 1 .. n /\ rest[i] = cps[i]
    BY <1>1, <1>2
  <2>2. QED BY <2>1 DEF AllSound
<1>6. QED BY <1>2, <1>3, <1>4, <1>5 DEF rest

\* A checkpoint keeps the room as it is, but for its clock.
LEMMA CaptureEffect ==
  ASSUME NEW r \in Room, Sound(r), r.phase # Lobby
  PROVE  /\ Capture(r) \in Checkpoint /\ CheckpointSound(Capture(r))
         /\ Capture(r).phase = r.phase /\ Capture(r).board = r.board
         /\ Capture(r).sharing.order = r.sharing.order
         /\ Capture(r).sharing.heard = r.sharing.heard
         /\ Capture(r).sharing.status = r.sharing.status
<1> DEFINE cp == Capture(r)
           t == IF TimerEnded(r.timer) THEN [r.timer EXCEPT !.status = "ended"]
                ELSE IF r.timer.status = "running"
                THEN [r.timer EXCEPT !.status = "paused"] ELSE r.timer
           s == [r.sharing EXCEPT !.startsIn = NoTime]
<1>1. r.timer \in Timer /\ r.sharing \in Sharing /\ r.board \in Board /\ r.phase \in Steps
  BY DEF Room
<1>2. t \in Timer /\ KeptTimer(t) /\ (r.timer.status = "idle" => t.status = "idle")
  <2>1. LiveTimer(r.timer)
    BY DEF Sound
  <2>2. CASE TimerEnded(r.timer)
    BY <1>1, <2>1, <2>2 DEF Timer, KeptTimer, LiveTimer, TimerEnded
  <2>3. CASE ~TimerEnded(r.timer)
    BY <1>1, <2>1, <2>3 DEF Timer, KeptTimer, LiveTimer, TimerEnded
  <2>4. QED BY <2>2, <2>3
<1>3. /\ s \in Sharing /\ s.startsIn = NoTime /\ s.order = r.sharing.order
      /\ s.heard = r.sharing.heard /\ s.status = r.sharing.status
  BY <1>1, Times DEF Sharing
<1>4. cp = [phase |-> r.phase, board |-> r.board, timer |-> t, sharing |-> s]
  BY DEF Capture
<1> HIDE DEF t, s
<1>5. /\ cp.phase = r.phase /\ cp.board = r.board /\ cp.timer = t /\ cp.sharing = s
      /\ cp \in Checkpoint
  BY <1>1, <1>2, <1>3, <1>4 DEF Checkpoint
<1> HIDE DEF cp
<1>6. Turns(r.phase, s, t)
  BY <1>2, <1>3 DEF Sound, Turns
<1>7. CheckpointSound(cp)
  BY <1>2, <1>3, <1>5, <1>6 DEF CheckpointSound, Sound
<1>8. QED BY <1>3, <1>5, <1>7 DEF cp

\* phase:next, whoever asks for it.
LEMMA MoveOnEffect ==
  ASSUME NEW r \in Room, Sound(r), MayMoveOn(r), NEW lot, Lucky(lot, r)
  PROVE  LET q == MoveOn(r, lot)
         IN /\ Good(q) /\ Sound(q) /\ q.timer = NoTimer
            /\ q.phase = NextPhase(r.phase) /\ q.phase # r.phase
            /\ q.closed = r.closed /\ q.sharing.status # "active"
            /\ IsSharing(r.phase) => Heard(q)
<1> DEFINE ph == r.phase
           next == NextPhase(ph)
           crossing == next[1] # ph[1]
           cps == Newest(Append(r.checkpoints, Capture(r)))
           s == ResetSharing(r, next, lot)
           b == [r.board EXCEPT !.cand = @ /\ ~crossing,
                                !.voted = IF crossing THEN {} ELSE @]
           p == [r EXCEPT !.phase = next, !.ready = {}, !.timer = NoTimer,
                          !.checkpoints = cps, !.sharing = s, !.board = b]
<1>1. /\ ~r.closed /\ ph # Lobby /\ next # ph /\ ph \in Steps
      /\ crossing => ph[1] \in r.board.decided
      /\ IsSharing(ph) => r.sharing.status \in {"none", "complete"}
  BY DEF MayMoveOn, Room
<1>2. next \in Steps
  BY <1>1, NextOfStep
<1>3. cps \in Seq(Checkpoint) /\ Last(cps) = Capture(r) /\ Chain(next, cps) /\ AllSound(cps)
  <2>1. /\ Capture(r) \in Checkpoint /\ CheckpointSound(Capture(r))
        /\ Capture(r).phase = ph
    BY <1>1, CaptureEffect
  <2>2. r.checkpoints \in Seq(Checkpoint) /\ Chain(ph, r.checkpoints)
        /\ AllSound(r.checkpoints)
    BY DEF Room, Sound, AllSound
  <2>3. QED BY <2>1, <2>2, CheckpointAdded
<1>4. /\ s \in Sharing /\ Turns(next, s, NoTimer)
      /\ s.status # "none" => r.members \subseteq Range(s.order)
      /\ s.status \notin {"active", "complete"}
  BY ResetSharingEffect DEF Sound, Turns
<1>5. b \in Board /\ b.decided = r.board.decided
  <2>1. r.board \in Board
    BY DEF Room
  <2>2. QED BY <2>1 DEF Board
<1>6. MatchesPhase(next, b)
  <2>1. /\ r.board.decided \ {ph[1]} = 1 .. (ph[1] - 1)
        /\ ph[1] \in r.board.decided => IsResult(ph)
    BY DEF Sound, MatchesPhase
  <2>2. next[1] \in {ph[1], ph[1] + 1} /\ ph[1] \in 1 .. 3
        /\ (next[1] # ph[1] => IsResult(ph) /\ ~IsResult(next))
        /\ (next[1] = ph[1] => ~IsResult(ph))
    BY <1>1, NextOfStep, StepTypes
  <2>3. CASE next[1] = ph[1]
    BY <1>5, <2>1, <2>2, <2>3 DEF MatchesPhase
  <2>4. CASE next[1] # ph[1]
    <3>1. next[1] = ph[1] + 1 /\ ph[1] \in r.board.decided
      BY <1>1, <2>2, <2>4
    <3>2. r.board.decided = 1 .. ph[1]
      <4>1. 1 .. ph[1] = (1 .. (ph[1] - 1)) \cup {ph[1]}
        BY <2>2
      <4>2. QED BY <2>1, <3>1, <4>1
    <3>3. r.board.decided \ {next[1]} = 1 .. (next[1] - 1) /\ next[1] \notin r.board.decided
      <4>1. ph[1] + 1 \notin 1 .. ph[1] /\ ph[1] + 1 - 1 = ph[1]
        BY <2>2
      <4>2. QED BY <3>1, <3>2, <4>1
    <3>4. QED BY <1>5, <3>3 DEF MatchesPhase
  <2>5. QED BY <2>3, <2>4
<1>7. MoveOn(r, lot) = SyncAlarm(p)
  BY DEF MoveOn
<1> HIDE DEF next, cps, s, b
<1>8. /\ p \in Room /\ p.phase = next /\ p.timer = NoTimer /\ p.checkpoints = cps
      /\ p.sharing = s /\ p.board = b /\ p.members = r.members /\ p.closed = r.closed
  BY <1>2, <1>3, <1>4, <1>5, SimpleTypes DEF Room
<1> HIDE DEF p
<1>9. Sound(p)
  <2>1. LiveTimer(NoTimer)
    BY DEF LiveTimer, NoTimer
  <2>2. QED BY <1>3, <1>4, <1>6, <1>8, <2>1 DEF Sound, AllSound
<1>10. IsSharing(ph) => Heard(p)
  <2> SUFFICES ASSUME IsSharing(ph)
               PROVE  r.members \subseteq {Capture(r).sharing.order[i] :
                                             i \in 1 .. Capture(r).sharing.heard}
    BY <1>3, <1>8 DEF Heard
  <2>1. r.sharing.status = "complete" /\ r.sharing.heard >= Len(r.sharing.order)
        /\ r.members \subseteq Range(r.sharing.order)
    BY <1>1 DEF Sound, Turns
  <2>2. r.sharing.order \in Seq(People) /\ r.sharing.heard \in Nat
    BY OrdersAreSequences DEF Room, Sharing
  <2>3. Range(r.sharing.order) = {r.sharing.order[i] : i \in 1 .. Len(r.sharing.order)}
    BY <2>2, RangeEquality
  <2>4. Len(r.sharing.order) \in Nat
    BY <2>2
  <2>5. 1 .. Len(r.sharing.order) \subseteq 1 .. r.sharing.heard
    BY <2>1, <2>2, <2>4
  <2>6. /\ Capture(r).sharing.order = r.sharing.order
        /\ Capture(r).sharing.heard = r.sharing.heard
    BY <1>1, CaptureEffect
  <2>7. QED BY <2>1, <2>3, <2>5, <2>6
<1>11. Good(SyncAlarm(p)) /\ Alike(SyncAlarm(p), p)
  BY <1>8, <1>9, Synced
<1>12. QED BY <1>1, <1>4, <1>7, <1>8, <1>9, <1>10, <1>11, AlikeIsSound DEF Alike, next

\* The room goes on from the step it is in, having heard everybody if it has to.
GoesOn(q, r) ==
  /\ q.phase = NextPhase(r.phase) /\ q.phase # r.phase
  /\ q.timer = NoTimer /\ q.sharing.status # "active"
  /\ IsSharing(r.phase) => Heard(q)

LEMMA CommitTurnKeeps ==
  ASSUME NEW r \in Room, NEW heard \in Nat
  PROVE  LET q == CommitTurn(r, heard)
         IN /\ q \in Room /\ q.phase = r.phase /\ q.closed = r.closed
            /\ q.sharing.order = r.sharing.order
            /\ q.sharing.status = "active" => q.timer = NoTimer
<1>1. r.sharing \in Sharing
  BY DEF Room
<1>2. LET q == CommitTurn(r, heard)
      IN /\ q \in Room /\ q.phase = r.phase /\ q.closed = r.closed
         /\ q.sharing = [r.sharing EXCEPT !.heard = heard,
              !.status = IF heard >= Len(r.sharing.order) THEN "complete" ELSE "active",
              !.startsIn = IF heard >= Len(r.sharing.order) THEN NoTime ELSE LeadTime]
         /\ ~(heard >= Len(r.sharing.order)) => q.timer = NoTimer
  BY CommitTurnEffect
<1>3. QED BY <1>1, <1>2 DEF Sharing

LEMMA EndTurnEffect ==
  ASSUME NEW r \in Room, Sound(r), IsSharing(r.phase), NEW outcome, NEW lot, Lucky(lot, r)
  PROVE  LET q == EndTurn(r, outcome, lot)
         IN /\ Good(q) /\ Sound(q) /\ q.closed = r.closed
            /\ q.sharing.status = "active" => q.timer = NoTimer
            /\ \/ q.phase = r.phase /\ q.sharing.order = r.sharing.order
               \/ GoesOn(q, r)
<1> DEFINE after == CommitTurn(r, r.sharing.heard + 1)
           q == EndTurn(r, outcome, lot)
<1>1. r.sharing.heard + 1 \in Nat
  BY DEF Room, Sharing
<1>2. /\ after \in Room /\ Good(after) /\ Sound(after) /\ after.phase = r.phase
      /\ after.closed = r.closed /\ after.sharing.order = r.sharing.order
      /\ after.sharing.status = "active" => after.timer = NoTimer
  BY <1>1, CommitTurnSound, CommitTurnKeeps
<1>3. \/ q = after
      \/ MayMoveOn(after) /\ q = MoveOn(after, lot)
  BY DEF EndTurn
<1> HIDE DEF after
<1>4. CASE q = after
  BY <1>2, <1>4
<1>5. CASE MayMoveOn(after) /\ q = MoveOn(after, lot)
  <2>1. Lucky(lot, after)
    BY <1>2 DEF Lucky
  <2>2. /\ Good(q) /\ Sound(q) /\ q.timer = NoTimer
        /\ q.phase = NextPhase(r.phase) /\ q.phase # r.phase
        /\ q.closed = r.closed /\ q.sharing.status # "active"
        /\ Heard(q)
    BY <1>2, <1>5, <2>1, MoveOnEffect
  <2>3. QED BY <2>2 DEF GoesOn
<1>6. QED BY <1>3, <1>4, <1>5

\* A clock that stands at zero, extended, in a room that is open.
OverTime(r) == ~r.closed /\ r.phase # Lobby /\ TimerEnded(r.timer) /\ r.timer.ext

\* advanceAfterExtendedTimer, after whatever a handler did.
LEMMA AdvanceEffect ==
  ASSUME NEW r, Fit(r), NEW lot, Lucky(lot, r)
  PROVE  LET q == Advance(r, lot)
         IN /\ Fit(q) /\ (Covers(r) => Good(q)) /\ q.closed = r.closed
            /\ ~GateIsOpen(q)
            /\ q.phase = r.phase \/ GoesOn(q, r)
            /\ ~TimerEnded(r.timer) => q = r
<1> DEFINE mayHand == IsSharing(r.phase) /\ r.sharing.status = "active"
                      /\ MayEndTurn(r, Presenter(r.sharing), "done")
           handed == IF mayHand THEN EndTurn(r, "done", lot) ELSE r
           q == Advance(r, lot)
<1>0. r \in Room /\ (~r.closed => Sound(r)) /\ (Covers(r) => Good(r))
  BY DEF Fit, Good
<1>1. q = IF ~OverTime(r) THEN r
          ELSE IF handed.phase = r.phase /\ OverTime(handed) /\ MayMoveOn(handed)
          THEN MoveOn(handed, lot) ELSE handed
  BY DEF Advance, OverTime
<1> HIDE DEF q
<1>2. CASE ~OverTime(r)
  <2>1. q = r
    BY <1>1, <1>2
  <2>2. ~GateIsOpen(r)
    <3> SUFFICES ASSUME GateIsOpen(r) PROVE FALSE
      OBVIOUS
    <3>1. ~r.closed /\ TimerEnded(r.timer) /\ r.timer.ext
      BY DEF GateIsOpen, TimerEnded
    <3>2. r.phase = Lobby
      BY <1>2, <3>1 DEF OverTime
    <3>3. ~MayMoveOn(r)
      BY <3>2 DEF MayMoveOn
    <3>4. r.sharing.status # "active"
      BY <1>0, <3>1, <3>2, NextOfLobby DEF Sound, Turns
    <3>5. QED BY <3>3, <3>4 DEF GateIsOpen
  <2>3. QED BY <1>0, <2>1, <2>2 DEF q
<1>3. CASE OverTime(r)
  <2>1. /\ Sound(r) /\ ~r.closed /\ r.phase # Lobby /\ TimerEnded(r.timer) /\ r.timer.ext
    BY <1>0, <1>3 DEF OverTime
  <2>2. /\ handed \in Room /\ (Covers(r) => Good(handed)) /\ Sound(handed)
        /\ handed.closed = r.closed
        /\ \/ handed.phase = r.phase /\ handed.sharing.order = r.sharing.order
           \/ GoesOn(handed, r)
        /\ mayHand => (handed.sharing.status = "active" => handed.timer = NoTimer)
    BY <1>0, <2>1, EndTurnEffect DEF Good
  <2> HIDE DEF handed
  <2>3. CASE handed.phase = r.phase /\ OverTime(handed) /\ MayMoveOn(handed)
    <3>1. q = MoveOn(handed, lot) /\ handed \in Room
      BY <1>1, <1>3, <2>2, <2>3 DEF Good
    <3>2. Lucky(lot, handed)
      BY <2>2, <2>3 DEF Lucky, GoesOn
    <3>3. /\ Good(q) /\ q.timer = NoTimer
          /\ q.phase = NextPhase(r.phase) /\ q.phase # r.phase
          /\ q.closed = r.closed /\ q.sharing.status # "active"
          /\ IsSharing(r.phase) => Heard(q)
      BY <2>2, <2>3, <3>1, <3>2, MoveOnEffect
    <3>4. GoesOn(q, r) /\ ~GateIsOpen(q)
      BY <3>3 DEF GoesOn, GateIsOpen, NoTimer
    <3>5. QED BY <2>1, <3>3, <3>4 DEF q, Good, Fit
  <2>4. CASE ~(handed.phase = r.phase /\ OverTime(handed) /\ MayMoveOn(handed))
    <3>1. q = handed
      BY <1>1, <1>3, <2>4
    <3>2. ~GateIsOpen(handed)
      <4> SUFFICES ASSUME GateIsOpen(handed) PROVE FALSE
        OBVIOUS
      <4>1. handed.timer.status = "ended" /\ handed.timer.ext
        BY DEF GateIsOpen
      <4>2. handed.phase = r.phase
        BY <2>2, <4>1 DEF GoesOn, NoTimer
      <4>3. OverTime(handed)
        BY <2>1, <2>2, <4>1, <4>2 DEF OverTime, TimerEnded
      <4>4. handed.sharing.status = "active" /\ Presenter(handed.sharing) \in handed.members
        BY <2>4, <4>2, <4>3 DEF GateIsOpen
      <4>5. ~mayHand
        BY <2>2, <4>1, <4>4 DEF NoTimer
      <4>6. handed = r
        BY <4>5 DEF handed
      <4>7. IsSharing(r.phase) /\ r.sharing.startsIn = NoTime
        BY <2>1, <4>1, <4>4, <4>6 DEF Sound, Turns
      <4>8. MayEndTurn(r, Presenter(r.sharing), "done")
        BY <2>1, <4>4, <4>6, <4>7 DEF MayEndTurn, MayControl
      <4>9. QED BY <4>4, <4>5, <4>6, <4>7, <4>8
    <3>3. QED BY <2>1, <2>2, <3>1, <3>2 DEF q, Fit
  <2>5. QED BY <2>3, <2>4
<1>4. QED BY <1>2, <1>3

-----------------------------------------------------------------------------
(***************************************************************************)
(* One step of the room, from r to q: a sharing step is left forwards only *)
(* when everybody was heard, and an announced turn is given.               *)
(***************************************************************************)
Onward(q, r) ==
  IsSharing(r.phase) /\ q.phase = NextPhase(r.phase) => Heard(q)

Given(q, r) ==
  r.sharing.startsIn # NoTime /\ ~q.closed =>
    IF q.phase = r.phase
    THEN q.sharing.status = "active" /\ q.sharing.heard = r.sharing.heard
    ELSE q.phase # NextPhase(r.phase)

Taken(q, r) == Onward(q, r) /\ Given(q, r)

LEMMA AlikeIsTaken ==
  ASSUME NEW q, NEW p, Alike(q, p), NEW r, Taken(p, r)
  PROVE  Taken(q, r)
<1>1. Heard(q) <=> Heard(p)
  BY AlikeIsSound
<1>2. QED BY <1>1 DEF Taken, Onward, Given, Alike

\* A room stays in a sharing step as long as its phase does not change.
LEMMA StayingIsOnward ==
  ASSUME NEW r \in Room, NEW q, q.phase = r.phase
  PROVE  Onward(q, r)
<1>1. ASSUME IsSharing(r.phase) PROVE NextPhase(r.phase) # r.phase
  <2>1. r.phase \in Steps
    BY <1>1, NextOfLobby DEF Room
  <2>2. QED BY <1>1, <2>1, NextOfStep
<1>2. QED BY <1>1 DEF Onward

\* A turn that is announced has no clock, and is an active one.
LEMMA Announced ==
  ASSUME NEW r, Fit(r), ~r.closed, r.sharing.startsIn # NoTime
  PROVE  /\ r.timer.status = "idle" /\ ~TimerEnded(r.timer)
         /\ r.sharing.status = "active" /\ IsSharing(r.phase)
         /\ r.phase \in Steps
<1>1. Turns(r.phase, r.sharing, r.timer) /\ r.phase \in Steps \cup {Lobby}
  BY DEF Fit, Sound, Room
<1>2. r.timer.status = "idle" /\ r.sharing.status = "active" /\ IsSharing(r.phase)
  BY <1>1 DEF Turns
<1>3. QED BY <1>1, <1>2, NextOfLobby DEF TimerEnded

\* What a handler leaves in the step it found goes on from there.
LEMMA AdvancedInStep ==
  ASSUME NEW r \in Room, r.sharing.startsIn = NoTime,
         NEW h, Fit(h), h.phase = r.phase, NEW lot, Lucky(lot, h)
  PROVE  Taken(Advance(h, lot), r)
<1> DEFINE q == Advance(h, lot)
<1>1. q.phase = h.phase \/ GoesOn(q, h)
  BY AdvanceEffect
<1> HIDE DEF q
<1>2. Onward(q, r)
  <2>1. CASE q.phase = h.phase
    BY <2>1, StayingIsOnward
  <2>2. CASE GoesOn(q, h)
    BY <2>2 DEF GoesOn, Onward
  <2>3. QED BY <1>1, <2>1, <2>2
<1>3. Given(q, r)
  BY DEF Given
<1>4. QED BY <1>2, <1>3 DEF Taken, q

\* Without a clock that is over there is nothing to go on with.
LEMMA AdvancedIdly ==
  ASSUME NEW h, ~TimerEnded(h.timer), NEW lot
  PROVE  Advance(h, lot) = h /\ ~GateIsOpen(h)
<1>1. Advance(h, lot) = h
  BY DEF Advance
<1>2. ~GateIsOpen(h)
  BY DEF GateIsOpen, TimerEnded
<1>3. QED BY <1>1, <1>2

\* A handler that keeps the step, with a turn announced or without.
LEMMA AdvancedQuietly ==
  ASSUME NEW r, Fit(r), ~r.closed, NEW h, Fit(h), h.phase = r.phase,
         h.sharing = r.sharing, h.timer = r.timer, NEW lot, Lucky(lot, h)
  PROVE  Taken(Advance(h, lot), r)
<1>0. r \in Room
  BY DEF Fit
<1>1. CASE r.sharing.startsIn = NoTime
  BY <1>0, <1>1, AdvancedInStep
<1>2. CASE r.sharing.startsIn # NoTime
  <2>1. Advance(h, lot) = h /\ r.sharing.status = "active"
    BY <1>2, Announced, AdvancedIdly
  <2>2. Onward(h, r) /\ Given(h, r)
    BY <1>0, <2>1, StayingIsOnward DEF Given
  <2>3. QED BY <2>1, <2>2 DEF Taken
<1>3. QED BY <1>1, <1>2

LEMMA DrawsAreLucky ==
  ASSUME NEW lot \in Draws, NEW h, h.sharing.order = room.sharing.order
  PROVE  Lucky(lot, h)
BY DEF Draws, Lucky

\* Fewer deadlines under the same alarm.
LEMMA StillCovered ==
  ASSUME NEW r, NEW h, Covers(r), Deadlines(h) \subseteq Deadlines(r),
         h.alarm = r.alarm
  PROVE  Covers(h)
BY DEF Covers

-----------------------------------------------------------------------------
\* What a message that is accepted does.
Handled == Good(room') /\ Taken(room', room) /\ ~GateIsOpen(room')

LEMMA AcceptedInStep ==
  ASSUME Good(room), room.sharing.startsIn = NoTime,
         NEW h, Good(h), h.phase = room.phase,
         h.sharing.order = room.sharing.order,
         NEW lot \in Draws, NEW u, Accept(u, h, lot)
  PROVE  Handled
<1>1. room \in Room /\ Fit(h) /\ Covers(h) /\ Lucky(lot, h)
  BY DrawsAreLucky DEF Good, Fit
<1>2. room' = Advance(h, lot)
  BY DEF Accept
<1>3. Taken(Advance(h, lot), room)
  BY <1>1, AdvancedInStep
<1>4. Good(Advance(h, lot)) /\ ~GateIsOpen(Advance(h, lot))
  BY <1>1, AdvanceEffect
<1>5. QED BY <1>2, <1>3, <1>4 DEF Handled

LEMMA AcceptedIdly ==
  ASSUME NEW h, Good(h), ~TimerEnded(h.timer), Taken(h, room),
         NEW lot, NEW u, Accept(u, h, lot)
  PROVE  Handled
<1>1. room' = h /\ ~GateIsOpen(h)
  BY AdvancedIdly DEF Accept
<1>2. QED BY <1>1 DEF Handled

\* Work on the board, and marks of readiness: the clock and the turns stay.
LEMMA BoardWork ==
  ASSUME NEW r, Good(r), ~r.closed, NEW h \in Room,
         h.members = r.members, h.timer = r.timer, h.sharing = r.sharing,
         h.phase = r.phase, h.checkpoints = r.checkpoints, h.idle = r.idle,
         h.alarm = r.alarm, h.closed = r.closed, MatchesPhase(r.phase, h.board)
  PROVE  Good(h)
<1>1. Sound(h)
  BY DEF Good, Sound
<1>2. Deadlines(h) = Deadlines(r)
  BY DEF Deadlines
<1>3. Covers(h)
  BY <1>2, StillCovered DEF Good
<1>4. QED BY <1>1, <1>3 DEF Good

LEMMA StartPhaseStep ==
  ASSUME Good(room), NEW u, StartPhase(u)
  PROVE  Handled
<1>1. PICK lot \in Draws :
        Accept(u, [room EXCEPT !.phase = <<1, 1>>, !.ready = {}], lot)
  BY DEF StartPhase
<1> DEFINE h == [room EXCEPT !.phase = <<1, 1>>, !.ready = {}]
<1>2. room \in Room /\ room.phase = Lobby /\ ~room.closed /\ Sound(room) /\ Covers(room)
  BY <1>1 DEF StartPhase, Accept, Good
<1>3. /\ h \in Room /\ h.phase = <<1, 1>> /\ h.sharing = room.sharing
      /\ h.timer = room.timer /\ h.members = room.members /\ h.board = room.board
      /\ h.checkpoints = room.checkpoints /\ h.idle = room.idle
      /\ h.alarm = room.alarm /\ h.closed = room.closed
  BY <1>2, NextOfLobby DEF Room
<1> HIDE DEF h
<1>4. room.checkpoints = <<>>
  <2> SUFFICES ASSUME room.checkpoints # <<>> PROVE FALSE
    OBVIOUS
  <2>1. /\ room.checkpoints \in Seq(Checkpoint)
        /\ Chain(Lobby, room.checkpoints) /\ AllSound(room.checkpoints)
    BY <1>2 DEF Room, Sound, AllSound
  <2>2. /\ Last(room.checkpoints) \in Checkpoint
        /\ NextPhase(Last(room.checkpoints).phase) = Lobby
    BY <2>1, CheckpointTaken
  <2>3. Last(room.checkpoints).phase \in Steps
    BY <2>2 DEF Checkpoint
  <2>4. NextPhase(Last(room.checkpoints).phase) \in Steps
    BY <2>3, NextOfStep
  <2>5. QED BY <2>2, <2>4, StepTypes
<1>5. Sound(h)
  <2>1. MatchesPhase(<<1, 1>>, room.board)
    <3>1. room.board.decided \ {0} = {} /\ room.board.decided \subseteq 1 .. 3
      <4>1. MatchesPhase(Lobby, room.board) /\ room.board \in Board
        BY <1>2 DEF Sound, Room
      <4>2. 1 .. (Lobby[1] - 1) = {}
        BY NextOfLobby
      <4>3. QED BY <4>1, <4>2, NextOfLobby DEF MatchesPhase, Board
    <3>2. room.board.decided = {}
      BY <3>1
    <3>3. <<1, 1>>[1] = 1 /\ 1 .. (1 - 1) = {}
      OBVIOUS
    <3>4. QED BY <3>2, <3>3 DEF MatchesPhase
  <2>2. Turns(<<1, 1>>, room.sharing, room.timer)
    <3>1. Turns(Lobby, room.sharing, room.timer)
      BY <1>2 DEF Sound
    <3>2. QED BY <3>1, NextOfLobby DEF Turns
  <2>3. Chain(<<1, 1>>, <<>>) /\ AllSound(<<>>)
    BY DEF Chain, AllSound
  <2>4. QED BY <1>2, <1>3, <1>4, <2>1, <2>2, <2>3 DEF Sound, AllSound
<1>6. Deadlines(h) = Deadlines(room)
  BY <1>3 DEF Deadlines
<1>7. Good(h)
  BY <1>2, <1>3, <1>5, <1>6, StillCovered DEF Good
<1>8. room.sharing.startsIn = NoTime
  BY <1>2, NextOfLobby DEF Sound, Turns
<1>9. Taken(Advance(h, lot), room) /\ Good(Advance(h, lot)) /\ ~GateIsOpen(Advance(h, lot))
  <2>1. Lucky(lot, h)
    BY <1>3, DrawsAreLucky
  <2>2. Good(Advance(h, lot)) /\ ~GateIsOpen(Advance(h, lot))
    BY <1>7, <2>1, AdvanceEffect DEF Good, Fit
  <2>3. ~IsSharing(room.phase)
    BY <1>2, NextOfLobby
  <2>4. QED BY <1>8, <2>2, <2>3 DEF Taken, Onward, Given
<1>10. QED BY <1>1, <1>9 DEF Accept, h, Handled

LEMMA PhaseReadyStep ==
  ASSUME Good(room), NEW u \in People, NEW yes \in BOOLEAN, PhaseReady(u, yes)
  PROVE  Handled
<1> DEFINE marks == IF yes THEN room.ready \cup {u} ELSE room.ready \ {u}
           h == [room EXCEPT !.ready = marks]
<1>1. PICK lot \in Draws : Accept(u, h, lot)
  BY DEF PhaseReady
<1>2. room \in Room /\ ~room.closed /\ Sound(room) /\ Fit(room)
  BY <1>1 DEF Accept, Good, Fit
<1>3. marks \in SUBSET People
  BY <1>2 DEF Room
<1> HIDE DEF marks
<1>4. /\ h \in Room /\ h.phase = room.phase /\ h.sharing = room.sharing
      /\ h.timer = room.timer /\ h.members = room.members /\ h.board = room.board
      /\ h.checkpoints = room.checkpoints /\ h.idle = room.idle
      /\ h.alarm = room.alarm /\ h.closed = room.closed
  BY <1>2, <1>3 DEF Room
<1> HIDE DEF h
<1>5. Good(h) /\ Fit(h)
  <2>1. MatchesPhase(room.phase, h.board)
    BY <1>2, <1>4 DEF Sound
  <2>2. Good(h)
    BY <1>2, <1>4, <2>1, BoardWork
  <2>3. QED BY <2>2 DEF Good, Fit
<1>6. Lucky(lot, h)
  BY <1>4, DrawsAreLucky
<1>7. Taken(Advance(h, lot), room)
  BY <1>2, <1>4, <1>5, <1>6, AdvancedQuietly
<1>8. Good(Advance(h, lot)) /\ ~GateIsOpen(Advance(h, lot))
  BY <1>5, <1>6, AdvanceEffect DEF Good
<1>9. QED BY <1>1, <1>7, <1>8 DEF Handled, Accept

LEMMA PhaseNextStep ==
  ASSUME Good(room), NEW u, PhaseNext(u)
  PROVE  Handled
<1>1. PICK lot \in Draws : Accept(u, MoveOn(room, lot), lot)
  BY DEF PhaseNext
<1> DEFINE h == MoveOn(room, lot)
<1>2. room \in Room /\ ~room.closed /\ Sound(room) /\ Fit(room) /\ MayMoveOn(room)
  BY <1>1 DEF PhaseNext, Accept, Good, Fit
<1>3. Lucky(lot, room)
  BY DrawsAreLucky
<1>4. /\ Good(h) /\ h.timer = NoTimer /\ h.phase = NextPhase(room.phase)
      /\ h.closed = room.closed /\ (IsSharing(room.phase) => Heard(h))
  BY <1>2, <1>3, MoveOnEffect
<1>5. Accept(u, h, lot)
  BY <1>1
<1> HIDE DEF h
<1>6. room.sharing.startsIn = NoTime
  <2> SUFFICES ASSUME room.sharing.startsIn # NoTime PROVE FALSE
    OBVIOUS
  <2>1. room.sharing.status = "active" /\ IsSharing(room.phase)
    BY <1>2, Announced
  <2>2. QED BY <1>2, <2>1 DEF MayMoveOn
<1>7. Taken(h, room)
  BY <1>4, <1>6 DEF Taken, Onward, Given
<1>8. ~TimerEnded(h.timer)
  BY <1>4 DEF TimerEnded, NoTimer
<1>9. QED BY <1>4, <1>5, <1>7, <1>8, AcceptedIdly

\* What a room is put back to is as sound as it was, with nobody left out.
LEMMA RestoredEffect ==
  ASSUME NEW r \in Room, Sound(r), r.checkpoints # <<>>, NEW lot \in Lots
  PROVE  LET cp == Last(r.checkpoints)
             h == [Restored(r, cp, lot) EXCEPT !.checkpoints = Front(@)]
         IN /\ h \in Room /\ Sound(h) /\ ~TimerEnded(h.timer)
            /\ h.phase \in Steps /\ NextPhase(h.phase) = r.phase
            /\ h.closed = r.closed
<1> DEFINE cp == Last(r.checkpoints)
           old == cp.sharing
           came == Drawn(lot, r.members \ Range(old.order))
           t == IF cp.timer.status = "idle" THEN cp.timer
                ELSE [cp.timer EXCEPT !.status = "running",
                        !.left = IF cp.timer.status = "paused" THEN cp.timer.left
                                 ELSE cp.timer.full]
           s == IF old.status = "none" THEN old
                ELSE [old EXCEPT !.order = @ \o came,
                        !.status = IF @ = "complete" /\ came # <<>>
                                   THEN "ready" ELSE @]
           h == [Restored(r, cp, lot) EXCEPT !.checkpoints = Front(@)]
<1>1. /\ r.checkpoints \in Seq(Checkpoint) /\ Chain(r.phase, r.checkpoints)
      /\ AllSound(r.checkpoints) /\ r.members \in SUBSET People
  BY DEF Room, Sound, AllSound
<1>2. /\ Front(r.checkpoints) \in Seq(Checkpoint) /\ cp \in Checkpoint
      /\ Chain(cp.phase, Front(r.checkpoints)) /\ AllSound(Front(r.checkpoints))
      /\ CheckpointSound(cp) /\ NextPhase(cp.phase) = r.phase
  BY <1>1, CheckpointTaken
<1> HIDE DEF cp
<1>3. /\ cp.phase \in Steps /\ cp.board \in Board /\ cp.timer \in Timer
      /\ old \in Sharing
  BY <1>2 DEF Checkpoint
<1>4. t \in Timer /\ LiveTimer(t) /\ ~TimerEnded(t)
  <2>1. KeptTimer(cp.timer)
    BY <1>2 DEF CheckpointSound
  <2>2. CASE cp.timer.status = "idle"
    BY <1>3, <2>1, <2>2 DEF LiveTimer, KeptTimer, TimerEnded
  <2>3. CASE cp.timer.status # "idle"
    <3> DEFINE l == IF cp.timer.status = "paused" THEN cp.timer.left
                    ELSE cp.timer.full
    <3>1. l \in Nat /\ l > 0 /\ cp.timer.full > 0
      BY <1>3, <2>1, <2>3 DEF KeptTimer, Timer
    <3>2. t = [cp.timer EXCEPT !.status = "running", !.left = l]
      BY <2>3
    <3> HIDE DEF l, t
    <3>3. /\ t \in Timer /\ t.status = "running" /\ t.left = l
          /\ t.full = cp.timer.full
      BY <1>3, <3>1, <3>2 DEF Timer
    <3>4. QED BY <3>1, <3>3 DEF LiveTimer, TimerEnded
  <2>4. QED BY <2>2, <2>3
<1>5. /\ s \in Sharing /\ Turns(cp.phase, s, t)
      /\ s.status # "none" => r.members \subseteq Range(s.order)
  <2>1. Turns(cp.phase, old, cp.timer) /\ old.startsIn = NoTime
    BY <1>2 DEF CheckpointSound
  <2>2. CASE old.status = "none"
    <3>1. s = old
      BY <2>2
    <3> HIDE DEF s, t
    <3>2. QED BY <1>3, <2>1, <2>2, <3>1 DEF Turns
  <2>3. CASE old.status # "none"
    <3>1. came \in Orders /\ Range(came) = r.members \ Range(old.order)
      BY <1>1, DrawnIsOrder
    <3> HIDE DEF came
    <3>2. old.order \in Orders /\ Range(old.order) \cap Range(came) = {}
      BY <1>3, <3>1 DEF Sharing
    <3>3. /\ old.order \o came \in Orders
          /\ Range(old.order \o came) = Range(old.order) \cup Range(came)
          /\ Len(old.order) <= Len(old.order \o came)
      BY <3>1, <3>2, LongerOrder
    <3>4. old.order \in Seq(People) /\ (came = <<>> => old.order \o came = old.order)
      BY <3>2, OrdersAreSequences, ConcatEmptySeq
    <3>5. /\ s.order = old.order \o came /\ s.heard = old.heard
          /\ s.startsIn = NoTime /\ s \in Sharing
          /\ s.status = IF old.status = "complete" /\ came # <<>>
                        THEN "ready" ELSE old.status
      BY <1>3, <2>1, <2>3, <3>3 DEF Sharing
    <3> HIDE DEF s, t
    <3>6. /\ Len(old.order) \in Nat /\ old.heard \in Nat
          /\ Len(old.order \o came) \in Nat
      <4>1. old.order \o came \in Seq(People)
        BY <3>3, OrdersAreSequences
      <4>2. QED BY <1>3, <3>4, <4>1 DEF Sharing
    <3>7. s.status = "active" => s.heard < Len(s.order)
      BY <2>1, <3>3, <3>5, <3>6 DEF Turns
    <3>8. s.status = "complete" => s.heard >= Len(s.order)
      BY <2>1, <3>4, <3>5 DEF Turns
    <3>9. /\ s.status # "none"
          /\ IsSharing(cp.phase) <=> s.status \in {"ready", "active", "complete"}
      BY <2>1, <2>3, <3>5 DEF Turns
    <3>10. r.members \subseteq Range(s.order)
      BY <3>1, <3>3, <3>5
    <3>11. QED BY <3>5, <3>7, <3>8, <3>9, <3>10 DEF Turns
  <2>4. QED BY <2>2, <2>3
<1>6. h = [r EXCEPT !.phase = cp.phase, !.ready = {}, !.board = cp.board,
                    !.timer = t, !.sharing = s,
                    !.checkpoints = Front(r.checkpoints)]
  BY DEF Restored, Room
<1> HIDE DEF h, s, t
<1>7. /\ h \in Room /\ h.phase = cp.phase /\ h.board = cp.board /\ h.timer = t
      /\ h.sharing = s /\ h.checkpoints = Front(r.checkpoints)
      /\ h.members = r.members /\ h.closed = r.closed
  BY <1>2, <1>3, <1>4, <1>5, <1>6 DEF Room
<1>8. Sound(h)
  BY <1>2, <1>4, <1>5, <1>7 DEF Sound, CheckpointSound, AllSound
<1>9. QED BY <1>2, <1>3, <1>4, <1>7, <1>8 DEF h, cp

LEMMA RollbackStep ==
  ASSUME Good(room), NEW u, Rollback(u)
  PROVE  Handled
<1> DEFINE back(lot) == [Restored(room, Last(room.checkpoints), lot)
                           EXCEPT !.checkpoints = Front(@)]
<1>1. PICK lot \in Lots : Accept(u, SyncAlarm(back(lot)), lot)
  BY DEF Rollback
<1>2. /\ room \in Room /\ ~room.closed /\ Sound(room) /\ Fit(room)
      /\ room.checkpoints # <<>> /\ room.phase \in Steps
  BY <1>1 DEF Rollback, Accept, Good, Fit, Room
<1> DEFINE h == back(lot)
<1>3. /\ h \in Room /\ Sound(h) /\ ~TimerEnded(h.timer) /\ h.phase \in Steps
      /\ NextPhase(h.phase) = room.phase /\ h.closed = room.closed
  BY <1>2, RestoredEffect
<1>4. Accept(u, SyncAlarm(h), lot)
  BY <1>1
<1> HIDE DEF h, back
<1>5. Good(SyncAlarm(h)) /\ Alike(SyncAlarm(h), h)
  BY <1>3, Synced
<1>6. IsSharing(room.phase) => h.phase # room.phase /\ h.phase # NextPhase(room.phase)
  BY <1>2, <1>3, BeforeSharing
<1>7. Taken(h, room)
  <2>1. Onward(h, room)
    BY <1>6 DEF Onward
  <2>2. ASSUME room.sharing.startsIn # NoTime PROVE IsSharing(room.phase)
    BY <1>2, <2>2, Announced
  <2>3. QED BY <1>6, <2>1, <2>2 DEF Taken, Given
<1>8. Taken(SyncAlarm(h), room) /\ ~TimerEnded(SyncAlarm(h).timer)
  BY <1>3, <1>5, <1>7, AlikeIsTaken DEF Alike
<1>9. QED BY <1>4, <1>5, <1>8, AcceptedIdly

LEMMA RestartStep ==
  ASSUME Good(room), NEW u, NEW revote \in BOOLEAN, Restart(u, revote)
  PROVE  Handled
<1> DEFINE p == room.phase[1]
           next == <<p, IF revote THEN VotingStep[p] ELSE 1>>
           b == [room.board EXCEPT !.voted = IF revote THEN {} ELSE @]
<1>1. PICK lot \in Draws : Accept(u, Restarted(room, revote, lot), lot)
  BY DEF Restart
<1>2. /\ room \in Room /\ ~room.closed /\ Sound(room) /\ Fit(room)
      /\ room.phase \in Steps /\ p \notin room.board.decided
      /\ revote => IsResult(room.phase)
  BY <1>1 DEF Restart, Accept, Good, Fit, Room
<1> DEFINE s == ResetSharing(room, next, lot)
           h == [room EXCEPT !.phase = next, !.ready = {}, !.timer = NoTimer,
                             !.checkpoints = <<>>, !.sharing = s, !.board = b]
<1>3. next \in Steps /\ next[1] = p /\ ~IsSharing(next)
  <2>1. p \in 1 .. 3
    BY <1>2, StepTypes
  <2>2. /\ StepCount[p] \in 4 .. 5 /\ VotingStep[p] = StepCount[p] - 1
        /\ <<p, 1>> \in Steps
        /\ VotingStep[p] \in 1 .. StepCount[p] => <<p, VotingStep[p]>> \in Steps
    BY <2>1, StepTypes
  <2>3. QED BY <2>2 DEF IsSharing
<1>4. /\ s \in Sharing /\ Turns(next, s, NoTimer)
      /\ s.status # "none" => room.members \subseteq Range(s.order)
  BY <1>2, DrawsAreLucky, ResetSharingEffect DEF Sound, Turns
<1>5. b \in Board /\ MatchesPhase(next, b)
  <2>1. room.board \in Board
    BY <1>2 DEF Room
  <2>2. b \in Board /\ b.decided = room.board.decided
    BY <2>1 DEF Board
  <2>3. MatchesPhase(room.phase, room.board)
    BY <1>2 DEF Sound
  <2>4. QED BY <1>2, <1>3, <2>2, <2>3 DEF MatchesPhase
<1>6. Restarted(room, revote, lot) = SyncAlarm(h)
  BY DEF Restarted
<1>7. IsSharing(room.phase) => next # room.phase /\ next # NextPhase(room.phase)
  <2> SUFFICES ASSUME IsSharing(room.phase)
               PROVE  next # room.phase /\ next # NextPhase(room.phase)
    OBVIOUS
  <2>1. /\ ~IsResult(room.phase) /\ NextPhase(room.phase) # <<p, 1>>
        /\ room.phase # <<p, 1>>
    BY <1>2, NextOfStep
  <2>2. next = <<p, 1>>
    BY <1>2, <2>1
  <2>3. QED BY <2>1, <2>2
<1> HIDE DEF next, s, b
<1>8. /\ h \in Room /\ h.phase = next /\ h.timer = NoTimer /\ h.checkpoints = <<>>
      /\ h.sharing = s /\ h.board = b /\ h.members = room.members
      /\ h.closed = room.closed
  <2>1. <<>> \in Seq(Checkpoint) /\ {} \in SUBSET People /\ NoTimer \in Timer
    BY SimpleTypes
  <2>2. QED BY <1>2, <1>3, <1>4, <1>5, <2>1 DEF Room
<1> HIDE DEF h
<1>9. Sound(h)
  <2>1. LiveTimer(NoTimer)
    BY DEF LiveTimer, NoTimer
  <2>2. Chain(next, <<>>) /\ AllSound(<<>>)
    BY DEF Chain, AllSound
  <2>3. QED BY <1>4, <1>5, <1>8, <2>1, <2>2 DEF Sound, AllSound
<1>10. Good(SyncAlarm(h)) /\ Alike(SyncAlarm(h), h)
  BY <1>8, <1>9, Synced
<1>11. Taken(h, room)
  <2>1. Onward(h, room)
    BY <1>7, <1>8 DEF Onward
  <2>2. ASSUME room.sharing.startsIn # NoTime PROVE IsSharing(room.phase)
    BY <1>2, <2>2, Announced
  <2>3. QED BY <1>7, <1>8, <2>1, <2>2 DEF Taken, Given
<1>12. Taken(SyncAlarm(h), room) /\ ~TimerEnded(SyncAlarm(h).timer)
  BY <1>8, <1>10, <1>11, AlikeIsTaken DEF Alike, TimerEnded, NoTimer
<1>13. QED BY <1>1, <1>6, <1>10, <1>12, AcceptedIdly

LEMMA SharingStartStep ==
  ASSUME Good(room), NEW u, SharingStart(u)
  PROVE  Handled
<1> DEFINE heard == IF room.sharing.status = "complete" THEN 0 ELSE room.sharing.heard
           h == CommitTurn(room, heard)
<1>1. PICK lot \in Draws : Accept(u, h, lot)
  BY DEF SharingStart
<1>2. /\ room \in Room /\ Sound(room) /\ IsSharing(room.phase)
      /\ room.sharing.startsIn = NoTime
  BY DEF SharingStart, MayControl, Good
<1>3. heard \in Nat
  BY <1>2 DEF Room, Sharing
<1> HIDE DEF heard
<1>4. Good(h) /\ h.phase = room.phase /\ h.sharing.order = room.sharing.order
  BY <1>2, <1>3, CommitTurnSound, CommitTurnKeeps
<1> HIDE DEF h
<1>5. QED BY <1>1, <1>2, <1>4, AcceptedInStep

LEMMA SharingAdvanceStep ==
  ASSUME Good(room), NEW u, NEW outcome, SharingAdvance(u, outcome)
  PROVE  Handled
<1>1. PICK lot \in Draws : Accept(u, EndTurn(room, outcome, lot), lot)
  BY DEF SharingAdvance
<1> DEFINE h == EndTurn(room, outcome, lot)
<1>2. /\ room \in Room /\ Sound(room) /\ IsSharing(room.phase)
      /\ room.sharing.startsIn = NoTime
  BY DEF SharingAdvance, MayEndTurn, MayControl, Good
<1>3. Lucky(lot, room)
  BY DrawsAreLucky
<1>4. /\ Good(h)
      /\ \/ h.phase = room.phase /\ h.sharing.order = room.sharing.order
         \/ GoesOn(h, room)
  BY <1>2, <1>3, EndTurnEffect
<1>5. Accept(u, h, lot)
  BY <1>1
<1> HIDE DEF h
<1>6. CASE h.phase = room.phase /\ h.sharing.order = room.sharing.order
  BY <1>2, <1>4, <1>5, <1>6, AcceptedInStep
<1>7. CASE GoesOn(h, room)
  <2>1. Taken(h, room)
    BY <1>2, <1>7 DEF Taken, Onward, Given, GoesOn
  <2>2. ~TimerEnded(h.timer)
    BY <1>7 DEF GoesOn, TimerEnded, NoTimer
  <2>3. QED BY <1>4, <1>5, <2>1, <2>2, AcceptedIdly
<1>8. QED BY <1>4, <1>6, <1>7

\* The clock is started or extended by somebody: no turn is announced then.
LEMMA FreeTimer ==
  ASSUME Good(room), NEW kind, TimerIsFree(kind), NEW u,
         NEW n \in Nat \ {0}, NEW b \in BOOLEAN, NEW lot \in Draws,
         Accept(u, SyncAlarm([room EXCEPT !.timer =
           [status |-> "running", left |-> n, full |-> n, ext |-> b]]), lot)
  PROVE  Handled
<1> DEFINE t == [status |-> "running", left |-> n, full |-> n, ext |-> b]
           h == [room EXCEPT !.timer = t]
<1>1. room \in Room /\ ~room.closed /\ Sound(room)
  BY DEF Accept, Good
<1>2. room.sharing.startsIn = NoTime
  BY <1>1 DEF TimerIsFree, Sound, Turns
<1>3. t \in Timer /\ LiveTimer(t)
  BY SimpleTypes DEF LiveTimer
<1>4. Accept(u, SyncAlarm(h), lot)
  OBVIOUS
<1> HIDE DEF t
<1>5. /\ h \in Room /\ h.timer = t /\ h.phase = room.phase /\ h.closed = room.closed
      /\ h.sharing = room.sharing /\ h.members = room.members
      /\ h.board = room.board /\ h.checkpoints = room.checkpoints
  BY <1>1, <1>3 DEF Room
<1> HIDE DEF h
<1>6. Sound(h)
  <2>1. Turns(room.phase, room.sharing, t)
    BY <1>1, <1>2 DEF Sound, Turns
  <2>2. QED BY <1>1, <1>3, <1>5, <2>1 DEF Sound
<1>7. Good(SyncAlarm(h)) /\ Alike(SyncAlarm(h), h)
  BY <1>5, <1>6, Synced
<1>8. SyncAlarm(h).phase = room.phase /\ SyncAlarm(h).sharing.order = room.sharing.order
  BY <1>5, <1>7 DEF Alike
<1>9. QED BY <1>2, <1>4, <1>7, <1>8, AcceptedInStep

LEMMA TimerStartStep ==
  ASSUME Good(room), NEW u, TimerStart(u)
  PROVE  Handled
<1>1. PICK lot \in Draws : Accept(u, SyncAlarm([room EXCEPT !.timer =
        [status |-> "running", left |-> TurnTime, full |-> TurnTime,
         ext |-> FALSE]]), lot)
  BY DEF TimerStart
<1>2. TimerIsFree("start") /\ TurnTime \in Nat \ {0} /\ FALSE \in BOOLEAN
  BY Times DEF TimerStart
<1>3. QED BY <1>1, <1>2, FreeTimer

LEMMA TimerExtendStep ==
  ASSUME Good(room), NEW u, TimerExtend(u)
  PROVE  Handled
<1>1. PICK lot \in Draws : Accept(u, SyncAlarm([room EXCEPT !.timer =
        [status |-> "running", left |-> ExtraTime, full |-> ExtraTime,
         ext |-> TRUE]]), lot)
  BY DEF TimerExtend
<1>2. TimerIsFree("extend") /\ ExtraTime \in Nat \ {0} /\ TRUE \in BOOLEAN
  BY Times DEF TimerExtend
<1>3. QED BY <1>1, <1>2, FreeTimer

\* Votes, candidates and decisions change while a clock was started.
LEMMA BoardStep ==
  ASSUME Good(room), NEW u, TimerOn(room.timer), NEW ready \in SUBSET People,
         NEW b \in Board, MatchesPhase(room.phase, b), NEW lot \in Draws,
         Accept(u, [room EXCEPT !.ready = ready, !.board = b], lot)
  PROVE  Handled
<1> DEFINE h == [room EXCEPT !.ready = ready, !.board = b]
<1>1. room \in Room /\ ~room.closed /\ Sound(room) /\ Fit(room)
  BY DEF Accept, Good, Fit
<1>2. room.sharing.startsIn = NoTime
  <2>1. room.timer.status # "idle"
    BY DEF TimerOn
  <2>2. QED BY <1>1, <2>1, Announced
<1>3. Accept(u, h, lot)
  OBVIOUS
<1>4. /\ h \in Room /\ h.phase = room.phase /\ h.sharing = room.sharing
      /\ h.timer = room.timer /\ h.members = room.members /\ h.board = b
      /\ h.checkpoints = room.checkpoints /\ h.idle = room.idle
      /\ h.alarm = room.alarm /\ h.closed = room.closed
  BY <1>1 DEF Room
<1> HIDE DEF h
<1>5. Good(h)
  BY <1>1, <1>4, BoardWork
<1>6. QED BY <1>2, <1>3, <1>4, <1>5, AcceptedInStep

LEMMA Marks ==
  ASSUME Good(room), ~room.closed
  PROVE  /\ room \in Room /\ room.ready \in SUBSET People /\ room.board \in Board
         /\ room.board.decided \in SUBSET (1 .. 3) /\ room.board.cand \in BOOLEAN
         /\ room.board.voted \in SUBSET People
         /\ MatchesPhase(room.phase, room.board)
BY DEF Good, Room, Board, Sound

LEMMA VoteStep ==
  ASSUME Good(room), NEW u \in People, NEW all \in BOOLEAN, Vote(u, all)
  PROVE  Handled
<1> DEFINE ready == room.ready \ {u}
           b == [room.board EXCEPT !.voted = IF all THEN @ \cup {u} ELSE @ \ {u}]
<1>1. PICK lot \in Draws :
        Accept(u, [room EXCEPT !.ready = @ \ {u},
                     !.board.voted = IF all THEN @ \cup {u} ELSE @ \ {u}], lot)
  BY DEF Vote
<1>2. TimerOn(room.timer) /\ ~room.closed
  BY <1>1 DEF Vote, MayWork, Accept
<1>3. ready \in SUBSET People /\ b \in Board /\ b.decided = room.board.decided
  BY <1>2, Marks DEF Board
<1>4. MatchesPhase(room.phase, b)
  BY <1>2, <1>3, Marks DEF MatchesPhase
<1>5. Accept(u, [room EXCEPT !.ready = ready, !.board = b], lot)
  BY <1>1
<1> HIDE DEF ready, b
<1>6. QED BY <1>2, <1>3, <1>4, <1>5, BoardStep

LEMMA EditCandidatesStep ==
  ASSUME Good(room), NEW u, EditCandidates(u)
  PROVE  Handled
<1> DEFINE ready == room.ready
           b == [room.board EXCEPT !.cand = ~@]
<1>1. PICK lot \in Draws : Accept(u, [room EXCEPT !.board.cand = ~@], lot)
  BY DEF EditCandidates
<1>2. TimerOn(room.timer) /\ ~room.closed
  BY <1>1 DEF EditCandidates, MayWork, Accept
<1>3. ready \in SUBSET People /\ b \in Board /\ b.decided = room.board.decided
  BY <1>2, Marks DEF Board
<1>4. MatchesPhase(room.phase, b)
  BY <1>2, <1>3, Marks DEF MatchesPhase
<1>5. Accept(u, [room EXCEPT !.ready = ready, !.board = b], lot)
  <2>1. [room EXCEPT !.ready = ready, !.board = b] = [room EXCEPT !.board.cand = ~@]
    BY <1>2, Marks DEF Room
  <2>2. QED BY <1>1, <2>1
<1> HIDE DEF ready, b
<1>6. QED BY <1>2, <1>3, <1>4, <1>5, BoardStep

\* Deciding, or taking it back, concerns the phase of the present step alone.
LEMMA DecisionStep ==
  ASSUME Good(room), NEW u, TimerOn(room.timer), IsResult(room.phase),
         NEW d, d \in {room.board.decided \cup {room.phase[1]},
                       room.board.decided \ {room.phase[1]}},
         NEW lot \in Draws,
         Accept(u, [room EXCEPT !.board.decided = d], lot)
  PROVE  Handled
<1> DEFINE b == [room.board EXCEPT !.decided = d]
<1>1. ~room.closed /\ room \in Room
  BY DEF Accept, Good
<1>2. room.phase[1] \in 1 .. 3
  <2>1. room.phase \in Steps
    BY <1>1 DEF Room, IsResult
  <2>2. QED BY <2>1, StepTypes
<1>3. d \in SUBSET (1 .. 3)
  BY <1>1, <1>2, Marks
<1>4. b \in Board /\ b.decided = d
  BY <1>1, <1>3, Marks DEF Board
<1>5. MatchesPhase(room.phase, b)
  BY <1>1, <1>4, Marks DEF MatchesPhase
<1>6. [room EXCEPT !.ready = room.ready, !.board = b]
        = [room EXCEPT !.board.decided = d]
  BY <1>1, Marks DEF Room
<1>7. Accept(u, [room EXCEPT !.ready = room.ready, !.board = b], lot)
  BY <1>6
<1>8. room.ready \in SUBSET People
  BY <1>1, Marks
<1> HIDE DEF b
<1>9. QED BY <1>4, <1>5, <1>7, <1>8, BoardStep

LEMMA DecideStep ==
  ASSUME Good(room), NEW u, Decide(u)
  PROVE  Handled
<1> DEFINE d == room.board.decided \cup {room.phase[1]}
<1>1. PICK lot \in Draws : Accept(u, [room EXCEPT !.board.decided = d], lot)
  BY DEF Decide
<1>2. TimerOn(room.timer) /\ IsResult(room.phase)
  BY DEF Decide, MayWork
<1>3. d \in {d, room.board.decided \ {room.phase[1]}}
  OBVIOUS
<1>4. QED BY <1>1, <1>2, <1>3, DecisionStep

LEMMA ClearDecisionStep ==
  ASSUME Good(room), NEW u, ClearDecision(u)
  PROVE  Handled
<1> DEFINE d == room.board.decided \ {room.phase[1]}
<1>1. PICK lot \in Draws : Accept(u, [room EXCEPT !.board.decided = d], lot)
  BY DEF ClearDecision
<1>2. TimerOn(room.timer) /\ IsResult(room.phase)
  BY DEF ClearDecision
<1>3. d \in {room.board.decided \cup {room.phase[1]}, d}
  OBVIOUS
<1>4. QED BY <1>1, <1>2, <1>3, DecisionStep

\* A closed room waits for nothing and promises nothing any more.
LEMMA ClosedIsDone ==
  ASSUME NEW r \in Room, NEW h \in Room, h.closed, h.phase = r.phase
  PROVE  /\ Good(SyncAlarm(h)) /\ Taken(SyncAlarm(h), r)
         /\ ~GateIsOpen(SyncAlarm(h))
<1>1. Good(SyncAlarm(h)) /\ Alike(SyncAlarm(h), h)
  BY Synced
<1>2. Onward(h, r) /\ Given(h, r) /\ ~GateIsOpen(h)
  BY StayingIsOnward DEF Given, GateIsOpen
<1>3. Taken(SyncAlarm(h), r)
  BY <1>1, <1>2, AlikeIsTaken DEF Taken
<1>4. QED BY <1>1, <1>2, <1>3, AlikeIsSound

LEMMA PublishStep ==
  ASSUME Good(room), NEW u, Publish(u)
  PROVE  Handled
<1> DEFINE h == [room EXCEPT !.closed = TRUE, !.timer = NoTimer, !.sharing = NoSharing]
<1>1. room \in Room
  BY DEF Good
<1>2. h \in Room /\ h.closed /\ h.phase = room.phase
  BY <1>1, SimpleTypes DEF Room
<1>3. room' = SyncAlarm(h)
  BY DEF Publish
<1> HIDE DEF h
<1>4. QED BY <1>1, <1>2, <1>3, ClosedIsDone DEF Handled

LEMMA MessageStep ==
  ASSUME Good(room), NEW u \in People, Message(u)
  PROVE  Handled
<1>1. CASE StartPhase(u) \/ PhaseNext(u) \/ Rollback(u) \/ SharingStart(u)
  BY <1>1, StartPhaseStep, PhaseNextStep, RollbackStep, SharingStartStep
<1>2. CASE TimerStart(u) \/ TimerExtend(u) \/ EditCandidates(u) \/ Decide(u)
  BY <1>2, TimerStartStep, TimerExtendStep, EditCandidatesStep, DecideStep
<1>3. CASE ClearDecision(u) \/ Publish(u)
  BY <1>3, ClearDecisionStep, PublishStep
<1>4. ASSUME NEW yes \in BOOLEAN, PhaseReady(u, yes) \/ Vote(u, yes) \/ Restart(u, yes)
      PROVE  Handled
  BY <1>4, PhaseReadyStep, VoteStep, RestartStep
<1>5. ASSUME NEW outcome \in {"done", "passed"}, SharingAdvance(u, outcome)
      PROVE  Handled
  BY <1>5, SharingAdvanceStep
<1>6. QED BY <1>1, <1>2, <1>3, <1>4, <1>5 DEF Message

-----------------------------------------------------------------------------
\* Sockets, members and time.

LEMMA CloseEffect ==
  ASSUME NEW r \in Room
  PROVE  Close(r) \in Room /\ Close(r).closed /\ Close(r).phase = r.phase
         /\ Close(r).idle = NoTime
<1>1. NoTimer \in Timer /\ NoSharing \in Sharing /\ <<>> \in Seq(Checkpoint)
      /\ NoTime \in Time
  BY SimpleTypes, Times
<1>2. [decided |-> {}, cand |-> FALSE, voted |-> {}] \in Board
  BY DEF Board
<1>3. QED BY <1>1, <1>2 DEF Close, Room

LEMMA SyncIdleEffect ==
  ASSUME NEW r \in Room
  PROVE  /\ SyncIdle(r) \in Room /\ SyncIdle(r).alarm = r.alarm
         /\ Alike(SyncIdle(r), r)
<1> DEFINE i == IF r.closed \/ r.connected # {} THEN NoTime
                ELSE IF r.members # {} /\ r.idle = NoTime THEN IdleTime ELSE r.idle
<1>1. i \in Time
  BY Times DEF Room
<1>2. SyncIdle(r) = [r EXCEPT !.idle = i]
  BY DEF SyncIdle
<1> HIDE DEF i
<1>3. QED BY <1>1, <1>2 DEF Room, Alike

LEMMA AlikeIsFit ==
  ASSUME NEW r, Fit(r), NEW q \in Room, Alike(q, r)
  PROVE  Fit(q)
BY AlikeIsSound DEF Fit, Alike

\* Somebody's socket opens or closes, or somebody leaves: fewer are waited for.
LEMMA OthersRemain ==
  ASSUME NEW r, Fit(r), ~r.closed, NEW h \in Room, h.members \subseteq r.members,
         h.phase = r.phase, h.sharing = r.sharing, h.timer = r.timer,
         h.board = r.board, h.checkpoints = r.checkpoints
  PROVE  Fit(h)
BY DEF Fit, Sound

LEMMA ConnectStep ==
  ASSUME Good(room), NEW u \in People, Connect(u)
  PROVE  Good(room') /\ Taken(room', room)
<1>1. room \in Room /\ ~room.closed /\ Fit(room)
  BY DEF Connect, Good, Fit
<1>2. CASE IdleIsOver(room)
  <2>1. room' = SyncAlarm(Close(room))
    BY <1>2 DEF Connect
  <2>2. QED BY <1>1, <2>1, CloseEffect, ClosedIsDone
<1>3. CASE ~IdleIsOver(room)
  <2> DEFINE c == room.connected \cup {u}
             h == [room EXCEPT !.connected = c]
             p == SyncIdle(h)
  <2>1. room' = SyncAlarm(p)
    BY <1>3 DEF Connect
  <2>2. c \in SUBSET People
    BY <1>1 DEF Room
  <2> HIDE DEF c
  <2>3. /\ h \in Room /\ h.phase = room.phase /\ h.sharing = room.sharing
        /\ h.timer = room.timer /\ h.closed = room.closed
        /\ h.members = room.members /\ h.board = room.board
        /\ h.checkpoints = room.checkpoints
    BY <1>1, <2>2 DEF Room
  <2> HIDE DEF h
  <2>4. p \in Room /\ Alike(p, h) /\ Fit(p)
    BY <1>1, <2>3, OthersRemain, SyncIdleEffect, AlikeIsFit
  <2>5. Taken(p, room)
    <3>1. p.phase = room.phase /\ p.sharing = room.sharing
      BY <2>3, <2>4 DEF Alike
    <3>2. Onward(p, room)
      BY <1>1, <3>1, StayingIsOnward
    <3>3. Given(p, room)
      BY <1>1, <3>1, Announced DEF Given
    <3>4. QED BY <3>2, <3>3 DEF Taken
  <2> HIDE DEF p
  <2>6. Good(SyncAlarm(p)) /\ Alike(SyncAlarm(p), p)
    BY <2>4, Synced DEF Fit
  <2>7. QED BY <2>1, <2>5, <2>6, AlikeIsTaken
<1>4. QED BY <1>2, <1>3

LEMMA DisconnectStep ==
  ASSUME Good(room), NEW u, Disconnect(u)
  PROVE  Handled
<1> DEFINE c == room.connected \ {u}
           h == [room EXCEPT !.connected = c]
           p == SyncAlarm(SyncIdle(h))
<1>1. room \in Room /\ ~room.closed /\ Fit(room)
  BY DEF Disconnect, Good, Fit
<1>2. PICK lot \in Draws : room' = Advance(p, lot)
  BY DEF Disconnect
<1>3. c \in SUBSET People
  BY <1>1 DEF Room
<1> HIDE DEF c
<1>4. /\ h \in Room /\ h.phase = room.phase /\ h.sharing = room.sharing
      /\ h.timer = room.timer /\ h.closed = room.closed
      /\ h.members = room.members /\ h.board = room.board
      /\ h.checkpoints = room.checkpoints
  BY <1>1, <1>3 DEF Room
<1> HIDE DEF h
<1>5. SyncIdle(h) \in Room /\ Alike(SyncIdle(h), h) /\ Fit(SyncIdle(h))
  BY <1>1, <1>4, OthersRemain, SyncIdleEffect, AlikeIsFit DEF Disconnect
<1>6. Good(p) /\ Alike(p, SyncIdle(h))
  BY <1>5, Synced DEF Fit
<1>7. p.phase = room.phase /\ p.sharing = room.sharing /\ p.timer = room.timer
  BY <1>4, <1>5, <1>6 DEF Alike
<1> HIDE DEF p
<1>8. Fit(p) /\ Lucky(lot, p)
  BY <1>6, <1>7, DrawsAreLucky DEF Good, Fit
<1>9. Taken(Advance(p, lot), room)
  BY <1>1, <1>7, <1>8, AdvancedQuietly
<1>10. Good(Advance(p, lot)) /\ ~GateIsOpen(Advance(p, lot))
  BY <1>6, <1>8, AdvanceEffect DEF Good
<1>11. QED BY <1>2, <1>9, <1>10 DEF Handled

LEMMA LeftStep ==
  ASSUME Good(room), ~room.closed, NEW u, NEW lot \in Draws, room' = Left(u, lot)
  PROVE  Handled
<1> DEFINE m == room.members \ {u}
           c == room.connected \ {u}
           rest == [room EXCEPT !.members = m, !.connected = c]
           r == IF rest.members = {} THEN Close(rest) ELSE rest
           p == SyncIdle(r)
           q == Advance(p, lot)
<1>1. room \in Room /\ Fit(room)
  BY DEF Good, Fit
<1>2. room' = SyncAlarm(q)
  BY DEF Left
<1>3. m \subseteq room.members /\ m \in SUBSET People /\ c \in SUBSET People
  BY <1>1 DEF Room
<1> HIDE DEF m, c
<1>4. /\ rest \in Room /\ rest.phase = room.phase /\ rest.sharing = room.sharing
      /\ rest.timer = room.timer /\ rest.closed = room.closed
      /\ rest.members = m /\ rest.board = room.board
      /\ rest.checkpoints = room.checkpoints
  BY <1>1, <1>3 DEF Room
<1> HIDE DEF rest, q
<1>5. CASE rest.members = {}
  <2>1. r \in Room /\ r.closed /\ r.phase = room.phase /\ ~TimerEnded(r.timer)
    <3>1. r = Close(rest) /\ rest \in Room
      BY <1>4, <1>5
    <3>2. Close(rest).timer = NoTimer
      BY <3>1 DEF Close, Room
    <3>3. QED BY <1>4, <3>1, <3>2, CloseEffect DEF TimerEnded, NoTimer
  <2> HIDE DEF r
  <2>2. p \in Room /\ p.closed /\ p.phase = room.phase /\ ~TimerEnded(p.timer)
    BY <2>1, SyncIdleEffect DEF Alike
  <2> HIDE DEF p
  <2>3. q = p
    BY <2>2, AdvancedIdly DEF q
  <2>4. QED BY <1>1, <1>2, <2>2, <2>3, ClosedIsDone DEF Handled
<1>6. CASE rest.members # {}
  <2>1. r = rest /\ Fit(rest)
    BY <1>1, <1>3, <1>4, <1>6, OthersRemain
  <2>2. p \in Room /\ Alike(p, rest) /\ Fit(p)
    BY <1>4, <2>1, SyncIdleEffect, AlikeIsFit
  <2>3. p.phase = room.phase /\ p.sharing = room.sharing /\ p.timer = room.timer
    BY <1>4, <2>2 DEF Alike
  <2> HIDE DEF p
  <2>4. Lucky(lot, p)
    BY <2>3, DrawsAreLucky
  <2>5. Taken(q, room)
    BY <1>1, <2>2, <2>3, <2>4, AdvancedQuietly DEF q
  <2>6. Fit(q) /\ ~GateIsOpen(q)
    BY <2>2, <2>4, AdvanceEffect DEF q
  <2>7. Good(SyncAlarm(q)) /\ Alike(SyncAlarm(q), q)
    BY <2>6, Synced DEF Fit
  <2>8. QED BY <1>2, <2>5, <2>6, <2>7, AlikeIsTaken, AlikeIsSound DEF Handled
<1>7. QED BY <1>5, <1>6

LEMMA LeaveStep ==
  ASSUME Good(room), NEW u, Leave(u)
  PROVE  Handled
BY LeftStep DEF Leave

LEMMA RemoveMemberStep ==
  ASSUME Good(room), NEW u, NEW target, RemoveMember(u, target)
  PROVE  Handled
BY LeftStep DEF RemoveMember

LEMMA AppendMemberEffect ==
  ASSUME NEW s \in Sharing, NEW u \in People
  PROVE  LET n == AppendMember(s, u)
         IN /\ n \in Sharing /\ n.startsIn = s.startsIn /\ n.heard = s.heard
            /\ s.status = "active" => n.status = "active"
            /\ s.status = "none" => n = s
            /\ s.status # "none" =>
                 /\ n.status # "none" /\ u \in Range(n.order)
                 /\ Range(s.order) \subseteq Range(n.order)
            /\ \A ph, t : Turns(ph, s, t) => Turns(ph, n, t)
<1> DEFINE n == AppendMember(s, u)
<1>1. CASE s.status = "none" \/ u \in Range(s.order)
  BY <1>1 DEF AppendMember
<1>2. CASE ~(s.status = "none" \/ u \in Range(s.order))
  <2>1. s.order \in Orders /\ s.heard \in Nat
    BY DEF Sharing
  <2>2. /\ Append(s.order, u) \in Orders
        /\ Range(Append(s.order, u)) = Range(s.order) \cup {u}
        /\ Len(s.order) < Len(Append(s.order, u))
    BY <1>2, <2>1, OneMore
  <2>3. n = [s EXCEPT !.order = Append(@, u),
                      !.status = IF @ = "complete" THEN "ready" ELSE @]
    BY <1>2 DEF AppendMember
  <2> HIDE DEF n
  <2>4. /\ n \in Sharing /\ n.startsIn = s.startsIn /\ n.heard = s.heard
        /\ n.order = Append(s.order, u)
        /\ n.status = IF s.status = "complete" THEN "ready" ELSE s.status
    BY <2>2, <2>3 DEF Sharing
  <2>5. Len(s.order) \in Nat /\ Len(n.order) \in Nat
    <3>1. s.order \in Seq(People) /\ n.order \in Seq(People)
      BY <2>1, <2>2, <2>4, OrdersAreSequences
    <3>2. QED BY <3>1
  <2>6. ASSUME NEW ph, NEW t, Turns(ph, s, t)
        PROVE  Turns(ph, n, t)
    <3>1. n.status = "active" => n.heard < Len(n.order)
      BY <2>1, <2>2, <2>4, <2>5, <2>6 DEF Turns
    <3>2. QED BY <1>2, <2>4, <2>6, <3>1 DEF Turns
  <2>7. QED BY <1>2, <2>2, <2>4, <2>6 DEF n
<1>3. QED BY <1>1, <1>2

LEMMA JoinStep ==
  ASSUME Good(room), NEW u \in People, Join(u)
  PROVE  Good(room') /\ Taken(room', room)
<1>1. room \in Room /\ ~room.closed /\ Fit(room) /\ Sound(room) /\ Covers(room)
  BY DEF Join, Good, Fit
<1>2. CASE IdleIsOver(room)
  <2>1. room' = SyncAlarm(Close(room))
    BY <1>2 DEF Join
  <2>2. QED BY <1>1, <2>1, CloseEffect, ClosedIsDone
<1>3. CASE ~IdleIsOver(room)
  <2> DEFINE s == AppendMember(room.sharing, u)
             m == room.members \cup {u}
             h == [room EXCEPT !.members = m, !.sharing = s]
  <2>1. room' = h
    BY <1>3 DEF Join
  <2>2. room.sharing \in Sharing /\ m \in SUBSET People
    BY <1>1 DEF Room
  <2>3. /\ s \in Sharing /\ s.startsIn = room.sharing.startsIn
        /\ s.heard = room.sharing.heard
        /\ room.sharing.status = "active" => s.status = "active"
        /\ room.sharing.status = "none" => s = room.sharing
        /\ room.sharing.status # "none" =>
             /\ s.status # "none" /\ u \in Range(s.order)
             /\ Range(room.sharing.order) \subseteq Range(s.order)
        /\ Turns(room.phase, room.sharing, room.timer)
             => Turns(room.phase, s, room.timer)
    BY <2>2, AppendMemberEffect
  <2> HIDE DEF s
  <2>4. /\ h \in Room /\ h.members = m /\ h.sharing = s /\ h.phase = room.phase
        /\ h.timer = room.timer /\ h.board = room.board /\ h.idle = room.idle
        /\ h.checkpoints = room.checkpoints /\ h.closed = room.closed
        /\ h.alarm = room.alarm
    BY <1>1, <2>2, <2>3 DEF Room
  <2>5. Sound(h)
    <3> HIDE DEF h
    <3>1. s.status # "none" => m \subseteq Range(s.order)
      BY <1>1, <2>3 DEF Sound
    <3>2. QED BY <1>1, <2>3, <2>4, <3>1 DEF Sound
  <2> HIDE DEF h, m
  <2>6. Deadlines(h) = Deadlines(room)
    BY <2>3, <2>4 DEF Deadlines
  <2>7. Good(h)
    BY <1>1, <2>4, <2>5, <2>6, StillCovered DEF Good
  <2>8. Taken(h, room)
    <3>1. Onward(h, room)
      BY <1>1, <2>4, StayingIsOnward
    <3>2. Given(h, room)
      BY <1>1, <2>3, <2>4, Announced DEF Given
    <3>3. QED BY <3>1, <3>2 DEF Taken
  <2>9. QED BY <2>1, <2>7, <2>8
<1>4. QED BY <1>2, <1>3

LEMMA PassedTime ==
  ASSUME NEW t \in Time
  PROVE  /\ Pass(t) \in Time /\ (Pass(t) = NoTime <=> t = NoTime)
         /\ t # NoTime => t \in Nat /\ Pass(t) \in Nat
         /\ \A a \in Nat : t # NoTime /\ a <= t => Pass(a) <= Pass(t) /\ Pass(a) \in Nat
<1>1. CASE t = NoTime
  BY <1>1, Times DEF Pass
<1>2. CASE t # NoTime
  <2>1. t \in Nat
    BY <1>2 DEF Time
  <2>2. Pass(t) = IF t = 0 THEN 0 ELSE t - 1
    BY <1>2, <2>1 DEF Pass
  <2>3. Pass(t) \in Nat /\ Pass(t) # NoTime
    BY <2>1, <2>2, Times
  <2>4. \A a \in Nat : Pass(a) = IF a = 0 THEN 0 ELSE a - 1
    BY Times DEF Pass
  <2>5. \A a \in Nat : a <= t => Pass(a) <= Pass(t) /\ Pass(a) \in Nat
    BY <2>1, <2>2, <2>4
  <2>6. QED BY <1>2, <2>1, <2>3, <2>5 DEF Time
<1>3. QED BY <1>1, <1>2

\* The clock that has stopped stands still, so time opens no gate.
LEMMA TickStep ==
  ASSUME Good(room), Tick
  PROVE  /\ Good(room') /\ Taken(room', room)
         /\ GateIsOpen(room') => GateIsOpen(room)
<1> DEFINE i == Pass(room.idle)
           a == Pass(room.alarm)
           t == [room.timer EXCEPT !.left = Pass(@)]
           s == [room.sharing EXCEPT !.startsIn = Pass(@)]
           h == [room EXCEPT !.idle = i, !.alarm = a, !.timer = t, !.sharing = s]
<1>1. room \in Room /\ (~room.closed => Sound(room)) /\ Covers(room) /\ Fit(room)
  BY DEF Good, Fit
<1>2. /\ room.timer \in Timer /\ room.sharing \in Sharing
      /\ room.idle \in Time /\ room.alarm \in Time
      /\ room.timer.left \in Nat /\ room.sharing.startsIn \in Time
  BY <1>1 DEF Room, Timer, Sharing
<1>3. room' = h
  <2>1. h = [room EXCEPT !.idle = Pass(@), !.alarm = Pass(@),
                         !.timer.left = Pass(@), !.sharing.startsIn = Pass(@)]
    BY <1>1 DEF Room
  <2>2. QED BY <2>1 DEF Tick
<1>4. i \in Time /\ a \in Time /\ Pass(room.timer.left) \in Nat
      /\ Pass(room.sharing.startsIn) \in Time
  BY <1>2, PassedTime, Times DEF Time
<1>5. /\ t \in Timer /\ t.status = room.timer.status /\ t.full = room.timer.full
      /\ t.ext = room.timer.ext /\ t.left = Pass(room.timer.left)
  BY <1>2, <1>4 DEF Timer
<1>6. /\ s \in Sharing /\ s.status = room.sharing.status
      /\ s.order = room.sharing.order /\ s.heard = room.sharing.heard
      /\ s.startsIn = Pass(room.sharing.startsIn)
  BY <1>2, <1>4 DEF Sharing
<1> HIDE DEF i, a, t, s
<1>7. /\ h \in Room /\ h.idle = i /\ h.alarm = a /\ h.timer = t /\ h.sharing = s
      /\ h.members = room.members /\ h.connected = room.connected
      /\ h.ready = room.ready /\ h.phase = room.phase /\ h.board = room.board
      /\ h.checkpoints = room.checkpoints /\ h.closed = room.closed
  BY <1>1, <1>4, <1>5, <1>6 DEF Room
<1> HIDE DEF h
<1>8. s.startsIn = NoTime <=> room.sharing.startsIn = NoTime
  BY <1>2, <1>6, PassedTime
<1>9. ~h.closed => Sound(h)
  <2> SUFFICES ASSUME ~room.closed PROVE Sound(h)
    BY <1>7
  <2>1. Sound(room)
    BY <1>1
  <2>2. Turns(room.phase, s, t) /\ LiveTimer(t)
    BY <1>5, <1>6, <1>8, <2>1 DEF Sound, Turns, LiveTimer
  <2>3. QED BY <1>6, <1>7, <2>1, <2>2 DEF Sound
<1>10. Covers(h)
  <2> SUFFICES ASSUME NEW d \in Deadlines(h)
               PROVE  h.alarm # NoTime /\ h.alarm <= d
    BY DEF Covers
  <2>1. PICK e \in Time : e \in Deadlines(room) /\ d = Pass(e)
    <3>1. /\ d # NoTime
          /\ \/ d = IF h.closed THEN NoTime ELSE i
             \/ d = s.startsIn
             \/ d = IF t.status = "running" THEN t.left ELSE NoTime
      BY <1>7 DEF Deadlines
    <3>2. CASE d = IF h.closed THEN NoTime ELSE i
      <4>1. d = Pass(room.idle) /\ ~room.closed
        BY <1>7, <3>1, <3>2 DEF i
      <4>2. room.idle # NoTime
        BY <1>2, <3>1, <4>1, PassedTime
      <4>3. room.idle \in Deadlines(room)
        BY <4>1, <4>2 DEF Deadlines
      <4>4. QED BY <1>2, <4>1, <4>3
    <3>3. CASE d = s.startsIn
      <4>1. d = Pass(room.sharing.startsIn) /\ room.sharing.startsIn # NoTime
        BY <1>6, <1>8, <3>1, <3>3
      <4>2. room.sharing.startsIn \in Deadlines(room)
        BY <4>1 DEF Deadlines
      <4>3. QED BY <1>2, <4>1, <4>2
    <3>4. CASE d = IF t.status = "running" THEN t.left ELSE NoTime
      <4>1. d = Pass(room.timer.left) /\ room.timer.status = "running"
        BY <1>5, <3>1, <3>4
      <4>2. room.timer.left \in Deadlines(room) /\ room.timer.left \in Time
        BY <1>2, <4>1, Times DEF Deadlines, Time
      <4>3. QED BY <4>1, <4>2
    <3>5. QED BY <3>1, <3>2, <3>3, <3>4
  <2>2. room.alarm # NoTime /\ room.alarm <= e /\ e # NoTime
    BY <1>1, <2>1 DEF Covers, Deadlines
  <2>3. room.alarm \in Nat
    BY <1>2, <2>2 DEF Time
  <2>4. a <= d /\ a \in Nat
    BY <2>1, <2>2, <2>3, PassedTime DEF a
  <2>5. QED BY <1>7, <2>4, Times
<1>11. Taken(h, room)
  <2>1. Onward(h, room)
    BY <1>1, <1>7, StayingIsOnward
  <2>2. Given(h, room)
    BY <1>1, <1>6, <1>7, Announced DEF Given
  <2>3. QED BY <2>1, <2>2 DEF Taken
<1>12. GateIsOpen(h) => GateIsOpen(room)
  <2> SUFFICES ASSUME GateIsOpen(h) PROVE GateIsOpen(room)
    OBVIOUS
  <2>1. /\ ~room.closed /\ room.timer.status = "ended" /\ room.timer.ext
    BY <1>5, <1>7 DEF GateIsOpen
  <2>2. TimerEnded(room.timer)
    BY <2>1 DEF TimerEnded
  <2>3. MayMoveOn(h) => MayMoveOn(room)
    <3>1. VotesAreIn(h) <=> VotesAreIn(room)
      BY <1>7 DEF VotesAreIn
    <3>2. QED BY <1>6, <1>7, <2>1, <2>2, <3>1 DEF MayMoveOn
  <2>4. Presenter(h.sharing) = Presenter(room.sharing)
    BY <1>6, <1>7 DEF Presenter
  <2>5. QED BY <1>6, <1>7, <2>1, <2>3, <2>4 DEF GateIsOpen
<1>13. QED BY <1>3, <1>7, <1>9, <1>10, <1>11, <1>12 DEF Good

\* The alarm starts the announced turn, or stops the clock that has run down.
LEMMA StartedEffect ==
  ASSUME NEW r, Fit(r)
  PROVE  LET h == Started(r)
         IN /\ Fit(h) /\ h.phase = r.phase /\ h.closed = r.closed
            /\ h.sharing.order = r.sharing.order /\ h.sharing.heard = r.sharing.heard
            /\ h.sharing.status = r.sharing.status
            /\ ~r.closed /\ r.sharing.startsIn # NoTime => ~TimerEnded(h.timer)
<1> DEFINE h == Started(r)
<1>1. /\ r \in Room /\ r.timer \in Timer /\ r.sharing \in Sharing
      /\ ~r.closed => Sound(r)
  BY DEF Fit, Room
<1>2. CASE r.sharing.startsIn = 0
  <2> DEFINE s == [r.sharing EXCEPT !.startsIn = NoTime]
             t == [status |-> "running", left |-> TurnTime, full |-> TurnTime,
                   ext |-> FALSE]
  <2>1. h = [r EXCEPT !.sharing = s, !.timer = t]
    BY <1>1, <1>2 DEF Started, Room
  <2>2. /\ s \in Sharing /\ s.status = r.sharing.status /\ s.order = r.sharing.order
        /\ s.heard = r.sharing.heard /\ s.startsIn = NoTime
    BY <1>1, Times DEF Sharing
  <2>3. t \in Timer /\ LiveTimer(t) /\ ~TimerEnded(t)
    <3>1. /\ t.status = "running" /\ t.left = TurnTime /\ t.full = TurnTime
          /\ TurnTime > 0 /\ TurnTime # 0
      BY Times
    <3>2. t \in Timer
      BY SimpleTypes, Times
    <3>3. QED BY <3>1, <3>2 DEF LiveTimer, TimerEnded
  <2> HIDE DEF s, t, h
  <2>4. /\ h \in Room /\ h.sharing = s /\ h.timer = t /\ h.phase = r.phase
        /\ h.closed = r.closed /\ h.members = r.members /\ h.board = r.board
        /\ h.checkpoints = r.checkpoints
    BY <1>1, <2>1, <2>2, <2>3 DEF Room
  <2>5. ~r.closed => Sound(h)
    <3> SUFFICES ASSUME ~r.closed PROVE Sound(h)
      OBVIOUS
    <3>1. Turns(r.phase, s, t)
      BY <1>1, <2>2 DEF Sound, Turns
    <3>2. QED BY <1>1, <2>2, <2>3, <2>4, <3>1 DEF Sound
  <2>6. QED BY <2>2, <2>3, <2>4, <2>5 DEF Fit, h
<1>3. CASE r.sharing.startsIn # 0 /\ r.timer.status = "running" /\ r.timer.left = 0
  <2> DEFINE t == [r.timer EXCEPT !.status = "ended"]
  <2>1. h = [r EXCEPT !.timer = t]
    BY <1>1, <1>3 DEF Started, Room
  <2>2. t \in Timer /\ t.full = r.timer.full /\ t.status = "ended"
    BY <1>1, SimpleTypes DEF Timer
  <2> HIDE DEF t, h
  <2>3. /\ h \in Room /\ h.sharing = r.sharing /\ h.timer = t /\ h.phase = r.phase
        /\ h.closed = r.closed /\ h.members = r.members /\ h.board = r.board
        /\ h.checkpoints = r.checkpoints
    BY <1>1, <2>1, <2>2 DEF Room
  <2>4. ~r.closed => Sound(h) /\ r.sharing.startsIn = NoTime
    <3> SUFFICES ASSUME ~r.closed PROVE Sound(h) /\ r.sharing.startsIn = NoTime
      OBVIOUS
    <3>1. Turns(r.phase, r.sharing, t) /\ r.sharing.startsIn = NoTime
      BY <1>1, <1>3, <2>2 DEF Sound, Turns
    <3>2. LiveTimer(t)
      BY <1>1, <1>3, <2>2 DEF Sound, LiveTimer
    <3>3. QED BY <1>1, <2>3, <3>1, <3>2 DEF Sound
  <2>5. QED BY <2>3, <2>4 DEF Fit, h
<1>4. CASE r.sharing.startsIn # 0 /\ ~(r.timer.status = "running" /\ r.timer.left = 0)
  <2>1. h = r
    BY <1>4 DEF Started
  <2>2. QED BY <2>1, Announced DEF h
<1>5. QED BY <1>2, <1>3, <1>4

LEMMA AlarmStep ==
  ASSUME Good(room), Alarm
  PROVE  Handled
<1> DEFINE r == SyncIdle(room)
<1>1. room \in Room /\ Fit(room)
  BY DEF Good, Fit
<1>2. r \in Room /\ Alike(r, room) /\ Fit(r)
  BY <1>1, SyncIdleEffect, AlikeIsFit
<1>3. \/ IdleIsOver(r) /\ room' = SyncAlarm(Close(r))
      \/ \E lot \in Draws : room' = SyncAlarm(Advance(Started(r), lot))
  BY DEF Alarm
<1> HIDE DEF r
<1>4. r.phase = room.phase /\ r.sharing = room.sharing /\ r.closed = room.closed
  BY <1>2 DEF Alike
<1>5. CASE room' = SyncAlarm(Close(r))
  <2>1. Close(r) \in Room /\ Close(r).closed /\ Close(r).phase = room.phase
    BY <1>2, <1>4, CloseEffect
  <2>2. QED BY <1>1, <1>5, <2>1, ClosedIsDone DEF Handled
<1>6. ASSUME NEW lot \in Draws, room' = SyncAlarm(Advance(Started(r), lot))
      PROVE  Handled
  <2> DEFINE h == Started(r)
             q == Advance(h, lot)
  <2>1. /\ Fit(h) /\ h.phase = room.phase /\ h.closed = room.closed
        /\ h.sharing.order = room.sharing.order
        /\ h.sharing.heard = room.sharing.heard
        /\ h.sharing.status = room.sharing.status
        /\ ~room.closed /\ room.sharing.startsIn # NoTime => ~TimerEnded(h.timer)
    BY <1>2, <1>4, StartedEffect
  <2>2. room' = SyncAlarm(q)
    BY <1>6
  <2> HIDE DEF h
  <2>3. Lucky(lot, h)
    BY <2>1, DrawsAreLucky
  <2>4. Fit(q) /\ ~GateIsOpen(q)
    BY <2>1, <2>3, AdvanceEffect
  <2>5. Taken(q, room)
    <3>1. CASE room.sharing.startsIn = NoTime
      BY <1>1, <2>1, <2>3, <3>1, AdvancedInStep
    <3>2. CASE room.closed
      <4>1. q = h
        BY <2>1, <3>2 DEF q, Advance
      <4>2. Onward(h, room) /\ Given(h, room)
        BY <1>1, <2>1, <3>2, StayingIsOnward DEF Given
      <4>3. QED BY <4>1, <4>2 DEF Taken
    <3>3. CASE ~room.closed /\ room.sharing.startsIn # NoTime
      <4>1. q = h
        BY <2>1, <3>3, AdvancedIdly DEF q
      <4>2. room.sharing.status = "active"
        BY <1>1, <3>3, Announced
      <4>3. Onward(h, room) /\ Given(h, room)
        BY <1>1, <2>1, <4>2, StayingIsOnward DEF Given
      <4>4. QED BY <4>1, <4>3 DEF Taken
    <3>4. QED BY <3>1, <3>2, <3>3
  <2> HIDE DEF q
  <2>6. Good(SyncAlarm(q)) /\ Alike(SyncAlarm(q), q)
    BY <2>4, Synced DEF Fit
  <2>7. QED BY <2>2, <2>4, <2>5, <2>6, AlikeIsTaken, AlikeIsSound DEF Handled
<1>7. QED BY <1>3, <1>5, <1>6

-----------------------------------------------------------------------------
\* All steps together.

LEMMA InitGood == Init => Good(room)
<1> SUFFICES ASSUME Init PROVE Good(room)
  OBVIOUS
<1>1. PICK ph \in Starts, there \in SUBSET People, lot \in Lots, here \in SUBSET People :
        /\ here \subseteq there
        /\ room =
             [members |-> there, connected |-> here, phase |-> ph, ready |-> {},
              board |-> [decided |-> 1 .. (ph[1] - 1), cand |-> IsVoting(ph),
                         voted |-> {}],
              timer |-> NoTimer,
              sharing |-> IF ph = Lobby THEN NoSharing
                          ELSE [NoSharing EXCEPT !.status = "inactive",
                                                 !.order = Drawn(lot, there)],
              checkpoints |-> <<>>, idle |-> NoTime, alarm |-> NoTime,
              closed |-> FALSE]
  BY DEF Init
<1> DEFINE b == [decided |-> 1 .. (ph[1] - 1), cand |-> IsVoting(ph), voted |-> {}]
           s == IF ph = Lobby THEN NoSharing
                ELSE [NoSharing EXCEPT !.status = "inactive", !.order = Drawn(lot, there)]
<1>2. /\ room.members = there /\ room.phase = ph /\ room.board = b
      /\ room.timer = NoTimer /\ room.sharing = s /\ room.checkpoints = <<>>
      /\ room.idle = NoTime /\ room.closed = FALSE /\ room.connected = here
      /\ room.ready = {} /\ room.alarm = NoTime
  BY <1>1
<1>3. /\ ph \in Steps \cup {Lobby} /\ ~IsSharing(ph) /\ ph[1] \in 0 .. 3
      /\ ph = Lobby => ph[1] = 0
  <2>1. CASE ph = Lobby
    BY <2>1, NextOfLobby
  <2>2. CASE ph # Lobby
    <3>1. ph \in Steps /\ (ph[2] = 1 \/ IsVoting(ph))
      BY <2>2, StartsAssumption
    <3>2. /\ ph[1] \in 1 .. 3 /\ StepCount[ph[1]] \in 4 .. 5
          /\ VotingStep[ph[1]] = StepCount[ph[1]] - 1
      BY <3>1, StepTypes
    <3>3. QED BY <2>2, <3>1, <3>2 DEF IsSharing, IsVoting
  <2>3. QED BY <2>1, <2>2
<1>4. b \in Board /\ MatchesPhase(ph, b)
  <2>1. /\ 1 .. (ph[1] - 1) \in SUBSET (1 .. 3) /\ ph[1] \notin 1 .. (ph[1] - 1)
        /\ IsVoting(ph) \in BOOLEAN /\ {} \in SUBSET People
    BY <1>3 DEF IsVoting
  <2>2. b.decided = 1 .. (ph[1] - 1) /\ b.cand = IsVoting(ph) /\ b.voted = {}
    OBVIOUS
  <2>3. b \in Board
    BY <2>1 DEF Board
  <2> HIDE DEF b
  <2>4. QED BY <2>1, <2>2, <2>3 DEF MatchesPhase
<1>5. /\ s \in Sharing /\ Turns(ph, s, NoTimer)
      /\ s.status # "none" => there \subseteq Range(s.order)
  <2>1. Drawn(lot, there) \in Orders /\ Range(Drawn(lot, there)) = there
    BY DrawnIsOrder
  <2>2. CASE ph = Lobby
    BY <1>3, <2>2, SimpleTypes DEF Turns, NoSharing
  <2>3. CASE ph # Lobby
    <3>1. /\ s.status = "inactive" /\ s.order = Drawn(lot, there)
          /\ s.startsIn = NoTime /\ s \in Sharing
      BY <2>1, <2>3, Times DEF NoSharing, Sharing
    <3> HIDE DEF s
    <3>2. QED BY <1>3, <2>1, <3>1 DEF Turns
  <2>4. QED BY <2>2, <2>3
<1> HIDE DEF b, s
<1>6. room \in Room
  <2>1. /\ <<>> \in Seq(Checkpoint) /\ NoTimer \in Timer /\ NoTime \in Time
        /\ here \in SUBSET People /\ {} \in SUBSET People /\ FALSE \in BOOLEAN
    BY SimpleTypes, Times
  <2>2. room = [members |-> there, connected |-> here, phase |-> ph, ready |-> {},
                board |-> b, timer |-> NoTimer, sharing |-> s, checkpoints |-> <<>>,
                idle |-> NoTime, alarm |-> NoTime, closed |-> FALSE]
    BY <1>1 DEF b, s
  <2>3. QED BY <1>3, <1>4, <1>5, <2>1, <2>2 DEF Room
<1>7. Sound(room)
  <2>1. LiveTimer(NoTimer)
    BY DEF LiveTimer, NoTimer
  <2>2. Chain(ph, <<>>) /\ AllSound(<<>>)
    BY DEF Chain, AllSound
  <2>3. QED BY <1>2, <1>4, <1>5, <2>1, <2>2 DEF Sound, AllSound
<1>8. Covers(room)
  <2>1. Deadlines(room) = {}
    <3>1. s.startsIn = NoTime
      BY <1>3, <1>5 DEF Turns
    <3>2. QED BY <1>2, <3>1 DEF Deadlines, NoTimer
  <2>2. QED BY <2>1 DEF Covers
<1>9. QED BY <1>6, <1>7, <1>8 DEF Good

LEMMA NextStep ==
  ASSUME Good(room), [Next]_room
  PROVE  /\ Good(room') /\ (room' = room \/ Taken(room', room))
         /\ GateIsOpen(room') => \/ GateIsOpen(room)
                                 \/ \E u \in People : Connect(u) \/ Join(u)
<1>1. ASSUME NEW u \in People, Message(u)
      PROVE  Handled
  BY <1>1, MessageStep
<1>2. ASSUME NEW u \in People, Connect(u) \/ Join(u)
      PROVE  Good(room') /\ Taken(room', room)
  BY <1>2, ConnectStep, JoinStep
<1>3. ASSUME NEW u \in People, Disconnect(u) \/ Leave(u)
      PROVE  Handled
  BY <1>3, DisconnectStep, LeaveStep
<1>4. ASSUME NEW u \in People, NEW target \in People, RemoveMember(u, target)
      PROVE  Handled
  BY <1>4, RemoveMemberStep
<1>5. ASSUME Alarm PROVE Handled
  BY <1>5, AlarmStep
<1>6. ASSUME Tick
      PROVE  /\ Good(room') /\ Taken(room', room)
             /\ GateIsOpen(room') => GateIsOpen(room)
  BY <1>6, TickStep
<1>7. ASSUME room' = room
      PROVE  Good(room') /\ (GateIsOpen(room') => GateIsOpen(room))
  BY <1>7
<1>8. ASSUME Handled
      PROVE  Good(room') /\ Taken(room', room) /\ ~GateIsOpen(room')
  BY <1>8 DEF Handled
<1>9. QED BY <1>1, <1>2, <1>3, <1>4, <1>5, <1>6, <1>7, <1>8 DEF Next

(***************************************************************************)
(* Every reachable room has its clock, its turns, its decisions and its    *)
(* checkpoints in order, and an alarm no later than what it waits for.     *)
(***************************************************************************)
THEOREM ProgressInvariant == Spec => []Good(room)
<1>1. Good(room) /\ [Next]_room => Good(room)'
  BY NextStep
<1>2. QED BY <1>1, InitGood, PTL DEF Spec

\* A room's record keeps its form, whichever messages it accepted.
THEOREM ProgressTypeCorrect == Spec => []TypeOK
<1>1. Good(room) => TypeOK
  BY DEF Good, TypeOK
<1>2. QED BY <1>1, ProgressInvariant, PTL

\* The alarm is never later than the day without a connection, the start of a
\* turn or the end of the timer (syncRoomAlarm and all who move a deadline).
THEOREM AlarmIsInTime == Spec => []AlarmCovers
<1>1. Good(room) => AlarmCovers
  BY DEF Good, Covers, AlarmCovers
<1>2. QED BY <1>1, ProgressInvariant, PTL

\* Rolled back, voted again or cleared: exactly the phases before the present
\* one are decided, and the present one only in its last step.
THEOREM DecisionsKeepUp == Spec => []DecisionsMatchPhase
<1>1. Good(room) => DecisionsMatchPhase
  BY DEF Good, Sound, MatchesPhase, DecisionsMatchPhase
<1>2. QED BY <1>1, ProgressInvariant, PTL

\* No sharing step is left forwards before every member had a turn, those who
\* came late or during a rollback too.
THEOREM NobodyIsPassedOver == Spec => EveryoneIsHeard
<1>1. Good(room) /\ [Next]_room
      => [IsSharing(room.phase) /\ room'.phase = NextPhase(room.phase)
          => LET s == Last(room'.checkpoints).sharing
             IN room'.members \subseteq {s.order[i] : i \in 1 .. s.heard}]_room
  BY NextStep DEF Taken, Onward, Heard
<1>2. QED BY <1>1, ProgressInvariant, PTL DEF Spec, EveryoneIsHeard

\* Between the announcement of a turn and its start nothing ends it, and the
\* step is not left forwards.
THEOREM NoTurnIsSkipped == Spec => AnnouncedTurnIsGiven
<1>1. Good(room) /\ [Next]_room
      => [room.sharing.startsIn # NoTime /\ ~room'.closed =>
            IF room'.phase = room.phase
            THEN room'.sharing.status = "active"
                 /\ room'.sharing.heard = room.sharing.heard
            ELSE room'.phase # NextPhase(room.phase)]_room
  BY NextStep DEF Taken, Given
<1>2. QED BY <1>1, ProgressInvariant, PTL DEF Spec, AnnouncedTurnIsGiven

\* Whatever completes the conditions of a step whose extension is over also
\* ends the step or the turn, but for somebody who connects or joins.
THEOREM GatesAreTaken == Spec => NoOpenGateIsMissed
<1>1. Good(room) /\ [Next]_room
      => [GateIsOpen(room') => \/ GateIsOpen(room)
                               \/ \E u \in People : Connect(u) \/ Join(u)]_room
  BY NextStep
<1>2. QED BY <1>1, ProgressInvariant, PTL DEF Spec, NoOpenGateIsMissed
=============================================================================
