---------------------------- MODULE OutcomeProofs -----------------------------
(***************************************************************************)
(* Theorems about OutcomeProjection, for any number of records, uses,      *)
(* visits, failing calls and crashes.                                      *)
(***************************************************************************)
EXTENDS OutcomeProjection, WellFoundedInduction, TLAPS

-----------------------------------------------------------------------------
\* Where a caller stops, and which record is sent next.

LEMMA LeastExists ==
  ASSUME NEW S, S \subseteq Nat, S # {}
  PROVE  LET m == CHOOSE i \in S : \A j \in S : i <= j
         IN m \in S /\ \A j \in S : m <= j
<1>1. \E m \in S : \A j \in S : m <= j
  <2>1. PICK m \in S : \A j \in S : ~(<<j, m>> \in OpToRel(<, Nat))
    BY NatLessThanWellFounded, WFMin
  <2>2. \A j \in S : ~(j < m)
    BY <2>1 DEF OpToRel
  <2>3. QED BY <2>2
<1>2. QED BY <1>1

LEMMA CurrentIsOfBatch ==
  ASSUME batch \subseteq Records, batch # {}
  PROVE  Current \in batch
<1>1. batch \subseteq Nat
  BY ProjectionAssumption
<1>2. QED BY <1>1, LeastExists DEF Current

LEMMA StopsWhereNeeded ==
  ASSUME NEW route \in Seq(Writers), NEW r, NEW flights
  PROVE  LET w == Stop(route, r, flights)
         IN \/ w = "end"
            \/ w \in Writers /\ (flights[w].pc # "idle" \/ Work(w, r) # "idle")
<1> DEFINE stops == {i \in DOMAIN route : flights[route[i]].pc # "idle"
                                          \/ Work(route[i], r) # "idle"}
           first == CHOOSE i \in stops : \A j \in stops : i <= j
<1>1. CASE stops = {}
  BY <1>1 DEF Stop
<1>2. CASE stops # {}
  <2>1. stops \subseteq Nat
    OBVIOUS
  <2>2. first \in stops
    BY <1>2, <2>1, LeastExists
  <2>3. Stop(route, r, flights) = route[first]
    BY <1>2 DEF Stop
  <2>4. route[first] \in Writers
    BY <2>2
  <2>5. QED BY <2>2, <2>3, <2>4
<1>3. QED BY <1>1, <1>2

LEMMA WorkType ==
  ASSUME NEW w \in Writers, NEW r
  PROVE  /\ Work(w, r) \in {"idle", "send", "wipe"}
         /\ Work(w, r) = "wipe" => expired
         /\ w = "outcome" /\ Work(w, r) = "send" => r.retry
         /\ w = "history" /\ Work(w, r) = "send" => Due(r) # {}
BY DEF Work, Writers

-----------------------------------------------------------------------------
\* What the storage operations do to the row of a room.

LEMMA RoomOperations ==
  ASSUME NEW r \in Room
  PROVE  /\ \A n \in Uses : Used(r, n) \in Room /\ Preserved(r, n) \in Room
                            /\ Completed(r, n) \in Room
         /\ \A n \in Uses, h \in Records : Recorded(r, n, h) \in Room
         /\ OutcomeGone(r) \in Room /\ HistoryGone(r) \in Room
         /\ Erased(r) \in Room
         /\ \A h \in Records, x \in {"due", "kept"} : Mark(r, h, x) \in Room
         /\ \A x \in {"open", "completed", "disbanded"} :
              [r EXCEPT !.life = x] \in Room
         /\ \A x \in BOOLEAN : /\ [r EXCEPT !.retry = x] \in Room
                               /\ [r EXCEPT !.viewersDue = x] \in Room
         /\ [r EXCEPT !.status = "failed", !.retry = TRUE] \in Room
<1> USE DEF Room, Version
<1>1. \A n \in Uses : Used(r, n) \in Room
  BY DEF Used
<1>2. \A n \in Uses : Preserved(r, n) \in Room
  BY DEF Preserved, Used
<1>3. \A n \in Uses : Completed(r, n) \in Room
  BY DEF Completed, Preserved, Used
<1>4. \A n \in Uses, h \in Records : Recorded(r, n, h) \in Room
  BY DEF Recorded, Used
<1>5. OutcomeGone(r) \in Room /\ HistoryGone(r) \in Room /\ Erased(r) \in Room
  BY DEF OutcomeGone, HistoryGone, Erased
<1>6. \A h \in Records, x \in {"due", "kept"} : Mark(r, h, x) \in Room
  BY DEF Mark
<1>7. \A x \in {"open", "completed", "disbanded"} : [r EXCEPT !.life = x] \in Room
  OBVIOUS
<1>8. \A x \in BOOLEAN : /\ [r EXCEPT !.retry = x] \in Room
                         /\ [r EXCEPT !.viewersDue = x] \in Room
  OBVIOUS
<1>9. [r EXCEPT !.status = "failed", !.retry = TRUE] \in Room
  OBVIOUS
<1> HIDE DEF Room
<1>10. QED BY <1>1, <1>2, <1>3, <1>4, <1>5, <1>6, <1>7, <1>8, <1>9

-----------------------------------------------------------------------------
\* Type correctness.

Sent == [content : Version, used : Uses \cup {0}]
Places == Writers \cup {"none", "end"}

\* The flights a caller advances with: as they are, or one of them over.
Flights(f) ==
  /\ f \in [Writers -> Writer]
  /\ \A w \in Writers : f[w] = writer[w] \/ f[w] = Idle

\* A flight that is left alone, or starts.
GoesOn(flight, w, r) ==
  \/ writer'[w] = flight
  \/ /\ flight.pc = "idle"
     /\ writer'[w].pc = Work(w, r) /\ Work(w, r) # "idle"
     /\ writer'[w].landed = flight.landed

\* What Advance does, whoever goes on.
LEMMA AdvanceEffect ==
  ASSUME NEW ks \in SUBSET Callers, NEW route \in Seq(Writers),
         NEW r \in Room, NEW flights \in [Writers -> Writer],
         Advance(ks, route, r, flights), at \in [Callers -> Places]
  PROVE  /\ at' \in [Callers -> Places]
         /\ writer' \in [Writers -> Writer]
         /\ \A w \in Writers : GoesOn(flights[w], w, r)
         /\ \A k \in Callers : \/ k \notin ks /\ at'[k] = at[k]
                               \/ at'[k] = "end"
                               \/ at'[k] \in Writers /\ writer'[at'[k]].pc # "idle"
         /\ writer'["outcome"].pc # "send" => sent' = NoVersion
         /\ writer'["outcome"].pc = "send" =>
              \/ writer'["outcome"] = flights["outcome"] /\ sent' = sent
              \/ /\ flights["outcome"].pc = "idle" /\ r.retry
                 /\ sent' = [content |-> r.pending, used |-> r.used]
         /\ writer'["history"].pc \in {"idle", "wipe"} => batch' = {}
         /\ writer'["history"].pc \notin {"idle", "wipe"} =>
              \/ writer'["history"] = flights["history"] /\ batch' = batch
              \/ /\ flights["history"].pc = "idle"
                 /\ batch' = Due(r) /\ Due(r) # {}
<1> DEFINE w == IF ks = {} THEN "end" ELSE Stop(route, r, flights)
           starts == w # "end" /\ flights[w].pc = "idle"
           now == IF starts THEN [flights EXCEPT ![w].pc = Work(w, r)] ELSE flights
<1>1. \/ w = "end"
      \/ w \in Writers /\ (flights[w].pc # "idle" \/ Work(w, r) # "idle")
  BY StopsWhereNeeded
<1>2. /\ at' = [k \in Callers |-> IF k \in ks THEN w ELSE at[k]]
      /\ writer' = now
      /\ sent' = IF now["outcome"].pc # "send" THEN NoVersion
                 ELSE IF starts /\ w = "outcome"
                      THEN [content |-> r.pending, used |-> r.used]
                 ELSE sent
      /\ batch' = IF now["history"].pc \in {"idle", "wipe"} THEN {}
                  ELSE IF starts /\ w = "history" THEN Due(r) ELSE batch
  BY DEF Advance
<1>3. "end" \notin Writers /\ "outcome" \in Writers /\ "history" \in Writers
  BY DEF Writers
<1> HIDE DEF w
<1>4. CASE ~starts
  <2>1. now = flights /\ (w # "end" => w \in Writers /\ flights[w].pc # "idle")
    BY <1>1, <1>4
  <2>2. at' \in [Callers -> Places]
    BY <1>2, <2>1 DEF Places
  <2>3. \A k \in Callers : \/ k \notin ks /\ at'[k] = at[k]
                           \/ at'[k] = "end"
                           \/ at'[k] \in Writers /\ writer'[at'[k]].pc # "idle"
    BY <1>2, <2>1
  <2>4. QED BY <1>2, <1>3, <1>4, <2>1, <2>2, <2>3 DEF GoesOn
<1>5. CASE starts
  <2>1. w \in Writers /\ Work(w, r) # "idle" /\ flights[w].pc = "idle"
    BY <1>1, <1>5
  <2>2. Work(w, r) \in {"send", "wipe"}
        /\ (w = "outcome" /\ Work(w, r) = "send" => r.retry)
        /\ (w = "history" /\ Work(w, r) = "send" => Due(r) # {})
    BY <2>1, WorkType
  <2>3. now = [flights EXCEPT ![w].pc = Work(w, r)]
    BY <1>5
  <2> HIDE DEF now, starts
  <2>4. /\ now \in [Writers -> Writer] /\ now[w].pc = Work(w, r)
        /\ now[w].landed = flights[w].landed
        /\ \A v \in Writers \ {w} : now[v] = flights[v]
    BY <2>1, <2>2, <2>3 DEF Writer
  <2>5. at' \in [Callers -> Places]
    BY <1>2, <2>1 DEF Places
  <2>6. \A k \in Callers : \/ k \notin ks /\ at'[k] = at[k]
                           \/ at'[k] \in Writers /\ writer'[at'[k]].pc # "idle"
    BY <1>2, <2>1, <2>2, <2>4
  <2>7. /\ writer'["outcome"].pc # "send" => sent' = NoVersion
        /\ writer'["outcome"].pc = "send" =>
              \/ writer'["outcome"] = flights["outcome"] /\ sent' = sent
              \/ /\ flights["outcome"].pc = "idle" /\ r.retry
                 /\ sent' = [content |-> r.pending, used |-> r.used]
    BY <1>2, <1>3, <1>5, <2>1, <2>2, <2>4
  <2>8. /\ writer'["history"].pc \in {"idle", "wipe"} => batch' = {}
        /\ writer'["history"].pc \notin {"idle", "wipe"} =>
              \/ writer'["history"] = flights["history"] /\ batch' = batch
              \/ /\ flights["history"].pc = "idle"
                 /\ batch' = Due(r) /\ Due(r) # {}
    BY <1>2, <1>3, <1>5, <2>1, <2>2, <2>4
  <2>9. QED BY <1>2, <2>1, <2>4, <2>5, <2>6, <2>7, <2>8 DEF GoesOn
<1>6. QED BY <1>4, <1>5

\* What TypeOK says of the flights and those who wait for them.
FlightsOK ==
  /\ writer \in [Writers -> Writer] /\ sent \in Sent /\ batch \subseteq Records
  /\ at \in [Callers -> Places]
  /\ \A k \in Callers : at[k] \in Writers => writer[at[k]].pc # "idle"
  /\ batch # {} <=> writer["history"].pc \in {"send", "clean"}

LEMMA AdvanceType ==
  ASSUME FlightsOK, NEW ks \in SUBSET Callers, NEW route \in Seq(Writers),
         NEW r \in Room, NEW flights, Flights(flights),
         Advance(ks, route, r, flights),
         \A k \in Callers \ ks :
           at[k] \in Writers => flights[at[k]] = writer[at[k]]
  PROVE  FlightsOK'
<1>0. /\ flights \in [Writers -> Writer] /\ at \in [Callers -> Places]
      /\ "history" \in Writers /\ "outcome" \in Writers /\ "end" \notin Writers
      /\ Idle.pc = "idle"
  BY DEF Flights, FlightsOK, Writers, Idle
<1>1. at' \in [Callers -> Places] /\ writer' \in [Writers -> Writer]
  BY <1>0, AdvanceEffect
<1>2. \A k \in Callers : at'[k] \in Writers => writer'[at'[k]].pc # "idle"
  <2> SUFFICES ASSUME NEW k \in Callers, at'[k] \in Writers
               PROVE  writer'[at'[k]].pc # "idle"
    OBVIOUS
  <2>1. \/ k \notin ks /\ at'[k] = at[k]
        \/ writer'[at'[k]].pc # "idle"
    BY <1>0, AdvanceEffect
  <2>2. CASE k \notin ks /\ at'[k] = at[k]
    <3>1. flights[at[k]].pc # "idle"
      BY <2>2 DEF FlightsOK
    <3>2. \/ writer'[at[k]] = flights[at[k]]
          \/ flights[at[k]].pc = "idle"
      BY <1>0, <2>2, AdvanceEffect DEF GoesOn
    <3>3. QED BY <2>2, <3>1, <3>2
  <2>3. QED BY <2>1, <2>2
<1>3. sent' \in Sent
  <2>1. NoVersion \in Sent /\ [content |-> r.pending, used |-> r.used] \in Sent
    BY DEF NoVersion, Sent, Version, Room
  <2>2. sent' \in {NoVersion, sent, [content |-> r.pending, used |-> r.used]}
    <3>1. writer'["outcome"].pc # "send" => sent' = NoVersion
      BY <1>0, AdvanceEffect
    <3>2. writer'["outcome"].pc = "send" =>
            sent' \in {sent, [content |-> r.pending, used |-> r.used]}
      BY <1>0, AdvanceEffect
    <3>3. QED BY <3>1, <3>2
  <2>3. QED BY <2>1, <2>2 DEF FlightsOK
<1>4. /\ batch' \subseteq Records
      /\ batch' # {} <=> writer'["history"].pc \in {"send", "clean"}
  <2>1. writer'["history"].pc \in {"idle", "send", "clean", "wipe"}
    BY <1>0, <1>1 DEF Writer
  <2>2. CASE writer'["history"].pc \in {"idle", "wipe"}
    <3>1. batch' = {}
      BY <1>0, <2>2, AdvanceEffect
    <3>2. QED BY <2>2, <3>1
  <2>3. CASE writer'["history"].pc \in {"send", "clean"}
    <3>1. \/ writer'["history"] = flights["history"] /\ batch' = batch
          \/ batch' = Due(r) /\ Due(r) # {}
      BY <1>0, <2>3, AdvanceEffect
    <3>2. CASE writer'["history"] = flights["history"] /\ batch' = batch
      <4>1. flights["history"] = writer["history"]
        BY <1>0, <2>3, <3>2 DEF Flights
      <4>2. QED BY <2>3, <3>2, <4>1 DEF FlightsOK
    <3>3. CASE batch' = Due(r) /\ Due(r) # {}
      BY <2>3, <3>3 DEF Due
    <3>4. QED BY <3>1, <3>2, <3>3
  <2>4. QED BY <2>1, <2>2, <2>3
<1>5. QED BY <1>1, <1>2, <1>3, <1>4 DEF FlightsOK

LEMMA Routes ==
  /\ \A w \in Writers : /\ Route(w) \in Seq(Writers)
                        /\ Tail(Route(w)) \in Seq(Writers)
                        /\ <<w>> \in Seq(Writers)
BY DEF Route, Writers

LEMMA FinishType ==
  ASSUME FlightsOK, NEW w \in Writers, Finish(w), room' \in Room
  PROVE  FlightsOK'
<1> DEFINE flights == [writer EXCEPT ![w] = Idle]
           ks == {k \in Callers : at[k] = w}
<1>1. Advance(ks, Tail(Route(w)), room', flights)
  BY DEF Finish
<1>2. Idle \in Writer
  BY DEF Idle, Writer
<1>3. Flights(flights)
  BY <1>2 DEF Flights, FlightsOK
<1>4. \A k \in Callers \ ks : at[k] \in Writers => flights[at[k]] = writer[at[k]]
  BY DEF FlightsOK
<1> HIDE DEF flights, ks
<1>5. ks \in SUBSET Callers
  BY DEF ks
<1>6. QED BY <1>1, <1>3, <1>4, <1>5, Routes, AdvanceType

LEMMA NoNewFlight ==
  ASSUME FlightsOK, UNCHANGED <<writer, sent, batch, at>>
  PROVE  FlightsOK'
BY DEF FlightsOK

LEMMA AlarmType ==
  ASSUME NEW r PROVE SyncAlarm(r) \in {"none", "soon", "expiry"}
BY DEF SyncAlarm

\* The rest of TypeOK.
Plain ==
  /\ room \in Room /\ d1 \in D1
  /\ expired \in BOOLEAN /\ sweep \in BOOLEAN /\ lost \in BOOLEAN
  /\ alarm \in {"none", "soon", "expiry", "ringing"}
  /\ todo \in Seq(Steps)
  /\ visits \in 0..MaxVisits /\ errors \in 0..MaxErrors /\ crashes \in 0..MaxCrashes

LEMMA TypeParts == TypeOK <=> Plain /\ FlightsOK
BY DEF TypeOK, Plain, FlightsOK, Sent, Places

LEMMA TypeInit == Init => TypeOK
<1> SUFFICES ASSUME Init PROVE TypeOK
  OBVIOUS
<1>0. "history" \in Writers
  BY DEF Writers
<1>1. room \in Room
  BY ProjectionAssumption DEF Init, Room, Version, Uses, Nothing
<1>2. d1 \in D1
  BY DEF Init, Empty, D1, Version, Nothing
<1>3. writer \in [Writers -> Writer] /\ sent \in Sent
  BY DEF Init, Writer, Idle, NoVersion, Sent, Version, Nothing
<1>4. Plain
  <2>1. MaxVisits \in Nat /\ MaxErrors \in Nat /\ MaxCrashes \in Nat
    BY ProjectionAssumption
  <2>2. visits \in 0..MaxVisits /\ errors \in 0..MaxErrors /\ crashes \in 0..MaxCrashes
    BY <2>1 DEF Init
  <2>3. todo \in Seq(Steps)
    BY DEF Init
  <2>4. QED BY <1>1, <1>2, <2>2, <2>3 DEF Init, Plain
<1>5. FlightsOK
  BY <1>0, <1>3 DEF Init, FlightsOK, Places, Idle, Writers
<1>6. QED BY <1>4, <1>5, TypeParts

LEMMA UseType ==
  ASSUME TypeOK, Use
  PROVE  TypeOK'
<1>1. Plain /\ FlightsOK
  BY TypeParts
<1>2. FlightsOK'
  <2>1. UNCHANGED Elsewhere
    BY DEF Use, ChangeBoard, ChangeTimer, EndStep, Complete, Disband
  <2>2. QED BY <1>1, <2>1, NoNewFlight DEF Elsewhere
<1>3. alarm' \in {"none", "soon", "expiry", "ringing"}
  BY <1>1 DEF Plain, Use, ChangeBoard, ChangeTimer, EndStep, Complete, Disband, PutOff
<1>4. todo' \in Seq(Steps)
  <2>1. <<"arm">> \in Seq(Steps) /\ <<"record", "preserve">> \in Seq(Steps)
        /\ Append(todo, "arm") \in Seq(Steps)
    BY <1>1 DEF Steps, Plain
  <2>2. todo' \in {<<"arm">>, <<"record", "preserve">>, Append(todo, "arm")}
    BY DEF Use, ChangeBoard, ChangeTimer, EndStep, Complete, Disband
  <2>3. QED BY <2>1, <2>2
<1>5. room' \in Room
  <2>2. room.used \in Nat
    BY <1>1 DEF Uses, Plain, Room
  <2>1. Usable => Later \in Uses
    BY <2>2, ProjectionAssumption DEF Usable, Later, Uses
  <2>3. CASE ChangeBoard
    BY <1>1, <2>1, <2>2, <2>3, RoomOperations DEF ChangeBoard, Plain
  <2>4. CASE ChangeTimer
    BY <1>1, <2>1, <2>2, <2>4, RoomOperations DEF ChangeTimer, Plain
  <2>5. CASE EndStep
    <3>1. PICK h \in Records : room' = Recorded(room, Later, h)
      BY <2>5 DEF EndStep
    <3>2. Later \in Uses /\ room \in Room
      BY <1>1, <2>1, <2>5 DEF EndStep, Plain
    <3>3. QED BY <3>1, <3>2, RoomOperations
  <2>6. CASE Complete
    BY <1>1, <2>1, <2>2, <2>6, RoomOperations DEF Complete, Plain
  <2>7. CASE Disband
    BY <1>1, <2>7, RoomOperations DEF Disband, Plain
  <2>8. QED BY <2>3, <2>4, <2>5, <2>6, <2>7 DEF Use
<1>6. UNCHANGED <<expired, d1, sweep, visits, errors, crashes, lost>>
  BY DEF Use, ChangeBoard, ChangeTimer, EndStep, Complete, Disband, Elsewhere
<1>7. Plain'
  BY <1>1, <1>3, <1>4, <1>5, <1>6 DEF Plain
<1>8. QED BY <1>2, <1>7, TypeParts, PTL

LEMMA GoOnType ==
  ASSUME TypeOK, GoOn
  PROVE  TypeOK'
<1>1. Plain /\ FlightsOK
  BY TypeParts
<1>2. UNCHANGED Elsewhere
  BY DEF GoOn
<1>3. FlightsOK'
  BY <1>1, <1>2, NoNewFlight DEF Elsewhere
<1>4. alarm' \in {"none", "soon", "expiry", "ringing"}
  BY <1>1, AlarmType DEF Plain, GoOn, PutOff
<1>5. todo' \in Seq(Steps)
  <2>1. todo # <<>> /\ todo \in Seq(Steps)
    BY <1>1 DEF GoOn, Plain
  <2>2. Tail(todo) \in Seq(Steps) /\ <<"arm">> \in Seq(Steps)
    BY <2>1 DEF Steps
  <2>3. <<"arm">> \o Tail(todo) \in Seq(Steps)
    BY <2>2
  <2>4. todo' \in {Tail(todo), <<"arm">> \o Tail(todo)}
    BY DEF GoOn
  <2>5. QED BY <2>2, <2>3, <2>4
<1>6. room' \in Room
  BY <1>1, RoomOperations DEF GoOn, Plain
<1>7. Plain'
  BY <1>1, <1>2, <1>4, <1>5, <1>6 DEF Plain, Elsewhere
<1>8. QED BY <1>3, <1>7, TypeParts, PTL

\* The writers and those who call them.

LEMMA LandType ==
  ASSUME TypeOK, NEW w \in Writers, Land(w)
  PROVE  TypeOK'
<1>1. Plain /\ FlightsOK
  BY TypeParts
<1>2. UNCHANGED <<room, expired, alarm, todo, sent, batch, at, sweep, visits,
                  errors, crashes, lost>>
  BY DEF Land
<1>3. "history" \in Writers /\ "outcome" \in Writers
  BY DEF Writers
<1>4. /\ writer' \in [Writers -> Writer]
      /\ \A v \in Writers : writer'[v].pc = writer[v].pc
  BY <1>1 DEF Land, FlightsOK, Writer
<1>5. FlightsOK'
  BY <1>1, <1>2, <1>3, <1>4 DEF FlightsOK
<1>6. d1' \in D1
  <2>1. sent.content \in Version /\ sent.used \in Uses \cup {0} /\ d1 \in D1
        /\ batch \subseteq Records
    BY <1>1 DEF Plain, FlightsOK, Sent
  <2>2. d1' = Landing(w)
    BY DEF Land
  <2>3. CASE w = "outcome"
    BY <2>1, <2>2, <2>3 DEF Landing, D1, Version
  <2>4. CASE w = "history"
    <3>1. writer[w].pc = "send" => Current \in Records
      BY <1>1, <2>1, <2>4, CurrentIsOfBatch DEF FlightsOK
    <3>2. QED BY <2>1, <2>2, <2>4, <3>1 DEF Landing, D1
  <2>5. CASE w = "viewers"
    BY <2>1, <2>2, <2>5 DEF Landing, D1, Empty, Version
  <2>6. QED BY <2>3, <2>4, <2>5 DEF Writers
<1>7. Plain'
  BY <1>1, <1>2, <1>6 DEF Plain
<1>8. QED BY <1>5, <1>7, TypeParts, PTL

LEMMA ProceedType ==
  ASSUME FlightsOK, NEW w \in Writers, writer[w].pc # "idle",
         NEW pc \in {"send", "clean", "wipe"}, Proceed(w, pc),
         w = "outcome" => pc = "clean", batch' \subseteq Records,
         w = "history" => pc # "wipe" /\ batch' # {},
         w # "history" => batch' = batch
  PROVE  FlightsOK'
<1>1. "history" \in Writers
  BY DEF Writers
<1>2. /\ writer' \in [Writers -> Writer] /\ writer'[w].pc = pc
      /\ \A v \in Writers \ {w} : writer'[v] = writer[v]
  BY DEF Proceed, FlightsOK, Writer
<1>3. at' = at /\ sent' = sent
  BY DEF Proceed
<1>4. \A k \in Callers : at'[k] \in Writers => writer'[at'[k]].pc # "idle"
  BY <1>2, <1>3 DEF FlightsOK
<1>5. batch' # {} <=> writer'["history"].pc \in {"send", "clean"}
  BY <1>1, <1>2 DEF FlightsOK
<1>6. QED BY <1>2, <1>3, <1>4, <1>5 DEF FlightsOK

LEMMA AnswerPlain ==
  ASSUME Plain, NEW w, NEW ok, Answered(w, ok), room' \in Room,
         lost' \in BOOLEAN, alarm' \in {"none", "soon", "expiry", "ringing"}
  PROVE  Plain'
<1>1. errors' \in 0..MaxErrors
  BY ProjectionAssumption DEF Plain, Answered
<1>2. UNCHANGED <<expired, d1, todo, sweep, visits, crashes>>
  BY DEF Answered
<1>3. QED BY <1>1, <1>2 DEF Plain

LEMMA FinishAlarm ==
  ASSUME Plain, NEW w, Finish(w)
  PROVE  alarm' \in {"none", "soon", "expiry", "ringing"}
<1>1. alarm' = alarm \/ alarm' = SyncAlarm(room')
  BY DEF Finish
<1>2. QED BY <1>1, AlarmType DEF Plain

LEMMA AnswerOutcomeType ==
  ASSUME TypeOK, NEW ok \in BOOLEAN, AnswerOutcome(ok)
  PROVE  TypeOK'
<1> DEFINE pc == writer["outcome"].pc
<1>1. Plain /\ FlightsOK /\ room \in Room
  BY TypeParts DEF Plain
<1>2. Answered("outcome", ok) /\ "outcome" \in Writers /\ lost' \in BOOLEAN
  BY <1>1 DEF AnswerOutcome, Writers, Plain
<1>3. CASE ok /\ pc = "send" /\ expired
  <2>1. Proceed("outcome", "clean") /\ UNCHANGED <<room, batch>>
    BY <1>3 DEF AnswerOutcome
  <2>2. FlightsOK'
    <3>1. batch' \subseteq Records /\ writer["outcome"].pc # "idle"
      BY <1>1, <1>2, <2>1 DEF FlightsOK, Answered
    <3>2. QED BY <1>1, <1>2, <2>1, <3>1, ProceedType
  <2>3. Plain'
    BY <1>1, <1>2, <2>1, AnswerPlain DEF Proceed, Plain
  <2>4. QED BY <2>2, <2>3, TypeParts, PTL
<1>4. CASE ~(ok /\ pc = "send" /\ expired)
  <2>1. /\ room' = IF ok
                   THEN IF pc = "send" THEN Acknowledged(room) ELSE OutcomeGone(room)
                   ELSE IF pc = "wipe" THEN [room EXCEPT !.retry = TRUE]
                        ELSE [room EXCEPT !.status = "failed", !.retry = TRUE]
        /\ Finish("outcome")
    BY <1>4 DEF AnswerOutcome
  <2>2. Acknowledged(room) \in Room
    <3>1. sent.content \in Version
      BY <1>1 DEF FlightsOK, Sent
    <3>2. QED BY <1>1, <3>1 DEF Acknowledged, Room, Version
  <2>3. room' \in Room
    BY <1>1, <2>1, <2>2, RoomOperations
  <2>4. FlightsOK'
    BY <1>1, <1>2, <2>1, <2>3, FinishType
  <2>5. Plain'
    BY <1>1, <1>2, <2>1, <2>3, FinishAlarm, AnswerPlain
  <2>6. QED BY <2>4, <2>5, TypeParts, PTL
<1>5. QED BY <1>3, <1>4

LEMMA NextRecordType ==
  ASSUME FlightsOK, writer["history"].pc \in {"send", "clean"},
         room' \in Room, NextRecord
  PROVE  FlightsOK'
<1>1. "history" \in Writers /\ batch # {} /\ batch \subseteq Records
  BY DEF FlightsOK, Writers
<1>2. Current \in batch
  BY <1>1, CurrentIsOfBatch
<1>3. CASE batch = {Current}
  BY <1>1, <1>3, FinishType DEF NextRecord
<1>4. CASE batch # {Current}
  <2>1. /\ batch' = batch \ {Current}
        /\ Proceed("history", IF expired THEN "clean" ELSE "send")
    BY <1>4 DEF NextRecord
  <2>2. batch' # {} /\ batch' \subseteq Records
    BY <1>1, <1>2, <1>4, <2>1
  <2>3. (IF expired THEN "clean" ELSE "send") \in {"send", "clean"}
    OBVIOUS
  <2>4. QED BY <1>1, <2>1, <2>2, <2>3, ProceedType
<1>5. QED BY <1>3, <1>4

LEMMA NextRecordAlarm ==
  ASSUME Plain, NextRecord
  PROVE  alarm' \in {"none", "soon", "expiry", "ringing"}
BY FinishAlarm DEF NextRecord, Proceed, Plain

LEMMA AnswerHistoryType ==
  ASSUME TypeOK, NEW ok \in BOOLEAN, AnswerHistory(ok)
  PROVE  TypeOK'
<1> DEFINE pc == writer["history"].pc
<1>1. Plain /\ FlightsOK /\ room \in Room
  BY TypeParts DEF Plain
<1>2. Answered("history", ok) /\ "history" \in Writers /\ lost' \in BOOLEAN
  BY <1>1 DEF AnswerHistory, Writers, Plain
<1>3. pc \in {"send", "clean", "wipe"}
  BY <1>1, <1>2 DEF Answered, FlightsOK, Writer
<1>4. pc # "wipe" => Current \in Records
  BY <1>1, <1>3, CurrentIsOfBatch DEF FlightsOK
<1>5. ASSUME ok, pc = "send", expired, Proceed("history", "clean"),
             UNCHANGED <<room, batch>>
      PROVE  TypeOK'
  <2>1. batch' \subseteq Records /\ batch' # {}
    BY <1>1, <1>5 DEF FlightsOK
  <2>2. FlightsOK'
    BY <1>1, <1>2, <1>5, <2>1, ProceedType
  <2>3. Plain'
    BY <1>1, <1>2, <1>5, AnswerPlain DEF Proceed, Plain
  <2>4. QED BY <2>2, <2>3, TypeParts, PTL
<1>6. ASSUME pc # "wipe", NEW x \in {"due", "kept"}, room' = Mark(room, Current, x),
             NextRecord
      PROVE  TypeOK'
  <2>1. room' \in Room
    BY <1>1, <1>4, <1>6, RoomOperations
  <2>2. FlightsOK'
    BY <1>1, <1>3, <1>6, <2>1, NextRecordType
  <2>3. Plain'
    BY <1>1, <1>2, <1>6, <2>1, NextRecordAlarm, AnswerPlain
  <2>4. QED BY <2>2, <2>3, TypeParts, PTL
<1>7. ASSUME room' \in {HistoryGone(room), [room EXCEPT !.retry = TRUE]},
             Finish("history")
      PROVE  TypeOK'
  <2>1. room' \in Room
    BY <1>1, <1>7, RoomOperations
  <2>2. FlightsOK'
    BY <1>1, <1>2, <1>7, <2>1, FinishType
  <2>3. Plain'
    BY <1>1, <1>2, <1>7, <2>1, FinishAlarm, AnswerPlain
  <2>4. QED BY <2>2, <2>3, TypeParts, PTL
<1>8. \/ /\ ok /\ pc = "send" /\ expired
         /\ Proceed("history", "clean")
         /\ UNCHANGED <<room, batch>>
      \/ /\ ok /\ pc = "send" /\ ~expired
         /\ room' = Mark(room, Current, "kept")
         /\ NextRecord
      \/ /\ ok /\ pc # "send"
         /\ room' = HistoryGone(room)
         /\ Finish("history")
      \/ /\ ~ok /\ pc # "wipe"
         /\ room' = Mark(room, Current, "due")
         /\ NextRecord
      \/ /\ ~ok /\ pc = "wipe"
         /\ room' = [room EXCEPT !.retry = TRUE]
         /\ Finish("history")
  BY DEF AnswerHistory
<1> HIDE DEF pc
<1>9. QED BY <1>5, <1>6, <1>7, <1>8

LEMMA AnswerViewersType ==
  ASSUME TypeOK, NEW ok \in BOOLEAN, AnswerViewers(ok)
  PROVE  TypeOK'
<1> DEFINE pc == writer["viewers"].pc
<1>1. Plain /\ FlightsOK /\ room \in Room
  BY TypeParts DEF Plain
<1>2. Answered("viewers", ok) /\ "viewers" \in Writers /\ lost' \in BOOLEAN
  BY <1>1 DEF AnswerViewers, Writers, Plain
<1>3. CASE ok /\ pc = "send" /\ expired
  <2>1. Proceed("viewers", "wipe") /\ UNCHANGED <<room, batch>>
    BY <1>3 DEF AnswerViewers
  <2>2. FlightsOK'
    <3>1. batch' \subseteq Records /\ writer["viewers"].pc # "idle"
      BY <1>1, <1>2, <2>1 DEF FlightsOK, Answered
    <3>2. QED BY <1>1, <1>2, <2>1, <3>1, ProceedType
  <2>3. Plain'
    BY <1>1, <1>2, <2>1, AnswerPlain DEF Proceed, Plain
  <2>4. QED BY <2>2, <2>3, TypeParts, PTL
<1>4. CASE ~(ok /\ pc = "send" /\ expired)
  <2>1. /\ room' = IF ok /\ pc = "wipe" THEN Erased(room)
                   ELSE [room EXCEPT !.viewersDue = ~ok]
        /\ Finish("viewers")
    BY <1>4 DEF AnswerViewers
  <2>2. room' \in Room
    BY <1>1, <2>1, RoomOperations
  <2>3. FlightsOK'
    BY <1>1, <1>2, <2>1, <2>2, FinishType
  <2>4. Plain'
    BY <1>1, <1>2, <2>1, <2>2, FinishAlarm, AnswerPlain
  <2>5. QED BY <2>3, <2>4, TypeParts, PTL
<1>5. QED BY <1>3, <1>4

LEMMA EnterType ==
  ASSUME FlightsOK, room \in Room, NEW k \in Callers, NEW route \in Seq(Writers),
         Advance({k}, route, room, writer)
  PROVE  FlightsOK'
<1>1. Flights(writer)
  BY DEF Flights, FlightsOK
<1>2. QED BY <1>1, AdvanceType

LEMMA CallType ==
  ASSUME TypeOK, Ring \/ Visit \/ Leave \/ \E w \in Writers : Look(w)
  PROVE  TypeOK'
<1>1. Plain /\ FlightsOK /\ room \in Room /\ MaxVisits \in Nat
  BY TypeParts, ProjectionAssumption DEF Plain
<1>2. PICK k \in Callers, route \in Seq(Writers) : Enter(k, route)
  BY Routes DEF Ring, Visit, Leave, Look, Callers, Writers
<1>3. FlightsOK'
  BY <1>1, <1>2, EnterType DEF Enter
<1>4. alarm' \in {"none", "soon", "expiry", "ringing"}
  BY <1>1, AlarmType DEF Plain, Ring, Visit, Leave, Look
<1>5. visits' \in 0..MaxVisits
  <2>1. visits' = visits \/ (visits < MaxVisits /\ visits' = visits + 1)
    BY DEF Ring, Visit, Leave, Look
  <2>2. QED BY <1>1, <2>1 DEF Plain
<1>6. sweep' \in BOOLEAN
  BY <1>1 DEF Plain, Ring, Visit, Leave, Look
<1>7. UNCHANGED <<room, expired, d1, todo, errors, crashes, lost>>
  BY <1>2 DEF Enter
<1>8. Plain'
  BY <1>1, <1>4, <1>5, <1>6, <1>7 DEF Plain
<1>9. QED BY <1>3, <1>8, TypeParts, PTL

LEMMA ReturnType ==
  ASSUME TypeOK, NEW k \in Callers, Return(k)
  PROVE  TypeOK'
<1>1. Plain /\ FlightsOK /\ room \in Room
  BY TypeParts DEF Plain
<1>2. FlightsOK'
  <2>1. CASE Advance({k}, Route("outcome"), room, writer)
    BY <1>1, <2>1, Routes, EnterType DEF Writers
  <2>2. CASE at' = [at EXCEPT ![k] = "none"] /\ UNCHANGED <<writer, sent, batch>>
    BY <1>1, <2>2 DEF FlightsOK, Places, Writers
  <2>3. QED BY <2>1, <2>2 DEF Return
<1>3. alarm' \in {"none", "soon", "expiry", "ringing"}
  BY <1>1, AlarmType DEF Plain, Return
<1>4. sweep' \in BOOLEAN
  BY <1>1 DEF Plain, Return
<1>5. UNCHANGED <<room, expired, d1, todo, visits, errors, crashes, lost>>
  BY DEF Return
<1>6. Plain'
  BY <1>1, <1>3, <1>4, <1>5 DEF Plain
<1>7. QED BY <1>2, <1>6, TypeParts, PTL

LEMMA CrashType ==
  ASSUME TypeOK, Crash
  PROVE  TypeOK'
<1>1. Plain /\ FlightsOK
  BY TypeParts
<1>2. FlightsOK'
  <2>1. /\ writer' \in [Writers -> Writer]
        /\ \A w \in Writers : writer'[w].pc = "idle"
    BY DEF Crash, Writer, Idle
  <2>2. sent' \in Sent
    BY DEF Crash, Sent, NoVersion, Version
  <2>3. batch' = {} /\ at' = [k \in Callers |-> "none"]
    BY DEF Crash
  <2>4. QED BY <2>1, <2>2, <2>3 DEF FlightsOK, Places, Writers
<1>3. crashes' \in 0..MaxCrashes
  BY <1>1, ProjectionAssumption DEF Plain, Crash
<1>4. todo' \in Seq(Steps) /\ sweep' \in BOOLEAN /\ lost' \in BOOLEAN
      /\ alarm' \in {"none", "soon", "expiry", "ringing"}
  <2>1. todo' = <<>> /\ <<>> \in Seq(Steps)
    BY DEF Crash
  <2>2. QED BY <1>1, <2>1 DEF Plain, Crash
<1>5. UNCHANGED <<room, expired, d1, visits, errors>>
  BY DEF Crash
<1>6. Plain'
  BY <1>1, <1>3, <1>4, <1>5 DEF Plain
<1>7. QED BY <1>2, <1>6, TypeParts, PTL

LEMMA TypeNext == TypeOK /\ [Next]_vars => TypeOK'
<1> SUFFICES ASSUME TypeOK, [Next]_vars PROVE TypeOK'
  OBVIOUS
<1>1. CASE Use
  BY <1>1, UseType
<1>2. CASE GoOn
  BY <1>2, GoOnType
<1>3. CASE Expire
  BY <1>3 DEF Expire, TypeOK
<1>4. ASSUME NEW w \in Writers, Land(w) PROVE TypeOK'
  BY <1>4, LandType
<1>5. ASSUME NEW w \in Writers, NEW ok \in BOOLEAN, Answer(w, ok) PROVE TypeOK'
  BY <1>5, AnswerOutcomeType, AnswerHistoryType, AnswerViewersType DEF Answer
<1>6. CASE Ring \/ Visit \/ Leave \/ \E w \in Writers : Look(w)
  BY <1>6, CallType
<1>7. ASSUME NEW k \in Callers, Return(k) PROVE TypeOK'
  BY <1>7, ReturnType
<1>8. CASE Crash
  BY <1>8, CrashType
<1>9. CASE UNCHANGED vars
  BY <1>9 DEF vars, TypeOK
<1>10. QED BY <1>1, <1>2, <1>3, <1>4, <1>5, <1>6, <1>7, <1>8, <1>9 DEF Next

\* The three writers and those who wait for them never get out of step: nobody
\* waits for a flight that is over, and a batch is under way exactly as long as
\* records are left of it (flush of shared-outcome-storage.ts,
\* progress-history.ts and completed-rooms.ts).
THEOREM ProjectionTypeCorrect == Spec => []TypeOK
<1>1. QED BY TypeInit, TypeNext, PTL DEF Spec

-----------------------------------------------------------------------------
(***************************************************************************)
(* What is acknowledged is there.  The row of the room, what D1 holds and  *)
(* the version on its way move apart and together again: D1 never holds    *)
(* more than is pending, and exactly what is saved if nothing is; a        *)
(* version on its way is at least what D1 holds and at most what is        *)
(* pending, so that it may be carried out at any time; while it is on its  *)
(* way the outcome's deadline is set, so that ~retry is about D1 as it is. *)
(***************************************************************************)
KeptIn(r, d) ==
  /\ d.content <= r.used /\ r.pending <= r.used
  /\ r.pending # Nothing => d.content <= r.pending
  /\ r.pending = Nothing => d.content = r.saved
  /\ r.saved <= d.content
  /\ r.status = "saved" => r.pending = Nothing
  /\ ~r.retry => d.used = r.used

FlightOf(r, d, f, s) ==
  /\ s.content <= r.used
  /\ f.pc = "send" => r.retry
  /\ f.pc # "send" => s = NoVersion
  /\ f.pc = "send" /\ s.content # Nothing =>
       d.content <= s.content /\ s.content <= r.pending
  /\ f.pc = "send" /\ f.landed =>
       /\ s.content # Nothing => d.content = s.content
       /\ d.used = s.used

Recalled(r, d) ==
  /\ \A h \in Records : r.outbox[h] = "kept" => h \in d.history
  /\ r.completion = "fixed" /\ ~r.viewersDue => d.viewers

FlightsTrue ==
  \A w \in Writers : /\ writer[w].pc \in {"clean", "wipe"} => expired
                     /\ writer[w].pc = "idle" => ~writer[w].landed

HistoryFlight ==
  writer["history"].pc = "send" /\ writer["history"].landed => Current \in d1.history
ViewersFlight ==
  writer["viewers"].pc = "send" /\ writer["viewers"].landed => d1.viewers

InUse ==
  /\ KeptIn(room, d1) /\ FlightOf(room, d1, writer["outcome"], sent)
  /\ Recalled(room, d1) /\ HistoryFlight /\ ViewersFlight

AckInv == TypeOK /\ FlightsTrue /\ (~expired => InUse)

LEMMA AckInit == Init => AckInv
<1> SUFFICES ASSUME Init PROVE AckInv
  OBVIOUS
<1>1. TypeOK
  BY TypeInit
<1>2. \A w \in Writers : writer[w].pc = "idle" /\ ~writer[w].landed
  BY DEF Init, Idle
<1>3. KeptIn(room, d1) /\ Recalled(room, d1)
  BY DEF Init, KeptIn, Recalled, Empty, Nothing
<1>4. FlightOf(room, d1, writer["outcome"], sent)
  BY <1>2 DEF Init, FlightOf, NoVersion, Writers, Nothing
<1>5. QED BY <1>1, <1>2, <1>3, <1>4
          DEF AckInv, InUse, FlightsTrue, HistoryFlight, ViewersFlight, Writers

\* A use of the room is later than all that is known of it.
LEMMA UseKeeps ==
  ASSUME NEW r \in Room, NEW d \in D1, NEW s \in Sent, NEW f, NEW n \in Uses,
         r.used <= n, KeptIn(r, d), FlightOf(r, d, f, s),
         NEW q \in Room, q.used = n, q.retry, q.saved = r.saved,
         \/ q.pending = r.pending /\ q.status = r.status
         \/ q.pending = n /\ q.status = "pending"
  PROVE  KeptIn(q, d) /\ FlightOf(q, d, f, s)
<1>1. /\ r.used \in Nat /\ r.pending \in Nat /\ r.saved \in Nat /\ n \in Nat /\ n # 0
      /\ d.content \in Nat /\ s.content \in Nat
  BY ProjectionAssumption DEF Room, D1, Sent, Version, Uses, Nothing
<1>2. d.content <= n /\ q.pending <= n /\ s.content <= n
  BY <1>1 DEF KeptIn, FlightOf
<1>3. KeptIn(q, d)
  BY <1>1, <1>2 DEF KeptIn, Nothing
<1>4. FlightOf(q, d, f, s)
  BY <1>1, <1>2 DEF FlightOf, Nothing
<1>5. QED BY <1>3, <1>4

\* Nothing that is said of the outcome changes.
LEMMA SameKeeps ==
  ASSUME NEW r \in Room, NEW q \in Room, NEW d, NEW s, NEW f,
         q.used = r.used, q.pending = r.pending, q.saved = r.saved,
         q.status = r.status \/ q.status # "saved", q.retry = r.retry \/ q.retry,
         KeptIn(r, d)
  PROVE  /\ KeptIn(q, d)
         /\ FlightOf(r, d, f, s) => FlightOf(q, d, f, s)
<1>1. KeptIn(q, d)
  BY DEF KeptIn
<1>2. FlightOf(r, d, f, s) => FlightOf(q, d, f, s)
  BY DEF FlightOf
<1>3. QED BY <1>1, <1>2

\* The outcome's writer, told that its version is in D1.
LEMMA AcknowledgedKeeps ==
  ASSUME NEW r \in Room, NEW d \in D1, sent \in Sent, NEW f,
         KeptIn(r, d), FlightOf(r, d, f, sent), f.pc = "send", f.landed
  PROVE  KeptIn(Acknowledged(r), d)
<1> DEFINE q == Acknowledged(r)
           same == r.pending = sent.content
<1>1. /\ r.used \in Nat /\ r.pending \in Nat /\ r.saved \in Nat
      /\ d.content \in Nat /\ sent.content \in Nat
  BY ProjectionAssumption DEF Room, D1, Sent, Version, Uses, Nothing
<1>2. /\ q.used = r.used
      /\ q.saved = IF sent.content = Nothing THEN r.saved ELSE sent.content
      /\ q.status = IF same THEN "saved" ELSE "pending"
      /\ q.retry = ~(same /\ r.used = sent.used)
      /\ q.pending = IF same THEN Nothing ELSE r.pending
  BY DEF Acknowledged, Room
<1>3. d.used = sent.used /\ (sent.content # Nothing => d.content = sent.content)
  BY DEF FlightOf
<1>4. sent.content # Nothing => sent.content <= r.pending
  BY DEF FlightOf
<1> HIDE DEF q
<1>5. d.content <= q.used /\ q.pending <= q.used
  BY <1>1, <1>2 DEF KeptIn, Nothing
<1>6. q.saved <= d.content /\ (q.pending = Nothing => d.content = q.saved)
  BY <1>1, <1>2, <1>3, <1>4 DEF KeptIn, Nothing
<1>7. q.pending # Nothing => d.content <= q.pending
  BY <1>1, <1>2, <1>3, <1>4 DEF KeptIn, Nothing
<1>8. (q.status = "saved" => q.pending = Nothing) /\ (~q.retry => d.used = q.used)
  BY <1>2, <1>3
<1>9. QED BY <1>5, <1>6, <1>7, <1>8 DEF KeptIn, q

\* Whoever goes on finds the flights as they should be, and leaves them so: a
\* flight that starts sends what is pending now, and has not landed.
LEMMA AdvanceFlights ==
  ASSUME AckInv, NEW ks \in SUBSET Callers, NEW route \in Seq(Writers),
         NEW flights, Flights(flights), NEW r \in Room,
         Advance(ks, route, r, flights), d1' = d1, expired' = expired,
         ~expired =>
           /\ KeptIn(r, d1)
           /\ flights["outcome"].pc # "idle" =>
                FlightOf(r, d1, writer["outcome"], sent)
  PROVE  /\ FlightsTrue'
         /\ ~expired => /\ FlightOf(r, d1, writer'["outcome"], sent')
                        /\ HistoryFlight' /\ ViewersFlight'
<1>1. /\ flights \in [Writers -> Writer] /\ at \in [Callers -> Places]
      /\ "history" \in Writers /\ "outcome" \in Writers /\ "viewers" \in Writers
      /\ Idle.pc = "idle" /\ ~Idle.landed
  BY TypeParts DEF AckInv, Flights, FlightsOK, Writers, Idle
<1>2. \A w \in Writers : flights[w].pc = "idle" => ~flights[w].landed
  BY <1>1 DEF AckInv, FlightsTrue, Flights
<1>3. \A w \in Writers : GoesOn(flights[w], w, r)
  BY <1>1, AdvanceEffect
<1>4. \A w \in Writers :
        \/ writer'[w] = flights[w]
        \/ /\ flights[w].pc = "idle"
           /\ writer'[w].pc = Work(w, r) /\ Work(w, r) # "idle"
           /\ writer'[w].landed = flights[w].landed
  BY <1>3, Zenon DEF GoesOn
<1>5. FlightsTrue'
  <2> SUFFICES ASSUME NEW w \in Writers
               PROVE  /\ writer'[w].pc \in {"clean", "wipe"} => expired
                      /\ writer'[w].pc = "idle" => ~writer'[w].landed
    BY DEF FlightsTrue
  <2>1. CASE writer'[w] = flights[w]
    BY <1>1, <1>2, <2>1 DEF AckInv, FlightsTrue, Flights
  <2>2. CASE writer'[w].pc = Work(w, r) /\ Work(w, r) # "idle"
    BY <2>2, WorkType
  <2>3. QED BY <1>4, <2>1, <2>2
<1>6. ASSUME ~expired
      PROVE  /\ FlightOf(r, d1, writer'["outcome"], sent')
             /\ HistoryFlight' /\ ViewersFlight'
  <2>1. KeptIn(r, d1)
        /\ (flights["outcome"].pc # "idle" => FlightOf(r, d1, writer["outcome"], sent))
    BY <1>6
  <2>2. InUse
    BY <1>6 DEF AckInv
  <2>3. FlightOf(r, d1, writer'["outcome"], sent')
    <3>1. /\ r.used \in Nat /\ r.pending \in Nat /\ d1.content \in Nat
      <4>1. d1 \in D1
        BY DEF AckInv, TypeOK
      <4>2. QED BY <4>1, ProjectionAssumption DEF Room, D1, Version, Uses, Nothing
    <3>2. CASE writer'["outcome"].pc # "send"
      <4>1. sent' = NoVersion
        BY <1>1, <3>2, AdvanceEffect
      <4>2. QED BY <3>1, <3>2, <4>1 DEF FlightOf, NoVersion, Nothing
    <3>3. CASE writer'["outcome"].pc = "send"
      <4>1. \/ writer'["outcome"] = flights["outcome"] /\ sent' = sent
            \/ /\ flights["outcome"].pc = "idle" /\ r.retry
               /\ sent' = [content |-> r.pending, used |-> r.used]
        BY <1>1, <3>3, AdvanceEffect
      <4>2. CASE writer'["outcome"] = flights["outcome"] /\ sent' = sent
        <5>1. flights["outcome"].pc # "idle" /\ flights["outcome"] = writer["outcome"]
          BY <1>1, <3>3, <4>2 DEF Flights
        <5>2. QED BY <2>1, <4>2, <5>1
      <4>3. CASE /\ flights["outcome"].pc = "idle" /\ r.retry
                 /\ sent' = [content |-> r.pending, used |-> r.used]
        <5>1. ~writer'["outcome"].landed
          BY <1>1, <1>2, <1>4, <3>3, <4>3
        <5>2. sent'.content = r.pending
          BY <4>3
        <5>3. QED BY <2>1, <3>1, <3>3, <4>3, <5>1, <5>2 DEF FlightOf, KeptIn
      <4>4. QED BY <4>1, <4>2, <4>3
    <3>4. QED BY <3>2, <3>3
  <2>4. HistoryFlight'
    <3> SUFFICES ASSUME writer'["history"].pc = "send", writer'["history"].landed
                 PROVE  Current' \in d1.history
      BY DEF HistoryFlight
    <3>1. flights["history"].pc # "idle" /\ writer'["history"] = flights["history"]
      BY <1>1, <1>2, <1>4
    <3>2. flights["history"] = writer["history"]
      BY <1>1, <3>1 DEF Flights
    <3>3. batch' = batch
      BY <1>1, <3>1, AdvanceEffect
    <3>4. QED BY <2>2, <3>1, <3>2, <3>3 DEF InUse, HistoryFlight, Current
  <2>5. ViewersFlight'
    <3> SUFFICES ASSUME writer'["viewers"].pc = "send", writer'["viewers"].landed
                 PROVE  d1.viewers
      BY DEF ViewersFlight
    <3>1. flights["viewers"].pc # "idle" /\ writer'["viewers"] = flights["viewers"]
      BY <1>1, <1>2, <1>4
    <3>2. flights["viewers"] = writer["viewers"]
      BY <1>1, <3>1 DEF Flights
    <3>3. QED BY <2>2, <3>1, <3>2 DEF InUse, ViewersFlight
  <2>6. QED BY <2>3, <2>4, <2>5
<1>7. QED BY <1>5, <1>6

LEMMA AdvanceKeeps ==
  ASSUME AckInv, TypeOK', NEW ks \in SUBSET Callers, NEW route \in Seq(Writers),
         NEW flights, Flights(flights), Advance(ks, route, room', flights),
         d1' = d1, expired' = expired,
         ~expired =>
           /\ KeptIn(room', d1) /\ Recalled(room', d1)
           /\ flights["outcome"].pc # "idle" =>
                FlightOf(room', d1, writer["outcome"], sent)
  PROVE  AckInv'
<1>1. room' \in Room
  BY DEF TypeOK
<1>2. /\ FlightsTrue'
      /\ ~expired => /\ FlightOf(room', d1, writer'["outcome"], sent')
                     /\ HistoryFlight' /\ ViewersFlight'
  BY <1>1, AdvanceFlights
<1>3. ~expired' => InUse'
  BY <1>2 DEF InUse
<1>4. QED BY <1>2, <1>3 DEF AckInv

LEMMA FinishKeeps ==
  ASSUME AckInv, TypeOK', NEW w \in Writers, Finish(w),
         d1' = d1, expired' = expired,
         ~expired =>
           /\ KeptIn(room', d1) /\ Recalled(room', d1)
           /\ w # "outcome" => FlightOf(room', d1, writer["outcome"], sent)
  PROVE  AckInv'
<1> DEFINE flights == [writer EXCEPT ![w] = Idle]
           ks == {k \in Callers : at[k] = w}
<1>1. Advance(ks, Tail(Route(w)), room', flights) /\ ks \in SUBSET Callers
  BY DEF Finish
<1>2. FlightsOK /\ "outcome" \in Writers
  BY TypeParts DEF AckInv, Writers
<1>3. Flights(flights)
  <2>1. Idle \in Writer
    BY DEF Idle, Writer
  <2>2. QED BY <1>2, <2>1 DEF Flights, FlightsOK
<1>4. flights["outcome"].pc # "idle" => w # "outcome"
  BY <1>2 DEF FlightsOK, Idle
<1> HIDE DEF flights, ks
<1>5. QED BY <1>1, <1>3, <1>4, Routes, AdvanceKeeps

LEMMA EnterKeeps ==
  ASSUME AckInv, TypeOK', NEW k \in Callers, NEW route \in Seq(Writers),
         Advance({k}, route, room, writer), UNCHANGED <<room, d1, expired>>
  PROVE  AckInv'
<1>1. Flights(writer)
  BY TypeParts DEF AckInv, Flights, FlightsOK
<1>2. Advance({k}, route, room', writer)
  OBVIOUS
<1>3. ~expired => /\ KeptIn(room', d1) /\ Recalled(room', d1)
                  /\ FlightOf(room', d1, writer["outcome"], sent)
  BY DEF AckInv, InUse
<1>4. QED BY <1>1, <1>2, <1>3, AdvanceKeeps

\* A flight that goes on: nothing has landed of its next call.
LEMMA ProceedKeeps ==
  ASSUME AckInv, TypeOK', NEW w \in Writers, NEW pc \in {"send", "clean", "wipe"},
         Proceed(w, pc), expired \/ (pc = "send" /\ w = "history"), d1' = d1, expired' = expired,
         ~expired => /\ KeptIn(room', d1) /\ Recalled(room', d1)
                     /\ FlightOf(room', d1, writer["outcome"], sent)
  PROVE  AckInv'
<1>1. /\ FlightsOK /\ "outcome" \in Writers /\ "viewers" \in Writers
      /\ "history" \in Writers
  BY TypeParts DEF AckInv, Writers
<1>2. /\ writer'[w].pc = pc /\ ~writer'[w].landed
      /\ \A v \in Writers \ {w} : writer'[v] = writer[v]
      /\ sent' = sent
  BY <1>1 DEF Proceed, FlightsOK, Writer
<1>3. FlightsTrue'
  BY <1>2 DEF FlightsTrue, AckInv
<1>4. ASSUME ~expired
      PROVE  InUse'
  <2>1. w = "history"
    BY <1>4
  <2>2. writer'["outcome"] = writer["outcome"] /\ writer'["viewers"] = writer["viewers"]
        /\ ~writer'["history"].landed
    BY <1>1, <1>2, <2>1
  <2>3. KeptIn(room, d1)' /\ FlightOf(room, d1, writer["outcome"], sent)'
        /\ Recalled(room, d1)'
    BY <1>2, <1>4, <2>2
  <2>4. HistoryFlight' /\ ViewersFlight'
    BY <1>4, <2>2 DEF AckInv, InUse, HistoryFlight, ViewersFlight
  <2>5. QED BY <2>3, <2>4 DEF InUse
<1>5. QED BY <1>3, <1>4 DEF AckInv

\* The flights stand still while the room is used.
LEMMA RoomMoves ==
  ASSUME AckInv, TypeOK', UNCHANGED <<expired, d1, writer, sent, batch>>,
         ~expired => /\ KeptIn(room', d1) /\ Recalled(room', d1)
                     /\ FlightOf(room', d1, writer["outcome"], sent)
  PROVE  AckInv'
<1>1. FlightsTrue'
  BY DEF AckInv, FlightsTrue
<1>2. ~expired => InUse'
  <2> SUFFICES ASSUME ~expired PROVE InUse'
    OBVIOUS
  <2>1. HistoryFlight' /\ ViewersFlight'
    BY DEF AckInv, InUse, HistoryFlight, ViewersFlight, Current
  <2>2. QED BY <2>1 DEF InUse
<1>3. QED BY <1>1, <1>2 DEF AckInv

\* A use, with all that handlers preserve of it.
LEMMA UseMoves ==
  ASSUME AckInv, TypeOK', UNCHANGED <<expired, d1, writer, sent, batch>>,
         NEW n \in Uses, room.used <= n,
         room'.used = n, room'.retry, room'.saved = room.saved,
         \/ room'.pending = room.pending /\ room'.status = room.status
         \/ room'.pending = n /\ room'.status = "pending",
         ~expired => Recalled(room', d1)
  PROVE  AckInv'
<1>1. room \in Room /\ room' \in Room /\ d1 \in D1 /\ sent \in Sent
  BY TypeParts DEF AckInv, TypeOK, FlightsOK
<1>2. ~expired => KeptIn(room', d1) /\ FlightOf(room', d1, writer["outcome"], sent)
  <2> SUFFICES ASSUME ~expired
               PROVE  KeptIn(room', d1) /\ FlightOf(room', d1, writer["outcome"], sent)
    OBVIOUS
  <2>1. KeptIn(room, d1) /\ FlightOf(room, d1, writer["outcome"], sent)
    BY DEF AckInv, InUse
  <2>2. QED BY <1>1, <2>1, UseKeeps
<1>3. QED BY <1>2, RoomMoves

LEMMA UsedFields ==
  ASSUME NEW r \in Room, NEW n \in Uses
  PROVE  /\ Used(r, n).used = n /\ Used(r, n).retry /\ Used(r, n).saved = r.saved
         /\ Used(r, n).pending = r.pending /\ Used(r, n).status = r.status
         /\ Used(r, n).outbox = r.outbox /\ Used(r, n).completion = r.completion
         /\ Used(r, n).viewersDue = r.viewersDue
BY DEF Used, Room

LEMMA PreservedFields ==
  ASSUME NEW r \in Room, NEW n \in Uses
  PROVE  /\ Preserved(r, n).used = n /\ Preserved(r, n).retry
         /\ Preserved(r, n).saved = r.saved
         /\ Preserved(r, n).pending = n /\ Preserved(r, n).status = "pending"
         /\ Preserved(r, n).outbox = r.outbox
         /\ Preserved(r, n).completion = r.completion
         /\ Preserved(r, n).viewersDue = r.viewersDue
BY DEF Preserved, Used, Room

LEMMA CompletedFields ==
  ASSUME NEW r \in Room, NEW n \in Uses
  PROVE  /\ Completed(r, n).used = n /\ Completed(r, n).retry
         /\ Completed(r, n).saved = r.saved
         /\ Completed(r, n).pending = n /\ Completed(r, n).status = "pending"
         /\ Completed(r, n).outbox = r.outbox
         /\ Completed(r, n).viewersDue
BY DEF Completed, Preserved, Used, Room

LEMMA RecordedFields ==
  ASSUME NEW r \in Room, NEW n \in Uses, NEW h \in Records
  PROVE  /\ Recorded(r, n, h).used = n /\ Recorded(r, n, h).retry
         /\ Recorded(r, n, h).saved = r.saved
         /\ Recorded(r, n, h).pending = r.pending /\ Recorded(r, n, h).status = r.status
         /\ \A g \in Records : Recorded(r, n, h).outbox[g] = "kept" =>
                                 r.outbox[g] = "kept"
         /\ Recorded(r, n, h).completion = r.completion
         /\ Recorded(r, n, h).viewersDue = r.viewersDue
BY DEF Recorded, Used, Room

LEMMA UseAcknowledged ==
  ASSUME AckInv, TypeOK', Use
  PROVE  AckInv'
<1>1. /\ room \in Room /\ room.used \in Nat
      /\ ~expired => Recalled(room, d1) /\ InUse
      /\ UNCHANGED <<expired, d1, writer, sent, batch>>
  <2>1. room \in Room
    BY DEF AckInv, TypeOK
  <2>2. UNCHANGED Elsewhere
    BY DEF Use, ChangeBoard, ChangeTimer, EndStep, Complete, Disband
  <2>3. QED BY <2>1, <2>2 DEF AckInv, InUse, Elsewhere, Room, Uses
<1>2. CASE Usable /\ (\/ room' = Used(room, Later) \/ room' = Preserved(room, Later)
                      \/ room' = Completed(room, Later)
                      \/ \E h \in Records : room' = Recorded(room, Later, h))
  <2>1. Later \in Uses /\ room.used <= Later
    BY <1>1, <1>2, ProjectionAssumption DEF Usable, Later, Uses
  <2>2. CASE room' = Used(room, Later)
    <3>1. ~expired => Recalled(room', d1)
      BY <1>1, <2>1, <2>2, UsedFields DEF Recalled
    <3>2. QED BY <1>1, <2>1, <2>2, <3>1, UsedFields, UseMoves
  <2>3. CASE room' = Preserved(room, Later)
    <3>1. ~expired => Recalled(room', d1)
      BY <1>1, <2>1, <2>3, PreservedFields DEF Recalled
    <3>2. QED BY <1>1, <2>1, <2>3, <3>1, PreservedFields, UseMoves
  <2>4. CASE room' = Completed(room, Later)
    <3>1. ~expired => Recalled(room', d1)
      BY <1>1, <2>1, <2>4, CompletedFields DEF Recalled
    <3>2. QED BY <1>1, <2>1, <2>4, <3>1, CompletedFields, UseMoves
  <2>5. ASSUME NEW h \in Records, room' = Recorded(room, Later, h)
        PROVE  AckInv'
    <3>1. ~expired => Recalled(room', d1)
      BY <1>1, <2>1, <2>5, RecordedFields DEF Recalled
    <3>2. QED BY <1>1, <2>1, <2>5, <3>1, RecordedFields, UseMoves
  <2>6. QED BY <1>2, <2>2, <2>3, <2>4, <2>5
<1>3. CASE Disband
  <2>1. room' = [room EXCEPT !.life = "disbanded"]
    BY <1>3 DEF Disband
  <2>2. /\ room'.used = room.used /\ room'.pending = room.pending
        /\ room'.saved = room.saved /\ room'.status = room.status
        /\ room'.retry = room.retry /\ room'.outbox = room.outbox
        /\ room'.completion = room.completion /\ room'.viewersDue = room.viewersDue
        /\ room' \in Room
    <3>1. room' \in Room
      BY DEF TypeOK
    <3>2. QED BY <1>1, <2>1, <3>1 DEF Room
  <2>3. ~expired => /\ KeptIn(room', d1) /\ Recalled(room', d1)
                    /\ FlightOf(room', d1, writer["outcome"], sent)
    BY <1>1, <2>2, SameKeeps DEF InUse, Recalled
  <2>4. QED BY <1>1, <2>3, RoomMoves
<1>4. QED BY <1>2, <1>3 DEF Use, ChangeBoard, ChangeTimer, EndStep, Complete

LEMMA GoOnAcknowledged ==
  ASSUME AckInv, TypeOK', GoOn
  PROVE  AckInv'
<1>1. /\ room \in Room /\ room.used \in Nat
      /\ ~expired => Recalled(room, d1) /\ InUse
      /\ UNCHANGED <<expired, d1, writer, sent, batch>>
  BY DEF AckInv, TypeOK, InUse, GoOn, Elsewhere, Room, Uses
<1>2. CASE room' = room
  BY <1>1, <1>2, RoomMoves DEF InUse
<1>3. ASSUME NEW n \in {room.used, Later} \cap Uses,
             room' = Used(room, n) \/ room' = Preserved(room, n)
      PROVE  AckInv'
  <2>1. n \in Uses /\ room.used <= n
    BY <1>1 DEF Later
  <2>2. CASE room' = Used(room, n)
    <3>1. ~expired => Recalled(room', d1)
      BY <1>1, <2>1, <2>2, UsedFields DEF Recalled
    <3>2. QED BY <1>1, <2>1, <2>2, <3>1, UsedFields, UseMoves
  <2>3. CASE room' = Preserved(room, n)
    <3>1. ~expired => Recalled(room', d1)
      BY <1>1, <2>1, <2>3, PreservedFields DEF Recalled
    <3>2. QED BY <1>1, <2>1, <2>3, <3>1, PreservedFields, UseMoves
  <2>4. QED BY <1>3, <2>2, <2>3
<1>4. \/ room' = room
      \/ \E n \in {room.used, Later} \cap Uses :
           room' = Used(room, n) \/ room' = Preserved(room, n)
  BY DEF GoOn
<1>5. QED BY <1>2, <1>3, <1>4

LEMMA LandAcknowledged ==
  ASSUME AckInv, TypeOK', NEW w \in Writers, Land(w)
  PROVE  AckInv'
<1>1. /\ UNCHANGED <<room, expired, sent, batch>>
      /\ writer' = [writer EXCEPT ![w].landed = TRUE] /\ d1' = Landing(w)
      /\ writer[w].pc # "idle"
  BY DEF Land
<1>2. /\ room \in Room /\ d1 \in D1 /\ sent \in Sent /\ d1' \in D1
      /\ writer \in [Writers -> Writer]
  BY TypeParts DEF AckInv, TypeOK, FlightsOK
<1>3. /\ \A v \in Writers : writer'[v].pc = writer[v].pc
      /\ \A v \in Writers \ {w} : writer'[v] = writer[v]
      /\ "outcome" \in Writers /\ "history" \in Writers /\ "viewers" \in Writers
  BY <1>1, <1>2 DEF Writer, Writers
<1>4. FlightsTrue'
  BY <1>1, <1>3 DEF AckInv, FlightsTrue
<1>5. ASSUME ~expired
      PROVE  InUse'
  <2>1. InUse /\ writer[w].pc = "send"
    <3>1. writer[w].pc \in {"idle", "send", "clean", "wipe"}
      BY <1>2 DEF Writer
    <3>2. QED BY <1>1, <1>5, <3>1 DEF AckInv, FlightsTrue
  <2>2. CASE w = "outcome"
    <3>1. /\ d1'.content = IF sent.content = Nothing THEN d1.content ELSE sent.content
          /\ d1'.used = sent.used
          /\ d1'.history = d1.history /\ d1'.viewers = d1.viewers
      BY <1>1, <1>2, <2>1, <2>2 DEF Landing, D1
    <3>2. /\ room.used \in Nat /\ room.pending \in Nat /\ room.saved \in Nat
          /\ d1.content \in Nat /\ sent.content \in Nat
      BY <1>2, ProjectionAssumption DEF Room, D1, Sent, Version, Uses, Nothing
    <3>3. KeptIn(room, d1) /\ FlightOf(room, d1, writer["outcome"], sent)
      BY <2>1 DEF InUse
    <3>4. room.retry /\ (sent.content # Nothing =>
                           d1.content <= sent.content /\ sent.content <= room.pending)
          /\ sent.content <= room.used
      BY <2>1, <2>2, <3>3 DEF FlightOf
    <3>5. KeptIn(room, d1')
      BY <3>1, <3>2, <3>3, <3>4 DEF KeptIn, Nothing
    <3>6. FlightOf(room, d1', writer'["outcome"], sent)
      BY <1>3, <2>1, <2>2, <3>1, <3>2, <3>3, <3>4 DEF FlightOf, Nothing
    <3>7. Recalled(room, d1')
      BY <2>1, <3>1 DEF InUse, Recalled
    <3>8. HistoryFlight' /\ ViewersFlight'
      BY <1>1, <1>3, <2>1, <2>2, <3>1 DEF InUse, HistoryFlight, ViewersFlight, Current
    <3>9. QED BY <1>1, <3>5, <3>6, <3>7, <3>8 DEF InUse
  <2>3. CASE w = "history"
    <3>1. /\ d1'.content = d1.content /\ d1'.used = d1.used
          /\ d1'.history = d1.history \cup {Current} /\ d1'.viewers = d1.viewers
      BY <1>1, <1>2, <2>1, <2>3 DEF Landing, D1
    <3>2. KeptIn(room, d1') /\ FlightOf(room, d1', writer'["outcome"], sent)
      BY <1>3, <2>1, <2>3, <3>1 DEF InUse, KeptIn, FlightOf
    <3>3. Recalled(room, d1')
      BY <2>1, <3>1 DEF InUse, Recalled
    <3>4. HistoryFlight' /\ ViewersFlight'
      BY <1>1, <1>3, <2>1, <2>3, <3>1 DEF InUse, HistoryFlight, ViewersFlight, Current
    <3>5. QED BY <1>1, <3>2, <3>3, <3>4 DEF InUse
  <2>4. CASE w = "viewers"
    <3>1. /\ d1'.content = d1.content /\ d1'.used = d1.used
          /\ d1'.history = d1.history /\ d1'.viewers
      BY <1>1, <1>2, <2>1, <2>4 DEF Landing, D1
    <3>2. KeptIn(room, d1') /\ FlightOf(room, d1', writer'["outcome"], sent)
      BY <1>3, <2>1, <2>4, <3>1 DEF InUse, KeptIn, FlightOf
    <3>3. Recalled(room, d1')
      BY <2>1, <3>1 DEF InUse, Recalled
    <3>4. HistoryFlight' /\ ViewersFlight'
      BY <1>1, <1>3, <2>1, <2>4, <3>1 DEF InUse, HistoryFlight, ViewersFlight, Current
    <3>5. QED BY <1>1, <3>2, <3>3, <3>4 DEF InUse
  <2>5. QED BY <2>2, <2>3, <2>4 DEF Writers
<1>6. QED BY <1>1, <1>4, <1>5 DEF AckInv

\* An answer that is good has been carried out.
LEMMA AnswerFacts ==
  ASSUME AckInv, NEW w \in Writers, NEW ok \in BOOLEAN, Answered(w, ok), ~expired
  PROVE  /\ UNCHANGED <<expired, d1>> /\ InUse
         /\ room \in Room /\ d1 \in D1 /\ sent \in Sent
         /\ writer[w].pc = "send"
         /\ ok => writer[w].landed
<1>1. writer[w].pc \in {"idle", "send", "clean", "wipe"}
  BY TypeParts DEF AckInv, FlightsOK, Writer
<1>2. room \in Room /\ d1 \in D1 /\ sent \in Sent
  BY TypeParts DEF AckInv, Plain, FlightsOK
<1>3. QED BY <1>1, <1>2 DEF AckInv, FlightsTrue, Answered

LEMMA OutcomeAcknowledged ==
  ASSUME AckInv, TypeOK', NEW ok \in BOOLEAN, AnswerOutcome(ok)
  PROVE  AckInv'
<1>1. Answered("outcome", ok) /\ "outcome" \in Writers /\ UNCHANGED <<expired, d1>>
  BY DEF AnswerOutcome, Answered, Writers
<1>2. CASE ok /\ writer["outcome"].pc = "send" /\ expired
  <2>1. Proceed("outcome", "clean")
    BY <1>2 DEF AnswerOutcome
  <2>2. QED BY <1>1, <1>2, <2>1, ProceedKeeps
<1>3. CASE ~(ok /\ writer["outcome"].pc = "send" /\ expired)
  <2>1. Finish("outcome")
    BY <1>3 DEF AnswerOutcome
  <2>2. ASSUME ~expired
        PROVE  KeptIn(room', d1) /\ Recalled(room', d1)
    <3>1. /\ InUse /\ room \in Room /\ d1 \in D1 /\ sent \in Sent
          /\ writer["outcome"].pc = "send" /\ (ok => writer["outcome"].landed)
      BY <1>1, <2>2, AnswerFacts
    <3>2. CASE ok
      <4>1. room' = Acknowledged(room)
        BY <1>3, <3>1, <3>2 DEF AnswerOutcome
      <4>2. KeptIn(room', d1)
        BY <3>1, <3>2, <4>1, AcknowledgedKeeps DEF InUse
      <4>3. /\ room'.outbox = room.outbox /\ room'.completion = room.completion
            /\ room'.viewersDue = room.viewersDue
        BY <3>1, <4>1 DEF Acknowledged, Room
      <4>4. QED BY <3>1, <4>2, <4>3 DEF InUse, Recalled
    <3>3. CASE ~ok
      <4>1. room' = [room EXCEPT !.status = "failed", !.retry = TRUE]
        BY <1>3, <3>1, <3>3 DEF AnswerOutcome
      <4>2. /\ room'.used = room.used /\ room'.pending = room.pending
            /\ room'.saved = room.saved /\ room'.status = "failed" /\ room'.retry
            /\ room'.outbox = room.outbox /\ room'.completion = room.completion
            /\ room'.viewersDue = room.viewersDue
        BY <3>1, <4>1 DEF Room
      <4>3. QED BY <3>1, <4>2 DEF InUse, KeptIn, Recalled
    <3>4. QED BY <3>2, <3>3
  <2>3. QED BY <1>1, <2>1, <2>2, FinishKeeps
<1>4. QED BY <1>2, <1>3

LEMMA MarkFields ==
  ASSUME NEW r \in Room, NEW h \in Records, NEW x \in {"due", "kept"}
  PROVE  /\ Mark(r, h, x).used = r.used /\ Mark(r, h, x).pending = r.pending
         /\ Mark(r, h, x).saved = r.saved /\ Mark(r, h, x).status = r.status
         /\ Mark(r, h, x).retry = r.retry /\ Mark(r, h, x).completion = r.completion
         /\ Mark(r, h, x).viewersDue = r.viewersDue
         /\ \A g \in Records : Mark(r, h, x).outbox[g] = "kept" =>
                                 r.outbox[g] = "kept" \/ (g = h /\ x = "kept")
BY DEF Mark, Room

LEMMA HistoryAcknowledged ==
  ASSUME AckInv, TypeOK', NEW ok \in BOOLEAN, AnswerHistory(ok)
  PROVE  AckInv'
<1>1. Answered("history", ok) /\ "history" \in Writers /\ UNCHANGED <<expired, d1>>
  BY DEF AnswerHistory, Answered, Writers
<1>2. CASE expired
  <2>1. \/ Finish("history")
        \/ \E pc \in {"send", "clean"} : Proceed("history", pc)
    BY DEF AnswerHistory, NextRecord
  <2>2. QED BY <1>1, <1>2, <2>1, FinishKeeps, ProceedKeeps
<1>3. CASE ~expired
  <2>1. /\ InUse /\ room \in Room /\ d1 \in D1 /\ sent \in Sent
        /\ writer["history"].pc = "send" /\ (ok => writer["history"].landed)
    BY <1>1, <1>3, AnswerFacts
  <2>2. Current \in Records
    <3>1. FlightsOK
      BY TypeParts DEF AckInv
    <3>2. QED BY <2>1, <3>1, CurrentIsOfBatch DEF FlightsOK
  <2>3. PICK x \in {"due", "kept"} :
          room' = Mark(room, Current, x) /\ NextRecord /\ (x = "kept" => ok)
    BY <1>3, <2>1 DEF AnswerHistory
  <2>4. /\ room'.used = room.used /\ room'.pending = room.pending
        /\ room'.saved = room.saved /\ room'.status = room.status
        /\ room'.retry = room.retry /\ room'.completion = room.completion
        /\ room'.viewersDue = room.viewersDue
        /\ \A g \in Records : room'.outbox[g] = "kept" =>
                                room.outbox[g] = "kept" \/ (g = Current /\ x = "kept")
    BY <2>1, <2>2, <2>3, MarkFields
  <2>5. room' \in Room
    BY DEF TypeOK
  <2>6. KeptIn(room', d1) /\ FlightOf(room', d1, writer["outcome"], sent)
    BY <2>1, <2>4, <2>5, SameKeeps DEF InUse
  <2>7. x = "kept" => Current \in d1.history
    BY <2>1, <2>3 DEF InUse, HistoryFlight
  <2>8. Recalled(room', d1)
    BY <2>1, <2>4, <2>7 DEF InUse, Recalled
  <2>9. Finish("history") \/ Proceed("history", "send")
    BY <1>3, <2>3 DEF NextRecord
  <2>10. QED BY <1>1, <2>6, <2>8, <2>9, FinishKeeps, ProceedKeeps
<1>4. QED BY <1>2, <1>3

LEMMA ViewersAcknowledged ==
  ASSUME AckInv, TypeOK', NEW ok \in BOOLEAN, AnswerViewers(ok)
  PROVE  AckInv'
<1>1. Answered("viewers", ok) /\ "viewers" \in Writers /\ UNCHANGED <<expired, d1>>
  BY DEF AnswerViewers, Answered, Writers
<1>2. CASE ok /\ writer["viewers"].pc = "send" /\ expired
  <2>1. Proceed("viewers", "wipe")
    BY <1>2 DEF AnswerViewers
  <2>2. QED BY <1>1, <1>2, <2>1, ProceedKeeps
<1>3. CASE ~(ok /\ writer["viewers"].pc = "send" /\ expired)
  <2>1. Finish("viewers")
    BY <1>3 DEF AnswerViewers
  <2>2. ASSUME ~expired
        PROVE  /\ KeptIn(room', d1) /\ Recalled(room', d1)
               /\ FlightOf(room', d1, writer["outcome"], sent)
    <3>1. /\ InUse /\ room \in Room /\ d1 \in D1 /\ sent \in Sent
          /\ writer["viewers"].pc = "send" /\ (ok => writer["viewers"].landed)
      BY <1>1, <2>2, AnswerFacts
    <3>2. room' = [room EXCEPT !.viewersDue = ~ok]
      BY <1>3, <3>1 DEF AnswerViewers
    <3>3. /\ room'.used = room.used /\ room'.pending = room.pending
          /\ room'.saved = room.saved /\ room'.status = room.status
          /\ room'.retry = room.retry /\ room'.outbox = room.outbox
          /\ room'.completion = room.completion /\ room'.viewersDue = ~ok
      BY <3>1, <3>2 DEF Room
    <3>4. room' \in Room
      BY DEF TypeOK
    <3>5. KeptIn(room', d1) /\ FlightOf(room', d1, writer["outcome"], sent)
      BY <3>1, <3>3, <3>4, SameKeeps DEF InUse
    <3>6. Recalled(room', d1)
      BY <3>1, <3>3 DEF InUse, Recalled, ViewersFlight
    <3>7. QED BY <3>5, <3>6
  <2>3. QED BY <1>1, <2>1, <2>2, FinishKeeps
<1>4. QED BY <1>2, <1>3

LEMMA CrashAcknowledged ==
  ASSUME AckInv, TypeOK', Crash
  PROVE  AckInv'
<1>1. /\ \A w \in Writers : writer'[w].pc = "idle" /\ ~writer'[w].landed
      /\ sent' = NoVersion /\ UNCHANGED <<room, expired, d1>>
  BY DEF Crash, Idle
<1>2. room.used \in Nat
  BY DEF AckInv, TypeOK, Room, Uses
<1>3. FlightsTrue'
  BY <1>1 DEF FlightsTrue
<1>4. HistoryFlight' /\ ViewersFlight'
  BY <1>1 DEF HistoryFlight, ViewersFlight, Writers
<1>5. FlightOf(room, d1, writer["outcome"], sent)'
  BY <1>1, <1>2 DEF FlightOf, NoVersion, Nothing, Writers
<1>6. QED BY <1>1, <1>3, <1>4, <1>5 DEF AckInv, InUse

LEMMA AckNext == AckInv /\ [Next]_vars => AckInv'
<1> SUFFICES ASSUME AckInv, [Next]_vars PROVE AckInv'
  OBVIOUS
<1>0. TypeOK'
  BY TypeNext DEF AckInv
<1>1. CASE Use
  BY <1>0, <1>1, UseAcknowledged
<1>2. CASE GoOn
  BY <1>0, <1>2, GoOnAcknowledged
<1>3. CASE Expire
  BY <1>0, <1>3 DEF Expire, AckInv, FlightsTrue
<1>4. ASSUME NEW w \in Writers, Land(w) PROVE AckInv'
  BY <1>0, <1>4, LandAcknowledged
<1>5. ASSUME NEW w \in Writers, NEW ok \in BOOLEAN, Answer(w, ok) PROVE AckInv'
  BY <1>0, <1>5, OutcomeAcknowledged, HistoryAcknowledged, ViewersAcknowledged DEF Answer
<1>6. CASE Ring \/ Visit \/ Leave \/ \E w \in Writers : Look(w)
  <2>1. PICK k \in Callers, route \in Seq(Writers) : Enter(k, route)
    BY <1>6, Routes DEF Ring, Visit, Leave, Look, Callers, Writers
  <2>2. QED BY <1>0, <2>1, EnterKeeps DEF Enter
<1>7. ASSUME NEW k \in Callers, Return(k) PROVE AckInv'
  <2>1. CASE Advance({k}, Route("outcome"), room, writer)
    BY <1>0, <1>7, <2>1, Routes, EnterKeeps DEF Return, Writers
  <2>2. CASE UNCHANGED <<writer, sent, batch>>
    <3>1. UNCHANGED <<room, expired, d1>>
      BY <1>7 DEF Return
    <3>2. QED BY <1>0, <2>2, <3>1, RoomMoves DEF AckInv, InUse
  <2>3. QED BY <1>7, <2>1, <2>2 DEF Return
<1>8. CASE Crash
  BY <1>0, <1>8, CrashAcknowledged
<1>9. CASE UNCHANGED vars
  BY <1>0, <1>9, RoomMoves DEF vars, AckInv, InUse
<1>10. QED BY <1>1, <1>2, <1>3, <1>4, <1>5, <1>6, <1>7, <1>8, <1>9 DEF Next

\* The invariant behind the promise: what the row says of the outcome, the
\* version on its way and what D1 holds agree, whatever was preserved, lost or
\* answered meanwhile.
THEOREM ProjectionInvariant == Spec => []AckInv
<1>1. QED BY AckInit, AckNext, PTL DEF Spec

\* What the room reports as saved is in D1 as long as the room is kept
\* (flushSharedOutcomeOnce, recordSharedActivity and preserveSharedOutcome of
\* shared-outcome-storage.ts, flushOnce of progress-history.ts and
\* completed-rooms.ts), for any number of records, uses, failures and crashes.
THEOREM SavedIsInD1 == Spec => []AcknowledgedIsThere
<1>1. AckInv => AcknowledgedIsThere
  <2> SUFFICES ASSUME AckInv, ~expired
               PROVE  /\ room.status = "saved" => d1.content = room.saved
                                                  /\ room.pending = Nothing
                      /\ room.saved # Nothing => d1.content >= room.saved
                      /\ ~room.retry => d1.used = room.used
                      /\ \A h \in Records : room.outbox[h] = "kept" => h \in d1.history
                      /\ room.completion = "fixed" /\ ~room.viewersDue => d1.viewers
    BY DEF AcknowledgedIsThere
  <2>1. KeptIn(room, d1) /\ Recalled(room, d1)
    BY DEF AckInv, InUse
  <2>2. room.saved \in Nat /\ d1.content \in Nat
    BY DEF AckInv, TypeOK, Room, D1, Version, Uses, Nothing
  <2>3. QED BY <2>1, <2>2 DEF KeptIn, Recalled
<1>2. QED BY <1>1, ProjectionInvariant, PTL
=============================================================================
