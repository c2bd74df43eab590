CONSTANTS
  People = {ann, bob}
  NoTime = NoTime
  TurnTime = 1
  ExtraTime = 1
  LeadTime = 1
  IdleTime = 1
  Starts <- FromLobby
  MaxDepth = 1
SPECIFICATION FairSpec
CHECK_DEADLOCK FALSE
INVARIANTS
  TypeOK
  AlarmCovers
  DecisionsMatchPhase
PROPERTIES
  EveryoneIsHeard
  AnnouncedTurnIsGiven
  NoOpenGateIsMissed
  IdleRoomCloses
  ExtendedTurnEnds
