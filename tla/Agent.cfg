SPECIFICATION Spec
CONSTANTS
  Kinds <- AllKinds
  MaxMessages = 2
  MaxCalls = 1
  HistoryLimit = 2
  MaxTroubles = 2
  NoSnapshot = NoSnapshot
INVARIANTS
  ArrivalOrder
  NothingLost
  ParkedTurnIsWritten
  NoLostWakeup
  OnlyExitEndsLoop
PROPERTIES
  FileNeverForgets
  TurnsOnlyGrow
  PausedStandsStill
  ImplementsFile
CHECK_DEADLOCK FALSE
