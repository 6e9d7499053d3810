SPECIFICATION Spec
CONSTANTS
  Kinds <- RootOnly
  MaxMessages = 1
  MaxCalls = 1
  HistoryLimit = 2
  MaxTroubles = 3
  NoSnapshot = NoSnapshot
INVARIANT
  VerbsRunOnce
CHECK_DEADLOCK FALSE
