SPECIFICATION FairSpec
CONSTANTS
  Kinds <- AllKinds
  MaxMessages = 1
  MaxCalls = 2
  HistoryLimit = 1
  MaxTroubles = 2
  NoSnapshot = NoSnapshot
INVARIANTS
  AtMostOnce
  RecordedBeforeNextCall
  FinishIsArchived
PROPERTIES
  ExitsEnd
  InputIsObserved
CHECK_DEADLOCK FALSE
