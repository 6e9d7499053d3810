SPECIFICATION Spec
CONSTANTS
  Kinds <- RootOnly
  MaxMessages = 2
  MaxCalls = 0
  HistoryLimit = 2
  MaxTroubles = 1
  NoSnapshot = NoSnapshot
INVARIANT
  ArchiveSeesEveryCommit
CHECK_DEADLOCK FALSE
