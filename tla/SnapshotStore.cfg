SPECIFICATION Spec
CONSTANTS
  MaxSaves = 4
  MaxCancels = 2
  MaxCrashes = 2
INVARIANTS
  LastGoodSnapshotStands
  DisposedStaysGone
PROPERTY
  ImplementsSnapshotFile
CHECK_DEADLOCK FALSE
