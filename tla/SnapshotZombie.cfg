SPECIFICATION Spec
CONSTANTS
  MaxSaves = 2
  MaxCancels = 1
  MaxCrashes = 1
INVARIANT
  DisposedSnapshotIsGone
CHECK_DEADLOCK FALSE
