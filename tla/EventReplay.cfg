SPECIFICATION FairSpec
CONSTANTS
  Stream = {m1, m2}
  RingSize = 3
  QueueSize = 2
  MaxSeq = 4
  MaxBoots = 1
  MaxCuts = 1
INVARIANT ReplayKeepsText
CHECK_DEADLOCK FALSE
