SPECIFICATION FairSpec
CONSTANTS
  Agents = {r, a, b}
  Root = r
  NoAgent = NoAgent
  MaxDepth = 2
  MaxChildren = 2
  MaxTroubles = 2
INVARIANTS
  NoOrphans
  ReportsAreTrue
  NoFalseChild
  FrozenTree
  NobodyStaysFrozen
PROPERTIES
  GracefulStopKeepsTree
  DeadStayDead
  ExitsEnd
CHECK_DEADLOCK FALSE
