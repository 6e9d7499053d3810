SPECIFICATION Spec
CONSTANTS
  Agents = {r, a, b}
  Root = r
  NoAgent = NoAgent
  MaxDepth = 2
  MaxChildren = 2
  MaxTroubles = 2
INVARIANT
  PauseFreezesSubtree
CHECK_DEADLOCK FALSE
