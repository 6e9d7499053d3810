SPECIFICATION McpSpec
CONSTANTS
  Name = {n1}
  Def = {d1, d2}
  Absent = Absent
  MaxEdits = 2
  MaxStarts = 4
INVARIANT ReloadedServersRun
CHECK_DEADLOCK FALSE
