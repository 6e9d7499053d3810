SPECIFICATION PartsSpec
CONSTANTS
  Stream = {m1, m2}
  RingSize = 3
  QueueSize = 2
  MaxSeq = 4
  MaxBoots = 2
  MaxCuts = 1
  Owner = {o1, o2}
  PanelSpec = {p1, p2, bad}
  BadSpec = {bad}
  Desktop = {k1}
  SurfaceTTL = 1
  NoPanel = NoPanel
  Mid = {i1, i2, i3, i4, i5}
  DedupSize = 4
  MaxLines = 7
  Author = {1, 2}
  Stamp = {1, 2}
  BucketSpan = 2
  QueueLimit = 2
  BatchSize = 2
  MaxKept = 2
  PruneTo = 1
  PageSize = 1
  MaxTurns = 4
  MaxFaults = 1
  Name = {n1}
  Def = {d1, d2}
  Absent = Absent
  MaxEdits = 3
  MaxStarts = 4
  Command = {c1, c2, c3}
  NoCommand = NoCommand
  Script = {s1, s2}
  Remote = {r1, r2}
  OfflineAfter = 2
  OutboundMax = 1
  OutboundTTL = 2
  MaxSamples = 5
  Pid = {w1, w2}
  Setting = {x, y}
  Missing = Missing
  RunawaySamples = 2
  MaxBurn = 4
INVARIANTS CursorSkipsNothing TextIsWhatWasSaid DesktopShowsTable LinesOnce BooksAreTrue ServersFollowConfig NoCommandOutlivesAgent StopIsOrderly AlarmsAreTrue
PROPERTIES LedgerReadsOnce StreamCatchesUp
CHECK_DEADLOCK FALSE
