SPECIFICATION LiveSpec
CONSTANTS
  c1 = c1
  c2 = c2
  c3 = c3
  p1 = p1
  p2 = p2
  raw = raw
  NoOwner = NoOwner
  Clicks <- MCClicks
  Corrupt <- MCCorrupt
  Flushers <- MCFlushers
  Tables <- MCTables
  BufferMax = 2
  BatchSize = 1
  MaxBatches = 1
  LeaseBatches = 2
  DedupWindow = 1
  LateBlocks = 1
  StopMidTick = FALSE
  MaxFaults = 3
PROPERTY EveryClickCounted
