SPECIFICATION Spec
CONSTANTS
  c1 = c1
  c2 = c2
  c3 = c3
  p1 = p1
  p2 = p2
  raw = raw
  rollup = rollup
  NoOwner = NoOwner
  Clicks <- MCClicks3
  Corrupt <- MCNoCorrupt
  Flushers <- MCFlushers1
  Tables <- MCRawOnly
  BufferMax = 3
  BatchSize = 1
  MaxBatches = 2
  LeaseBatches = 3
  DedupWindow = 1
  LateBlocks = 1
  StopMidTick = TRUE
PROPERTY AckOnlyConfirmed
