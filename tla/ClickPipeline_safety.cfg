SPECIFICATION Spec
CONSTANTS
  c1 = c1
  c2 = c2
  c3 = c3
  p1 = p1
  p2 = p2
  raw = raw
  rollup = rollup
  NoOwner = NoOwner
  Clicks <- MCClicks3
  Corrupt <- MCCorrupt
  Flushers <- MCFlushers2
  Tables <- MCTables
  BufferMax = 2
  BatchSize = 2
  MaxBatches = 2
  LeaseBatches = 2
  DedupWindow = 1
  LateBlocks = 1
  StopMidTick = FALSE
SYMMETRY MCSymmetry
INVARIANTS
  NoLoss
  CountedOnce
  RollupsAgree
PROPERTIES
  AckOnlyConfirmed
  ImplementsDelivery
