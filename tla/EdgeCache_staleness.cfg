SPECIFICATION Spec
CONSTANTS
  v1 = v1
  w1 = w1
  w2 = w2
  u1 = u1
  Never = Never
  NoLink = NoLink
  NoEntry = NoEntry
  NoAnswer = NoAnswer
  Visits <- MCVisits
  Writers <- MCWriters
  Targets <- MCTargets
  Expiries <- MCExpiries
  MaxTtl = 2
  MinTtl = 1
  ReadLag = 1
  Flight = 1
  Horizon = 7
  MaxWrites = 2
  MaxTransit = 1
SYMMETRY MCSymmetry
INVARIANTS
  BoundedStaleness
  EntryDiesWithLink
