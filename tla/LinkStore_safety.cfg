SPECIFICATION Spec
CONSTANTS
  s1 = s1
  s2 = s2
  u1 = u1
  u2 = u2
  o1 = o1
  o2 = o2
  r1 = r1
  r2 = r2
  NoItem = NoItem
  NoKey = NoKey
  NoAnswer = NoAnswer
  Keep = Keep
  Slugs <- MCSlugs
  Urls <- MCUrls
  Owners <- MCOwners
  Requests <- MCRequests
  SlugAttempts = 2
  MaxWrites = 3
SYMMETRY MCSymmetry
INVARIANTS
  KeyFollowsUrl
  StatusAsAsked
  DedupUntilSwept
PROPERTIES
  SlugsKept
