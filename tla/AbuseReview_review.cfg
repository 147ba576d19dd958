SPECIFICATION Spec
CONSTANTS
  q1 = q1
  q2 = q2
  q3 = q3
  s1 = s1
  invented = invented
  o1 = o1
  o2 = o2
  NoSlug = NoSlug
  Reports <- MCReports
  About <- MCAbout
  Slugs <- MCSlugs
  Links <- MCLinks
  Operators <- MCOperators
  ListLimit = 2
  MaxFaults = 2
INVARIANTS
  QueueIndexesTable
  StaysUntilReviewed
PROPERTIES
  EveryReportReviewed
CHECK_DEADLOCK FALSE
