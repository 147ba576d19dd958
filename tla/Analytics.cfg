SPECIFICATION MCSpec
CONSTANTS
  link = link
  owned = owned
  home = home
  away = away
  here = here
  there = there
  Day = 8
  Hour = 2
  Subjects <- MCSubjects
  Totals <- MCTotals
  Zones <- MCZones
  Home = home
  Intl <- MCIntl
  Questions <- MCQuestions
  NoAnswer = NoAnswer
  Never = Never
  Ttl = 2
  Poll = 2
  Flight = 1
  MaxChanges = 2
  Horizon = 6
  Clocks <- MCClocks
  Instants <- MCInstants
  Presets <- MCPresets
  Custom <- MCCustom
  QuarterSpan = 4
  HourSpan = 16
  RawSpan = 16
  RawRetention = 16
  MaxSpan = 24
  MaxBuckets = 30
  Kept = 18
  Lag = 1
  Values <- MCValues
  BreakdownLimit = 1
  NotYet = NotYet
  Times <- MCTimes
  MaxClicks <- MCMaxClicks
INVARIANTS
  OwnAnswer
  BoundedAge
  StartsItsDay
  StepsByDays
  SeriesAddsUp
  AccurateToAnHour
  BarPerDayInWholeHours
PROPERTIES
  LoadingEnds
CHECK_DEADLOCK FALSE
