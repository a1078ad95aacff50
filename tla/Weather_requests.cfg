CONSTANTS
  Metrics = {"gusts", "code"}
  TextMetrics = {"code"}
  DayHours = 4
  Week = 4
  Offset = 4
  Words = {"a", "b"}
  Expressions <- MCExpressions
  Weather <- MCWeather
  OldWeather <- MCOldWeather
  Lost <- MCLost
  Horizon = 2
  Stations = {1, 2, 3, 4}
  Distance <- MCDistance
  Unlisted = 99
  Radius = 5
  Warnings <- MCWarnings
  Places = {1, 2}
  Candidates <- MCCandidates
  Starts = {9, 13, 16, 21, 22}
  MaxItems = 2
  MaxDelay = 1
  MaxJobs = 1

SPECIFICATION MCSpec

INVARIANTS
  TypeOK
  VerdictJustified
  AnswersComplete
  RequestsExplained

PROPERTY
  JobAdvances
