CONSTANTS
  Metrics = {"gusts", "code"}
  TextMetrics = {"code"}
  DayHours = 4
  Week = 4
  Offset = 4
  Words = {}
  Expressions <- MCComparison
  Weather <- MCWeather
  OldWeather <- MCOldWeather
  Lost <- MCClean
  Horizon = 2
  Stations = {}
  Distance <- MCDistance
  Unlisted = 99
  Radius = 5
  Warnings = {}
  Places = {1}
  Candidates = {}
  Starts = {9, 12}
  MaxItems = 2
  MaxDelay = 1
  MaxJobs = 2

SPECIFICATION Spec

INVARIANT ComparisonEvaluates

CHECK_DEADLOCK FALSE
