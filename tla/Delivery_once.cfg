SPECIFICATION FairSpec
CONSTANTS
  w1 = w1
  w2 = w2
  Workers = {w1, w2}
  Rules = {1, 2}
  Exprs = {"hot"}
  FirstExpr <- AllHot
  Kind <- Once
  OnceAt <- DueAtOne
  Twin <- AllTwins
  SnoozeUntil <- NoSnooze
  Legacy = {}
  FirstId = 3
  CronPeriod = 3
  Interval = 1
  Cooldown = 1
  Lease = 1
  WindowLen = 2
  Refusals = TRUE
  EvalErrors = FALSE
  MaxLosses = 0
  MaxAborts = 0
  MaxCrashes = 0
  MaxEdits = 0
  MaxTime = 2
INVARIANTS
  OnceSettled
PROPERTIES
  CycleEnds
