SPECIFICATION FairSpec
CONSTANTS
  w1 = w1
  w2 = w2
  Workers = {w1, w2}
  Rules = {1}
  Exprs = {"hot", "wet"}
  FirstExpr <- AllHot
  Kind <- Unscheduled
  OnceAt <- DueAtOne
  Twin <- NoTwins
  SnoozeUntil <- NoSnooze
  Legacy = {}
  FirstId = 2
  CronPeriod = 3
  Interval = 2
  Cooldown = 1
  Lease = 1
  WindowLen = 2
  Refusals = TRUE
  EvalErrors = FALSE
  MaxLosses = 0
  MaxAborts = 0
  MaxCrashes = 0
  MaxEdits = 1
  MaxTime = 3
INVARIANTS
  DeliveredOnce
  LedgerMatchesInbox
PROPERTIES
  ImplementsContract
