SPECIFICATION Spec
CONSTANTS
  w1 = w1
  w2 = w2
  Workers = {w1, w2}
  Rules = {1}
  Exprs = {"hot"}
  FirstExpr <- AllHot
  Kind <- Cron
  OnceAt <- DueAtOne
  Twin <- NoTwins
  SnoozeUntil <- NoSnooze
  Legacy = {1}
  FirstId = 2
  CronPeriod = 2
  Interval = 1
  Cooldown = 0
  Lease = 1
  WindowLen = 4
  Refusals = TRUE
  EvalErrors = FALSE
  MaxLosses = 1
  MaxAborts = 1
  MaxCrashes = 1
  MaxEdits = 0
  MaxTime = 3
SYMMETRY WorkerSymmetry
INVARIANTS
  TypeOK
  ActiveKeyUnique
  ResendsExplained
  TransactionsAgree
  SlotRunsBounded
