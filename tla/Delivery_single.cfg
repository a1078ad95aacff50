SPECIFICATION Spec
CONSTANTS
  w1 = w1
  Workers = {w1}
  Rules = {1, 2}
  Exprs = {"hot", "wet"}
  FirstExpr <- AllHot
  Kind <- Mixed
  OnceAt <- DueAtOne
  Twin <- NoTwins
  SnoozeUntil <- SnoozeRuleOne
  Legacy = {1}
  FirstId = 3
  CronPeriod = 3
  Interval = 1
  Cooldown = 1
  Lease = 1
  WindowLen = 2
  Refusals = TRUE
  EvalErrors = TRUE
  MaxLosses = 0
  MaxAborts = 0
  MaxCrashes = 0
  MaxEdits = 1
  MaxTime = 5
INVARIANTS
  CooldownRespected
PROPERTIES
  SentIsFinal
