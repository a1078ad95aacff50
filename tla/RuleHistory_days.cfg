CONSTANTS
  Rules = {1, 2}
  Slots <- MCSlots
  Lookback = 1
  Day = 4
  Interval = 2
  MaxLatency = 2
  MaxDuration = 2
  Cooldown = 1
  Keep <- MCKeep
  WorkerStale = 2
  ForecastStale = 6
  MaxTroubles = 1
  MaxCleanups = 2
  MaxDisturbances = 2
  MaxTime = 14

SPECIFICATION Spec

INVARIANTS
  TypeOK
  SleepLosesOnlyItsStart
  SlotEvaluatedOnce
  OneMessagePerWindow
  LogExplainable
  ReadyWhileCalm
