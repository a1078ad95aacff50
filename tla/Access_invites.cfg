SPECIFICATION FairSpec
CONSTANTS
  a = a
  u = u
  b1 = b1
  b2 = b2
  c1 = c1
  c2 = c2
  Bots <- TwoBots
  Users <- TwoUsers
  EnvLists <- Lists
  Codes <- TwoCodes
  Pids <- FirstPid
  Lifetime = 1
  MaxTime = 1
  MaxKills = 1
  MaxDeploys = 1
  MaxFaults = 1
INVARIANTS
  TypeOK
  OneUserPerCode
  AccessBacked
  StrangersExplained
PROPERTY
  RedemptionEnds
