SPECIFICATION Spec
CONSTANTS
  home = home
  trip = trip
  rain = rain
  wind = wind
  Contexts = {home, trip}
  Exprs = {rain}
  Obedient = FALSE
  Fallback = TRUE
  Faults = {"agent", "session", "crash", "reply"}
  Ttl = 1
  MaxHistory = 4
  MaxRounds = 2
  MaxProposals = 2
  MaxMessages = 3
  MaxTime = 0
SYMMETRY RuleSymmetry
INVARIANTS
  TypeOK
  OneFate
  ProposalsTracked
  OneRulePerProposal
  HistoryPaired
