SPECIFICATION Spec
CONSTANTS
  home = home
  trip = trip
  rain = rain
  wind = wind
  Contexts = {home}
  Exprs = {rain}
  Obedient = TRUE
  Fallback = TRUE
  Faults = {}
  Ttl = 1
  MaxHistory = 4
  MaxRounds = 2
  MaxProposals = 3
  MaxMessages = 4
  MaxTime = 0
PROPERTIES
  ConfirmedDeletionDeletes
