SPECIFICATION MCFairSpec
CONSTANTS
  Networks = {home, new}
  NoNetwork = NoNetwork
  MaxRetries = 1
  home = home
CHECK_DEADLOCK FALSE
INVARIANTS
  TypeOK
  SavedMeansLatest
  ResetIsFinal
PROPERTIES
  OnlyProvenIsSaved
  NetworkReturns
