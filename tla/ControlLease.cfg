SPECIFICATION FairSpec
CONSTANTS
  Timeout = 1
  MaxCommands = 2
  MaxPresses = 1
INVARIANTS
  RevisionNamesOwner
  AcceptedOnce
PROPERTIES
  LeaseNeverRevives
  AcceptedMeansLease
  JobKeepsAnOwner
  IdleIsReleased
