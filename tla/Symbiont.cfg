SPECIFICATION FairSpec
CONSTANTS
  Speeds = {0, 1}
  MaxInFlight = 2
PROPERTIES
  WriteIsJustified
  CorrectionConverges
