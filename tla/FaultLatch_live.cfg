SPECIFICATION FairSpec
CONSTANTS
  Hazards <- OneHazard
  MaxGeneration = 1
  MaxBoots = 0
PROPERTIES
  RecordEventuallyWritten
  ClearSettles
