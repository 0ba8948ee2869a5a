SPECIFICATION Spec
CONSTANTS
  Hazards <- TwoHazards
  MaxGeneration = 2
  MaxBoots = 1
INVARIANTS
  HazardIsRecorded
  UnlatchedMeansErased
  NoWriteWhileHeating
PROPERTIES
  ClearNeedsRequest
  JobImplemented
