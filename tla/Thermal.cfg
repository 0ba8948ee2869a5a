SPECIFICATION Spec
CONSTANTS
  Channels = {chamber, ptc}
  Readings = {r1, r2}
  NoReading = NoReading
  StillWindow = 1
  MinOutput = 1
  Grace = 2
SYMMETRY Alike
INVARIANTS
  TypeOK
  FreezeStops
  PurgeHolds
PROPERTIES
  GapStopsHeat
