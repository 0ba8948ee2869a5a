SPECIFICATION Spec
CONSTANTS
  Hazards <- TwoHazards
  MaxGeneration = 2
  MaxBoots = 0
PROPERTY
  PanicDefeatsOlderClear
