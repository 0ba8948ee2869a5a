SPECIFICATION Spec
CONSTANTS
  Duration = 1
  MaxSession = 2
  MaxTime = 4
  MaxCommands = 3
PROPERTY KeepWarmHeats
