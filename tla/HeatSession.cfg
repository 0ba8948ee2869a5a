SPECIFICATION FairSpec
CONSTANTS
  CheckpointTasks = {recorder}
  SetupTasks = {wifi}
  ColdTasks = {ota}
  MaxBoots = 2
INVARIANTS
  MaintenanceOwned
  NoFlashWhileHeating
PROPERTIES
  SessionImplemented
  JobImplemented
  WorkIsAdmitted
  MarkerIsClosed
