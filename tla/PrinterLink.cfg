SPECIFICATION MCFairSpec
CONSTANTS
  Printers <- TwoPrinters
  WsStale = 1
  PrinterStale = 1
  MaxSetups = 1
INVARIANTS
  FreshIsRecent
  ConfigIsDurable
PROPERTIES
  SavedIsProven
  DataReturns
