SPECIFICATION SequentialSpec

CONSTANTS
  Kilo = 25
  Overflow = 400000
  MaxArgLength = 3
  MaxPathLength = 4
  Configs <- MCConfigs
  Disks <- MCDisks
  Losses <- MCLosses

INVARIANTS
  QuotableArgumentsArrive
  DocumentedSizeIsMeant
  PathNamesItsComponents
  StringReadIsWhole
  ListGainsOneEntry
  RefusalHasItsCause
  WorkerFailureIsLogged
  LogDirectoryIsPrepared
  InstalledCanBeUninstalled

CHECK_DEADLOCK FALSE
