SPECIFICATION FairSpec

CONSTANTS
  i1 = i1
  i2 = i2
  Invokers <- TwoInvokers
  Regimes <- MixedAndUndisturbed

INVARIANTS
  TypeOK
  FinishedInstallIsComplete
  ParamsBelongToRecord
  UninstallCleans

PROPERTIES
  RefinesInstallation
  DeletedIsRemoved

CHECK_DEADLOCK FALSE
