SPECIFICATION Spec

CONSTANTS
  StandaloneModes <- BothModes
  Faults <- FaultKinds
  RunClearsStop = TRUE

INVARIANTS
  TypeOK
  StopNeverTooEarly
  PendingReportsExclusive
  CoherentUntilStop
  StoppedMeansIdle

PROPERTIES
  AtMostOneStop
  RefinesLifecycle

CHECK_DEADLOCK FALSE
