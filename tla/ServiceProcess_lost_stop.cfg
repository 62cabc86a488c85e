SPECIFICATION FairSpec

CONSTANTS
  StandaloneModes <- BothModes
  Faults <- NoFaults
  RunClearsStop = TRUE

PROPERTIES
  StopEndsRun

CHECK_DEADLOCK FALSE
