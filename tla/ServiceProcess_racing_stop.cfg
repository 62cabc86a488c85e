SPECIFICATION FairSpec

CONSTANTS
  StandaloneModes <- StandaloneOnly
  Faults <- NoFaults
  RunClearsStop = FALSE

PROPERTIES
  StopCompletes

CHECK_DEADLOCK FALSE
