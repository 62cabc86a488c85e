SPECIFICATION Spec

CONSTANTS
  StandaloneModes <- StandaloneOnly
  Faults <- RunFaults
  RunClearsStop = FALSE

INVARIANTS
  NoCrash

CHECK_DEADLOCK FALSE
