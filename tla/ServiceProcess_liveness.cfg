SPECIFICATION FairSpec

CONSTANTS
  StandaloneModes <- BothModes
  Faults <- StartFaults
  RunClearsStop = FALSE

PROPERTIES
  StopEndsRun
  QuietRunReportsStopped
  OrderedStopReportsStopped
  FailedStartReported

CHECK_DEADLOCK FALSE
