SPECIFICATION FairSpec

CONSTANTS
  h1 = h1
  h2 = h2
  NoHandle = NoHandle
  Handle <- HandleValues
  PostQuitModes = {FALSE}
  OtherThreads = FALSE
  StandaloneModes = {TRUE, FALSE}
  Faults <- StartFaults
  RunClearsStop = FALSE

INVARIANTS
  CallsAreExpected
  StoppedMeansChildGone
  NoChildLeftBehind

PROPERTIES
  KeepsHostAssumption

CHECK_DEADLOCK FALSE
