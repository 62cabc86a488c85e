SPECIFICATION Spec

CONSTANTS
  StandaloneModes = {TRUE, FALSE}
  Faults <- ComFaults
  RunClearsStop = FALSE

INVARIANTS
  CallsInApartment
  OutputIsWatched

CHECK_DEADLOCK FALSE
