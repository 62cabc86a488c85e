SPECIFICATION FairSpec

CONSTANTS
  h1 = h1
  h2 = h2
  h3 = h3
  NoHandle = NoHandle
  Handle <- HandleValues
  PostQuitModes = {TRUE, FALSE}
  OtherThreads = TRUE

INVARIANTS
  TypeOK
  RunOutlastsChild
  DestroyedLeavesNoChild

PROPERTIES
  StrikesOwnChildOrTooLate
  ClosesOnlyItsOwn
  TerminateEndsRun
  QuitEndsRun

CHECK_DEADLOCK FALSE
