SPECIFICATION CallSpec

CONSTANTS
  Kilo = 4
  Overflow = 4096
  MaxArgLength = 3
  MaxPathLength = 4

INVARIANTS
  BoundsAreShown

CHECK_DEADLOCK FALSE
