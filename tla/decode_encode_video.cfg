SPECIFICATION Spec
CONSTANTS
  Kind <- VideoAndPass
  Times <- VideoAndPassTimes
  MarksLast = TRUE
  MaxPtsOffset = 4
  Slots = 2
INVARIANTS
  NothingLost
CHECK_DEADLOCK FALSE
