CONSTANTS
  Interval = 1
  MaxSize = 2
  Chunk = 1
  MaxAlloc = 1
  MaxRead = 8
CHECK_DEADLOCK FALSE
SPECIFICATION Spec
INVARIANTS ReadAtLimitBounded NotStranded
