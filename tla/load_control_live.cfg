CONSTANTS
  Interval = 1
  MaxSize = 2
  Chunk = 1
  MaxAlloc = 1
  MaxRead = 4
CHECK_DEADLOCK FALSE
SPECIFICATION FairSpec
PROPERTIES PreparationCompletes LoadingGoesOn
