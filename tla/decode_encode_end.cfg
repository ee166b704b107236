SPECIFICATION FairSpec
CONSTANTS
  Kind <- OnlyAudio
  Times <- OneAtZero
  MarksLast = FALSE
  MaxPtsOffset = 4
  Slots = 1
PROPERTY EndsAtEndOfInput
CHECK_DEADLOCK FALSE
