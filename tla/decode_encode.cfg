SPECIFICATION FairSpec
CONSTANTS
  Kind <- PassAndAudio
  Times <- PassAndAudioTimes
  MarksLast = FALSE
  MaxPtsOffset = 4
  Slots = 1
INVARIANTS
  NothingLost
  DataMatchesInfo
  WrittenWithoutGap
  EndIsLast
PROPERTIES
  SamplesDelivered
  StopEnds
CHECK_DEADLOCK FALSE
