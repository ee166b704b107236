CONSTANTS
  NumSessions = 2
  Tracks = {video}
  Video = {video}
  Subtitles = {}
  Encoded = {}
  Capacity = 10
  MaxFrames <- TwoAndOne
CHECK_DEADLOCK FALSE
SPECIFICATION FairSpec
INVARIANTS NothingLost FailsOnlyIf ClosedOnce
PROPERTIES AllWritten
