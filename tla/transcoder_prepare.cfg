CONSTANTS
  NumTracks = 1
  LateTracks = FALSE
  DataSourceFirst = TRUE
  Ids <- OneId
  MaxStops = 0
CHECK_DEADLOCK FALSE
SPECIFICATION FairSpec
PROPERTY PrepareIsKept
