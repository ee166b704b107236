CONSTANTS
  NumTracks = 2
  LateTracks = TRUE
  DataSourceFirst = FALSE
  Ids <- DescendingIds
  MaxStops = 1
CHECK_DEADLOCK FALSE
SPECIFICATION FairSpec
INVARIANTS TypeOK AnnouncedComplete FailsOnlyIf SplitAsAsked
PROPERTIES PreparationAnswered StopEndsLoop
