CONSTANTS
  Loads = {l1, l2}
  NoLoad = NoLoad
  ReleaseTask = ReleaseTask
  Answers = {"null", "dontRetry", "dontRetryFatal", "retry", "retryReset", "retryLater"}
  MaxErrors = 2
CHECK_DEADLOCK FALSE
SPECIFICATION FairSpec
INVARIANTS TypeOK CurrentIsUnderWay AnsweredOnce InterruptMeetsCancel
PROPERTIES ToldAfterLoad CancelAnswered
