SPECIFICATION FairSpec
CONSTANTS
  Capacity = 1
  TotalChunks = 2
INVARIANTS TypeOK AnswersAreAwaited NoBucketAfterSuccess
PROPERTY Settles
CHECK_DEADLOCK FALSE
