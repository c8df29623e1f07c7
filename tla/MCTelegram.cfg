SPECIFICATION FairSpec
CONSTANTS
  t1 = t1
  t2 = t2
  Transfers = {t1, t2}
  Names = {n1}
  MaxPartSize = 2
  MaxCached = 3
  RetryAttempts = 2
  Chunks = {2, 3}
  MaxWritten <- MCMaxWritten
CHECK_DEADLOCK FALSE
INVARIANTS TypeOK AcknowledgedIsWhole PartsAreWellFormed ReadbackIsInChat FailedLeavesNoSpool
PROPERTY ClosesEnd
