\* One replica, two partitions on two goroutines, crashes and restarts.
CONSTANTS
  None = None
  Members = {m1}
  NumPartitions = 2
  Workers = 2
  ChanCap = 1
  MaxOffset = 2
  Rebalancing = FALSE
SPECIFICATION FairSpec
INVARIANTS JoinedBeforeReturn FailureReported AheadOfCommits
PROPERTIES CommitNeverRewinds StopTerminates EventuallySettled
