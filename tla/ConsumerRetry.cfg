\* One replica, one record: does a goroutine give up?
CONSTANTS
  None = None
  Members = {m1}
  NumPartitions = 1
  Workers = 1
  ChanCap = 1
  MaxOffset = 1
  Rebalancing = FALSE
SPECIFICATION Spec
INVARIANT RetriedUntilStopped
