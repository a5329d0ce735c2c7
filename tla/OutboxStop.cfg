\* One replica, a healthy database, and a stop in the middle of a batch.
CONSTANTS
  Replicas = {r1}
  NumRows = 2
  Limit = 2
  Poison = {}
  MaxFaults = 1
  DatabaseFails = FALSE
SPECIFICATION Spec
PROPERTY FailureKeepsProgress
