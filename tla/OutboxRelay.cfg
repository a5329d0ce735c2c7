\* Two replicas, three rows in batches of two, the last row never accepted.
CONSTANTS
  Replicas = {r1, r2}
  NumRows = 3
  Limit = 2
  Poison = {3}
  MaxFaults = 2
  DatabaseFails = TRUE
SPECIFICATION FairSpec
INVARIANTS ClaimsInv ResentOnlyAfterFault
PROPERTIES PromiseKept EventuallyPublished
