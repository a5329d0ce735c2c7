\* Two replicas, one partition that moves between them at any time.
CONSTANTS
  None = None
  Members = {m1, m2}
  NumPartitions = 1
  Workers = 1
  ChanCap = 1
  MaxOffset = 2
  Rebalancing = TRUE
SPECIFICATION Spec
SYMMETRY Symmetry
INVARIANTS NoRecordSkipped InOrder PipelineInv
PROPERTY PromiseKept
