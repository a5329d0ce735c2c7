\* Four calls on two goroutines; buckets up to 2, 5 and 9.
CONSTANTS
  Goroutines = {g1, g2}
  Intercept <- InterceptValue
  Weights <- WeightsValue
  Log1p <- Log1pValue
  Review <- ReviewValue
  Escalate <- EscalateValue
  Times <- TimesValue
  Histories <- HistoriesValue
  Bounds = {2, 5, 9}
  Durations = {2, 4, 7, 10}
  MaxCalls = 4
SPECIFICATION Spec
SYMMETRY Symmetry
INVARIANTS SpoiltIsRejected FraudStandsOut AnswersCounted PercentilesInBucket
CHECK_DEADLOCK FALSE
