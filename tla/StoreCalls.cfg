\* Two calls at a time, over events that share transaction_ids and event_ids.
CONSTANTS
  a = a
  b = b
  c = c
  bad = bad
  Events = {a, b, c, bad}
  Malformed = {bad}
  TxOf <- TxOfValue
  IdOf <- IdOfValue
  When <- WhenValue
  Sessions = {s1, s2}
SPECIFICATION FairSpec
INVARIANTS AllOrNothing AcknowledgedIsAssessed RejectedForGood HistoryIsPast
PROPERTIES PromiseKept InsertReturns
