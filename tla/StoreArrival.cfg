\* Two transactions that arrive against the order of their times.
CONSTANTS
  a = a
  b = b
  c = c
  bad = bad
  Events = {a, b, c, bad}
  Malformed = {bad}
  TxOf <- TxOfValue
  IdOf <- IdOfValue
  When <- WhenValue
  Sessions = {s1, s2}
SPECIFICATION Spec
INVARIANT ArrivalOrderIndependent
