\* Two calls at a time; labels before, after and between two transactions.
CONSTANTS
  a = a
  b = b
  c = c
  bad = bad
  Transactions = {"t1", "t2"}
  Labels = {a, b, c, bad}
  TxOf <- TxOfValue
  IdOf <- IdOfValue
  Fraud = {a, c}
  Malformed = {bad}
  Versions = {"v1", "v2"}
  Sessions = {s1, s2}
SPECIFICATION Spec
SYMMETRY Symmetry
INVARIANTS AcknowledgedIsLabelled RejectedForGood MatrixAddsUp
PROPERTIES ReportsGrow
