SPECIFICATION Spec
CONSTANTS
  a = a
  b = b
  c = c
  d = d
  e = e
  None = None
  Workers = 1
  Tasks = {a, b, c}
  Graphs <- CancelAgain
  MaxAttempts = 0
INVARIANT CancelHolds
