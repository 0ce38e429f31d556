SPECIFICATION FairSpec
CONSTANTS
  a = a
  b = b
  c = c
  d = d
  e = e
  None = None
  Workers = 2
  Tasks = {a, b, c, d, e}
  Graphs <- RoundsOrCancel
  MaxAttempts = 0
INVARIANTS
  TypeOK
  CountExact
  NoLostWakeup
  RunAfterPredecessors
  RoundsComplete
  CancelledOnce
PROPERTIES
  ImplementsJobPool
  GraphCompletes
  WaitReturns
