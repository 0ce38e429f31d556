SPECIFICATION FairSpec
CONSTANTS
  r1 = r1
  r2 = r2
  r3 = r3
  r4 = r4
  None = None
  Requests = {r1, r2, r3, r4}
  Roots = {r1, r2}
  Then <- PairsThen
  Responsive = {r1, r2, r3}
  MaxFailures = 1
  RaceOutcomes = {"running", "lost"}
INVARIANTS
  ClosedAfterLoop
  NoAbandonedTransfer
  IInv
PROPERTIES
  ImplementsService
  UsesPool
  ResponsiveAnswered
  DestructorReturns
