SPECIFICATION Spec
CONSTANTS
  r1 = r1
  r2 = r2
  r3 = r3
  r4 = r4
  None = None
  Requests = {r1, r2, r3}
  Roots = {r1, r2}
  Then <- MixedThen
  Responsive = {}
  MaxFailures = 0
  RaceOutcomes = {"running", "lost"}
INVARIANT MultiUsedByOneThread
