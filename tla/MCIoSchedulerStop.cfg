SPECIFICATION Spec
CONSTANTS
  None = None
  Coroutines = {c1, c2}
  Kinds = {"timer", "open", "watch"}
  MaxAwaits = 1
  Rooms = {2}
INVARIANT JobsWorkedOut
