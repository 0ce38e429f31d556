SPECIFICATION CoroutinesSpec
CONSTANTS
  None = None
  Coroutines = {c1, c2}
  Kinds = {"timer", "open", "watch"}
  MaxAwaits = 2
  Rooms = {1, 2}
  Awaiting = {a1, a2, a3}
  MaxCalls = 3
  TaskObjects = {k1, k2}
  Plain = v1
INVARIANTS
  CoroutinesTypeOK
  PayloadAlive
  NoJobUnannounced
  PushBlocksOnlyCrowded
  NobodyForgotten
  FramesOwned
PROPERTIES
  AwaitEnds
  DestructorReturns
  ImplementsEvent
  SetResumes
  StoredIsCalled
  GetReturns
