SPECIFICATION ContainersSpec
CONSTANTS
  None = None
  Items = {x, y}
  Capacity = 4
  Producers = {p1, p2}
  Consumers = {c1, c2}
  Loop = loop
  Owner = o1
  DequeThieves = {t1, t2}
  MaxPushes = 4
  FirstCapacity = 2
SYMMETRY ThiefSymmetry
INVARIANTS
  ContainersTypeOK
  NoSlotRace
  SlotsExact
  NoSleeperForgotten
  DrainerNeverSleeps
  PopAssertions
PROPERTIES
  QueuesImplemented
  ImplementsDeque
  EmptyPopIsTrue
