SPECIFICATION FairSpec
CONSTANTS
  a = a
  b = b
  c = c
  v = v
  None = None
  Group = {a, b, c, v}
  Vip = {v}
  Size <- MixedSizes
  TableCount = 2
  Capacity <- SmallHouse
  MaxTableSlots = 3
  MaxQueue = 2
  ClientQueueSize = 2
  ServiceQueueSize = 1
  FixedGroupCount = 4
INVARIANTS TypeOK OnePlaceEach AnswersAreTrue RoomToQueue SeatsAccounted NobodyBeforeTheGate NobodyWaitsInVain
PROPERTIES NoOvertaking ImplementsGuestList EverybodySeated
