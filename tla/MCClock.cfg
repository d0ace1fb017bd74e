SPECIFICATION FairSpec
CONSTANTS
  TicksPerSecond = 2
  Duration = 3
  Filter = 1
  Continues = 2
  StopTicks = 4
  Horizon = 32
INVARIANTS TypeOK ClosesInTime
PROPERTIES NeverEarly ClosesAtLast
