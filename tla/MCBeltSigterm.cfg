SPECIFICATION FairSigtermSpec
CONSTANTS
  BeltSize = 1
  TableCount = 2
  PremiumQueueSize = 1
  NormalColor = {"white"}
  PremiumColor = {"red"}
  Group = {g1}
  Person <- Single
  GroupOf <- SingleGroupOf
  TableOf <- MCTableOf
  Appetite <- TwoEach
  Orders <- OneEach
  Anyone = Anyone
  None = None
  g1 = g1
  g2 = g2
  p1 = p1
  p2 = p2
  p3 = p3
CHECK_DEADLOCK FALSE
INVARIANTS  PaidInFull NothingKept
PROPERTY FlaggedStops
