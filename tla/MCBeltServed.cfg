SPECIFICATION FairSpec
CONSTANTS
  BeltSize = 2
  TableCount = 2
  PremiumQueueSize = 2
  NormalColor = {"white"}
  PremiumColor = {"red"}
  Group = {g1, g2}
  Person <- Singles
  GroupOf <- SinglesGroupOf
  TableOf <- MCTableOf
  Appetite <- ThreeAndOne
  Orders <- TwoAndNone
  Anyone = Anyone
  None = None
  g1 = g1
  g2 = g2
  p1 = p1
  p2 = p2
  p3 = p3
PROPERTY EverybodyServed
