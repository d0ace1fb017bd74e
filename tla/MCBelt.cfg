SPECIFICATION Spec
CONSTANTS
  BeltSize = 2
  TableCount = 2
  PremiumQueueSize = 1
  NormalColor = {"white"}
  PremiumColor = {"red"}
  Group = {g1, g2}
  Person <- CoupleAndSingle
  GroupOf <- CoupleAndSingleGroupOf
  TableOf <- MCTableOf
  Appetite <- TwoAndOne
  Orders <- NoneOrOne
  Anyone = Anyone
  None = None
  g1 = g1
  g2 = g2
  p1 = p1
  p2 = p2
  p3 = p3
INVARIANTS
  TypeOK
  MutualExclusion
  SlotsAccounted
  ChefFindsSlot
  BiteStillThere
  Conservation
  ItemsCoverDishes
  OrdersAccounted
  BillSettled
  BillsCoverReports
PROPERTIES PremiumReserved ImplementsLedger
