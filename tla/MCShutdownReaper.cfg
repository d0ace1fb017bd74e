SPECIFICATION FairSpec
CONSTANTS
  g1 = g1
  g2 = g2
  Groups <- MCGroups
  SpeedSignals = 1
PROPERTIES ReaperExits
