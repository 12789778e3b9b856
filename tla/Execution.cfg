SPECIFICATION FairEngineSpec
CONSTANTS
  o1 = o1
  o2 = o2
  Ids <- MCIds
  MaxOrderQty = 3
  MaxPartials = 2
  EventGap = 1
  Quantities = {3, 4}
  Holds = {0, 1}
  SubmitUntil = 1
  MaxTime = 5
INVARIANTS EngineInv
PROPERTIES KeepsOrderLife EveryOrderEnds
