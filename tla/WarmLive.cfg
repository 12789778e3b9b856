SPECIFICATION FairSpec
CONSTANTS
  o1 = o1
  o2 = o2
  Ids <- OneId
  ServerIds <- OneId
  Capacity = 1
  OrderQtys = {2}
  MaxDue = 2
  MaxReseeds = 0
  MaxRestarts = 1
  MaxDays = 1
  MaxDrops = 1
  MaxMixes = 1
PROPERTIES Converges
CHECK_DEADLOCK FALSE
