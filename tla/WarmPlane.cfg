SPECIFICATION Spec
CONSTANTS
  o1 = o1
  o2 = o2
  Ids <- TwoIds
  ServerIds <- NoIds
  Capacity = 1
  OrderQtys = {2}
  MaxDue = 1
  MaxReseeds = 1
  MaxRestarts = 1
  MaxDays = 1
  MaxDrops = 1
  MaxMixes = 0
SYMMETRY OrderSymmetry
INVARIANTS WarmInv OneDayTruly HolesAreLosses GridFollows
PROPERTIES LiveOrdersStay
CHECK_DEADLOCK FALSE
