SPECIFICATION GridSpec
CONSTANTS
  o1 = o1
  o2 = o2
  Ids <- MCIds
  MaxQty = 2
  LeavesValues <- HonestLeaves
  Reports <- LawfulReports
  Capacity = 1
  MaxQueue = 2
INVARIANT GridIsTheBookLate
PROPERTIES FoldKeepsOrderLife
CHECK_DEADLOCK FALSE
