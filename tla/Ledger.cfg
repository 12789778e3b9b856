SPECIFICATION Spec
CONSTANTS
  o1 = o1
  o2 = o2
  Orders <- MCOrders
  Pairs = {"EURUSD"}
  Quantities <- MCQuantities
  Prices = {1, 3}
  MaxTrades = 3
  MaxDrops = 1
  MaxDays = 2
  MaxBus = 2
SYMMETRY OrderSymmetry
INVARIANTS LedgerInv PageShowsTheMoney
CHECK_DEADLOCK FALSE
