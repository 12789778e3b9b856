SPECIFICATION Spec
CONSTANTS
  c1 = c1
  h1 = h1
  h2 = h2
  ClientIds = {c1}
  BurstRows = {2}
  MaxLiveOrders = 2
  MaxOrders = 3
  Conns <- MCConns
  Locked = TRUE
  MaxLives = 2
  MaxOrderQty = 2
  AskSides <- MCAskSides
  Typed <- MCTyped
  MaxDrops = 1
SYMMETRY ConnSymmetry
INVARIANTS DoorInv ClicksAreHonoured
PROPERTIES ServerIdsNeverReturn
CHECK_DEADLOCK FALSE
