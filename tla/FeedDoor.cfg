SPECIFICATION Spec
CONSTANTS
  a = a
  b = b
  Pages <- TwoPages
  MaxClients = 2
  MaxVanish = 1
  MaxLives = 2
  MaxUptime = 1
  MaxBatch = 1
  SnapshotSize = 2
  MaxReseeds = 1
INVARIANTS FeedDoorInv RatesAreHonest
PROPERTIES PagesGetIn ShutdownEnds
CHECK_DEADLOCK FALSE
