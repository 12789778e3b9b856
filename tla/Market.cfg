SPECIFICATION Spec
CONSTANTS
  p1 = p1
  p2 = p2
  Pairs <- TwoPairs
  BookLevels = 2
  Step = 2
  SpreadBase = 3
  LevelGap = 1
  MaxDeviation = 2
  NewsDecay = 3
  Unit = 2
  Rates = {1, 3}
  Elapses = {1, 2}
  Jumps <- DownJump
  SpreadXs = {1, 4}
  FreezeMs = {1, 2}
  MaxCommands = 2
  CountMax = 20
  SeqMax = 9
  ByteMax = 3
  PriceMax = 40
  SizeMax = 1
  AnchorPrice = 15
  FirstSeqs = {0, 7}
SYMMETRY PairSymmetry
INVARIANTS MarketInv WireNeverCrossed WireLagsInNewsOnly BothWiresCarryTheBook
PROPERTY FreezeIsKept
