SPECIFICATION FairSpec
CONSTANTS
  q1 = q1
  q2 = q2
  NoQuote = NoQuote
  CloseCodes = {1000, 4000, 4001, 4002, 1006}
  EnvFrames = {}
  MaxAttempt = 1
  MaxGaps = 0
  NLevels = 2
  Quotes <- TwoQuotes
  UnbatchedMax = 1
  MaxUpdates = 2
  MaxSeq = 4
  MaxInFlight = 2
  MaxSkips = 1
  MaxFaults = 2

INVARIANTS HotInv ExactIsTold GapsAreSkips OneDriver StopsOnlyWhenTold
PROPERTIES MirrorsTheWire LossIsNoticed Recovers
