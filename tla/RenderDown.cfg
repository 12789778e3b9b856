SPECIFICATION FairSpec
CONSTANTS
  q1 = q1
  q2 = q2
  NLevels = 2
  Quotes <- MCQuotes
  NoQuote = NoQuote
  CloseCodes = {1006}
  EnvFrames <- MCFrames
  MaxAttempt = 1
  MaxGaps = 1
PROPERTY DownIsSaid
