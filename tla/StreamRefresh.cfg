SPECIFICATION FairSpec
CONSTANTS
  s1 = s1
  s2 = s2
  t1 = t1
  t2 = t2
  Slugs = {s1}
  Tickers = {t1, t2}
  TickersOf <- TwoPairs
  Listed = {s1}
  EarlyLoss = FALSE
  MaxFaults = 1
  MaxEvents = 2
  MaxCycles = 3
  MaxEntries = 1
CHECK_DEADLOCK FALSE
INVARIANTS RefreshInv
PROPERTIES QuotesAgain QuotesRebuilt
