SPECIFICATION Spec
CONSTANTS
  game = game
  bucket = bucket
  t1 = t1
  t2 = t2
  None = None
  Slugs = {game, bucket}
  Tickers = {t1, t2}
  Legs <- Shared
  Threshold = 2
  LateNotice = {"p", "k"}
  MaxChanges = 2
  MaxFaults = 1
INVARIANTS
  NeverForgotten
