SPECIFICATION Spec
CONSTANTS
  None = None
  Eps = 20
  Tickers = {k1}
  Prices = {54}
  Takers = {"yes"}
  Ladders <- FewLadders
  FirstLadder <- Nothing
  TicksPerSecond = 2
  PollTicks = 2
  Slack = 1
  PageCap = 2
  Late = 1
  Schedules = {0, 1, 2}
  Scenarios <- PollAndRest
  PostCensor = 0
  MaxMidDiv = 20
  MaxGap = 2
  FloorC = 100
  Clip = 1
CHECK_DEADLOCK FALSE
INVARIANTS TradesInv MakerKeepsTheEdge FillsAgree
