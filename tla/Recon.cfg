SPECIFICATION Spec
CONSTANTS
  NA = NA
  None = None
  Eps = 50
  Step = 1
  Retained = 2
  MaxVersions = 3
  DrawLeagues = {"fwc"}
  VoidCost <- LeagueCost
  CliTail = 5
  Scenarios <- AllScenarios
  Books <- FiveBooks
  Lots = {1, 2}
  Maxima = {1, 2, 3, 4}
  MaxCrashes = 1
CHECK_DEADLOCK FALSE
INVARIANTS PairsAreContracts VerdictsHold ReportsAreRead DisagreementIsReal
PROPERTIES PositionsHold DayIsToldAndCounted RotationNeedsAFlip
