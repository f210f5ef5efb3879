SPECIFICATION Spec
CONSTANTS
  None = None
  Markets <- Slugs
  Clusters = {"nyc", "g1", "x1", "b1"}
  ClusterOf <- City
  EventEnd <- Events
  Hour = 2
  Candidates <- Five
  MaxContracts = 2
  MaxPerPair = 19500
  MaxPerCluster = 19500
  MaxTotal = 29000
  MaxConcurrent = 2
  FatKnee = 600
  FatDivisor = 2
  Capital0 = 29500
  Adds <- TwoAdds
  Clip = 3
  Boundary = 50
  Void <- Voids
  Rank <- Names
  Tau = 150
  ClusterRoom = 20000
  CategoryCap <- CatCaps
  K0 = 16000
  P0 = 13000
  TauGain = 100
  MidCap = 40
  EconMidCap = 15
  EdgeFloor = 200
  SkipDearLed = TRUE
  Verified = {"sports", "econ"}
  Day = 4
  SettleOffset = 4
  ProxDays = 2
  MinRate = 50
  LockWeather = 5
  LockSports = 2
  LockEcon = 84
  LastArrival = 7
  MaxArrivals = 4
  Second = 2
  LockPassive <- Passive
  Floors = {0, 150, 300}
  Clips = {1, 2, 3}
  Haircuts = {100}
  RoomSweep = {9500, 20000}
CHECK_DEADLOCK FALSE
INVARIANTS CapsHold ExposureIsHeld RecyclingIsSound ReplaysAgree
PROPERTIES WalksAreBanks SizedAsTheBot
