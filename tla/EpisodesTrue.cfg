SPECIFICATION Spec
CONSTANTS
  m1 = m1
  m2 = m2
  Markets = {m1, m2}
  None = None
  Books <- FourBooks
  Eps = 20
  Window = 1
  TicksPerSecond = 2
  BootTicks = 2
  FlushLag = 1
  EpisodeBounds <- Bounds
  EdgeMin = 1
  Latencies = {0, 1, 3}
  TauGain = 1
  SettleIn = 4
  UnwindCosts = {100, 300}
  Clips = {6}
  Day = 4
  Peak = {1, 2}
  Holds = {1, 5}
  AddCap = 50
  Void = 20
CHECK_DEADLOCK FALSE
INVARIANTS LogSound EpisodesAreTrue ReplayIsReal AttributionIsSound
