SPECIFICATION Spec
CONSTANTS
  s1 = s1
  s2 = s2
  c1 = c1
  Slugs = {s1, s2}
  Clusters = {c1}
  Cluster <- SameCluster
  Edges <- OneEdge
  Depths = {2}
  AddTauGain = 2
  MaxPositionsPerSlug = 1
  EnableScaleIn = FALSE
  EnableReentry = FALSE
  MaxEntries = 2
  MaxUnwinds = 1
  Quirks = {"panic", "rest", "misread", "lostSell", "death"}
  Dollar = 100
  EdgeFloor = 2
  MaxContracts = 2
  MaxPerPair = 200
  MaxPerCluster = 300
  MaxTotal = 2000
  MaxConcurrent = 5
  FatKnee = 6
  FatNum = 1
  FatDen = 2
SYMMETRY Alike
CHECK_DEADLOCK FALSE
INVARIANTS CapsHold RecoverySlotExclusive InFlightMarked ExposureAccounted EntryCoidFresh
