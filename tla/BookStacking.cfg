SPECIFICATION FairSpec
CONSTANTS
  s1 = s1
  s2 = s2
  c1 = c1
  Slugs = {s1}
  Clusters = {c1}
  Cluster <- SameCluster
  Edges <- Rising
  Depths = {1}
  AddTauGain = 2
  MaxPositionsPerSlug = 2
  EnableScaleIn = TRUE
  EnableReentry = TRUE
  MaxEntries = 2
  MaxUnwinds = 2
  Quirks = {}
  Dollar = 100
  EdgeFloor = 2
  MaxContracts = 2
  MaxPerPair = 400
  MaxPerCluster = 500
  MaxTotal = 2000
  MaxConcurrent = 5
  FatKnee = 6
  FatNum = 1
  FatDen = 2
INVARIANTS StackOrdered BooksMatchVenues
PROPERTIES Resolves
