SPECIFICATION FairSpec
CONSTANTS
  Slugs = {s1, s2}
  None = None
  Statuses <- SevenStatuses
  Scheduled <- OnTime
  EventDay <- DayZero
  Window = 1
  MaxChanges = 2
  MaxEntries = 2
  MaxRequests = 2
INVARIANTS NeverNeedless
PROPERTIES AnnouncedUnwinds ProbeAgrees
