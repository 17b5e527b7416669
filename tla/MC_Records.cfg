CONSTANTS
  p2 = p2
  a1 = a1
  a2 = a2
  Devices = {p1, p2}
  Addresses = {a1, a2}
  Upgraded = {p1}
  MaxStamp = 2
  MaxDeliveries = 2
  MaxMessages = 1
  StoredUnread = 1
  MaxCrashes = 1
  Peers = {p1}
  NewVersions = {1, 2}
  Requests = {u1, u2}
  Size = 1
  MaxChecks = 2
  Messages = {m1, m2, m3}
  PageSize = 1
  FaultKinds = {"crash", "error", "ok"}
  MaxFaults = 1
  MaxArrivals = 3
  MaxEntries = 2
  MaxFileSize = 3
  MaxEnds = 2
  MaxAnswers = 2
  MaxOdd = 2
SPECIFICATION Spec
SYMMETRY RequestSymmetry
INVARIANTS
  RecordsTypeOK
  ListedIsStored
  InstalledIsWhole
  DownloadIsShown
  HistoryKept
  OldestReachable
  CompletedFilesAreWhole
  CodecsAgree
PROPERTIES
  ResurrectedByNewer
\* Every component is bounded and stops when its bounds are used up.
CHECK_DEADLOCK FALSE
