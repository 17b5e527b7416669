CONSTANTS
  file = file
  alice = alice
  bob = bob
  Transfers = {file}
  Peers = {alice}
  PeerOf <- FromAlice
  Size = 2
  MaxConnections = 2
  MaxAccepts = 2
  MaxRestarts = 0
  AutoReceive = {TRUE}
  MaxFailures = 1
  Programs = {x1}
  CrashThreads = {w1, w2}
  MaxId = 2
  MaxRetained = 1
  Senders = {a1, u1}
  Cooldowns = {0, 2}
  Tolerance = 1
  MaxDelay = 1
  MaxEntries = 1
  MaxWaiting = 1
  MaxTime = 3
  Hashes = {i1, i2}
  MaxChoices = 2
  MaxStarts = 1
  MaxHeard = 2
  Folders = {p1, p2}
SPECIFICATION LocalSpec
INVARIANTS
  LocalTypeOK
  FilesMatchCounts
  AnswersAreKept
  AskedIsWhole
  PoliteShakeIsTaken
  ShownAvatarExists
  OffStaysOff
PROPERTIES
  FinalStateKept
\* The actions are bounded: the system stops when the bounds are used up.
CHECK_DEADLOCK FALSE
