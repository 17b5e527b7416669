CONSTANTS
  Keys = {m1, m2}
  Threads = {ui}
  Ui = ui
  Workers = {w1, w2}
  MaxRuns = 2
  MaxRequests = 2
  MaxRestarts = 1
  Identities = {i1, i2}
  Addresses = {a1}
  BurstCount = 2
  ManualCount = 1
  Interval = 2
  MaxChanges = 2
  MaxSendErrors = 2
  Links = {c1, c2}
  MaxFrames = 2
SPECIFICATION MCSpec
INVARIANTS
  ServicesTypeOK
  HistoryLineIsTrue
  HandledInOrder
  CutStreamIsNoticed
PROPERTIES
  SentIsFinal
  AcceptedSendIsSettled
  ImplementsAnnouncer
  IdentityIsAnnounced
  HelloIsAnswered
  StopReturns
  TransportGoesOn
\* The process may stay shut down, and the user's requests are bounded.
CHECK_DEADLOCK FALSE
