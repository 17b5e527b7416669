CONSTANTS
  Messages = {m1, m2}
  PageSize = 1
  FaultKinds = {"crash"}
  MaxFaults = 1
  MaxArrivals = 2
SPECIFICATION HistSpec
INVARIANTS HistorySurvives
CHECK_DEADLOCK FALSE
