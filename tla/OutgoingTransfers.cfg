CONSTANTS
  Keys = {f}
  Threads = {ui, tcp}
  Ui = ui
  Tcp = tcp
  Workers = {w1, w2}
  MaxRuns = 3
  MaxPushes = 1
  MaxAnswers = 2
  MaxRestarts = 1
  Reasons = {"Cancelled", "Failed"}
SPECIFICATION FairSendSpec
SYMMETRY WorkerSymmetry
INVARIANTS
  SendTypeOK
  CompletedWasSent
  CancelledIsNotSent
PROPERTIES
  FinalStateKept
\* The answers and the user's requests are bounded.
CHECK_DEADLOCK FALSE
