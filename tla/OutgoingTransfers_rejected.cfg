CONSTANTS
  Keys = {f}
  Threads = {ui, tcp}
  Ui = ui
  Tcp = tcp
  Workers = {w1}
  MaxRuns = 2
  MaxPushes = 0
  MaxAnswers = 1
  MaxRestarts = 0
  Reasons = {"Cancelled"}
SPECIFICATION SendSpec
PROPERTIES
  RejectionIsShown
\* The answers and the user's requests are bounded.
CHECK_DEADLOCK FALSE
