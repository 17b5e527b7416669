CONSTANTS
  Keys = {m1}
  Threads = {ui}
  Ui = ui
  Workers = {w1, w2}
  MaxRuns = 2
  MaxRequests = 2
  MaxRestarts = 1
SPECIFICATION ChatSpec
PROPERTIES
  RetryStartsAttempt
\* The process may stay shut down.
CHECK_DEADLOCK FALSE
