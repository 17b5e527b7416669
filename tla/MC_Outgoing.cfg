CONSTANTS
  Keys = {f}
  Threads = {ui, tcp}
  Ui = ui
  Tcp = tcp
  Workers = {w1, w2}
  MaxRuns = 3
  MaxPushes = 1
  MaxAnswers = 1
  MaxRestarts = 1
  Reasons = {"Cancelled"}
SPECIFICATION MCSpec
INVARIANTS
  TypeOK
  OneLiveRunPerKey
  RunningIffLive
  CompletionsInOrder
PROPERTIES
  CancelledNeverCompletes
  EveryQueuedRunEnds
  StreamIsSettled
CHECK_DEADLOCK FALSE
