CONSTANTS
  MaxEntries = 2
  MaxFileSize = 2
  MaxEnds = 2
  MaxAnswers = 2
SPECIFICATION FoldSpec
INVARIANT CompletedFolderIsWhole
CHECK_DEADLOCK FALSE
