CONSTANTS
  LeafMaxCells = 3
  InvalidPage = 999
  PagerMaxPages = 100
  Keys = {0, 1, 2, 3}
  Words = {200}
SPECIFICATION OneSession
INVARIANT ScanStartsLeftmost
CHECK_DEADLOCK FALSE
