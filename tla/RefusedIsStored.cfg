CONSTANTS
  LeafMaxCells = 3
  InvalidPage = 999
  PagerMaxPages = 100
  Keys = {0, 1, 2, 3, 4, 5}
  Words = {200}
SPECIFICATION FreshKeys
INVARIANT RefusedIsStored
CHECK_DEADLOCK FALSE
