CONSTANTS
  LeafMaxCells = 3
  InvalidPage = 999
  PagerMaxPages = 100
  Keys = {0, 1, 2, 3, 4, 5, 6}
  Words = {999}
SPECIFICATION FreshKeys
PROPERTY InvalidChildIsReal
CHECK_DEADLOCK FALSE
