CONSTANTS
  LeafMaxCells = 3
  InvalidPage = 999
  PagerMaxPages = 100
  Keys = {0, 1, 2, 3, 4, 5, 6, 7, 8, 9}
  Words = {2, 100}
SPECIFICATION Trees
INVARIANTS
  TypeOK
  TreeShape
  OneChain
  AllSorted
  SeparatorIsMax
  SearchFindsRow
  ScanIsComplete
  NoRunaway
  GarbageNeverDecides
PROPERTY ExitOnlyWhenFull
CHECK_DEADLOCK FALSE
