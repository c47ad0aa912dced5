CONSTANTS
  LeafMaxCells = 3
  InvalidPage = 999
  PagerMaxPages = 100
  Keys = {0, 1, 2, 3, 4, 5, 6, 7}
  Words = {0}
  IntMax = 7
  LongMax = 31
  UsernameSize = 2
  EmailSize = 3
  MaxLines = 14
  Lines <- AllLines
SPECIFICATION Prompt
INVARIANTS
  ReplTypeOK
  StatusTellsSaved
  CutShortIsATree
  StoredAsTyped
CHECK_DEADLOCK FALSE
