CONSTANTS
  LeafMaxCells = 5
  InvalidPage = 999
  Nodes <- SmallNodes
  Keys = {0, 1, 2, 3, 5, 6, 7}
  MaxCells = 4
  Cells = {a, b}
  NewCell = a
SPECIFICATION NodeLoops
INVARIANTS
  Correct
  AllInOrder
PROPERTY Terminates
CHECK_DEADLOCK FALSE
