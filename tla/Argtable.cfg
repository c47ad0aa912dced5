CONSTANTS
  MaxLength = 9
  Tables <- MCTables
  NUL = NUL
  Size = 14
  Options <- MCOptions
  ARG_DSTR_SIZE = 1
  START_VSNBUFF = 2
  HalfBuffer = 2
  TooBig = 5
  Block = {b1, b2, b3}
  Piece <- MCPiece
  FormatSize = {0, 2}
  MaxText = 4
  MaxParagraph = 6
  lmargin = 2
  rmargin = 4
  Keys = {"k1", "k2", "k3"}
  Values = {"v1", "v2"}
  Hash <- SmallHash
  Primes <- SmallPrimes
  MaxMinSize = 1
  MaxEntries = 5
  MinSize = 1
  Nothing = "nothing"
SPECIFICATION PartsSpec
INVARIANTS
  TypeOK
  StaysInside
  Exchanged
  UsageTellsTheTable
  OptionTextIsWhole
  StringIsSound
  ParagraphIsWhole
  TableIsSound
PROPERTIES
  EveryLoopEnds
  ImplementsCommands
CHECK_DEADLOCK FALSE
