CONSTANTS
  Calls <- MCCalls
  MaxErrors = 2
SPECIFICATION MainSpec
INVARIANTS
  ParserIsSound
  OptionsAsTyped
  OperandsLast
  NoErrorIsComplete
  EveryErrorIsTold
PROPERTY Terminates
CHECK_DEADLOCK FALSE
