SPECIFICATION LiveSpec
CONSTANTS
  SendCap = 1
  MaxTyped = 3
  MaxLoops = 2
PROPERTIES
  SendReturns
CHECK_DEADLOCK FALSE
