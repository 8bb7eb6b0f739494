SPECIFICATION LiveSpec
CONSTANTS
  SendCap = 2
  MaxTyped = 3
  MaxLoops = 2
INVARIANTS
  TypeOK SentInOrder MessagesAccounted GivenUpIsClosed
PROPERTIES
  ImplementsOutbox LossIsShown LossIsRetried
CHECK_DEADLOCK FALSE
