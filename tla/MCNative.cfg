SPECIFICATION FairSpec
CONSTANTS
  MaxWords = 60
  MaxHandlers = 2
  Images <- NativeImages
INVARIANTS TypeOK SameOutput CodeBalanced CallsFit ReturnsHome SpFixed Aligned CleanExit
PROPERTY Ends
CHECK_DEADLOCK FALSE
