SPECIFICATION Spec
CONSTANTS
  MaxDepth = 4
  MaxStack = 15
  MaxCalls = 8
  MaxCaptures = 4
  Images <- CalledImages
INVARIANT SameOutput
CHECK_DEADLOCK FALSE
