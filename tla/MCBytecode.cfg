SPECIFICATION FairSpec
CONSTANTS
  MaxDepth = 4
  MaxStack = 15
  MaxCalls = 8
  MaxCaptures = 4
  Images <- AllImages
INVARIANTS TypeOK SameOutput CleanHalt HeightFixed CodeBalanced
PROPERTIES FrameIsolation Ends
CHECK_DEADLOCK FALSE
