SPECIFICATION Spec
CONSTANTS
  Addr = {a1, a2, a3, a4}
  Num = num
  NULL = NULL
  Unset = unset
  NSlots = 2
  FirstCap = 1
  MaxCap = 2
  Captures = {0, 1}
  Programs <- Mixed
SYMMETRY Symmetry
INVARIANTS TypeOK Intact DescentSimple
PROPERTY ImplementsHeap
CHECK_DEADLOCK FALSE
