SPECIFICATION Spec
CONSTANTS
  Addr = {a1, a2, a3}
  Num = num
  NULL = NULL
  Unset = unset
  NSlots = 1
  FirstCap = 1
  MaxCap = 1
  Captures = {0, 1}
  Programs <- Closures
SYMMETRY Symmetry
INVARIANT NoUnsetRead
CHECK_DEADLOCK FALSE
