SPECIFICATION Spec
CONSTANTS
  Fns = {f, g}
  Main = main
  Vals = {v1, v2}
  Nil = Nil
  MaxHandlers = 3
  MaxDepth = 7
  Exits = {}
CHECK_DEADLOCK FALSE
INVARIANTS TypeOK HandlersMatch NoEarlyOverflow
PROPERTY ImplementsStructured
