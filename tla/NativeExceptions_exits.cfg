SPECIFICATION Spec
CONSTANTS
  Fns = {f, g}
  Main = main
  Vals = {v1}
  Nil = Nil
  MaxHandlers = 2
  MaxDepth = 5
  Exits = {"return", "tailcall", "break", "continue"}
CHECK_DEADLOCK FALSE
INVARIANT BodiesKeepHandlers
