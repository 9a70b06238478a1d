SPECIFICATION Spec
CONSTANTS
  Fns = {f, g}
  Main = main
  Vals = {v1, v2}
  Nil = Nil
  MaxHandlers = 3
  MaxDepth = 4
  Exits = {"return", "tailcall", "break", "continue"}
CHECK_DEADLOCK FALSE
PROPERTY CatchFollowsBody
