SPECIFICATION Spec
CONSTANTS
  Name = {x1, x2}
  MaxDepth = 3
  MaxScopes = 5
  MaxSymbols = 4
  MaxUpvals = 2
SYMMETRY Symmetry
VIEW Live
INVARIANTS TypeOK SlotsDistinct FrameCovers CapturesTrue
