SPECIFICATION Spec
CONSTANTS
  LocalName = {l1}
  GlobalName = {g1}
  NoSym = NoSym
  Str = {s1}
  Lines <- MCLines
  NoInsn = NoInsn
  MaxLines = 4
  MaxCode = 3
  MaxStrings = 1
  MaxSymbols = 3
  MaxGlobals = 2
  MaxFiles = 2
  MaxTotal = 5
INVARIANTS TypeOK ObjectWellFormed LabelsLead Separate ImageFaithful OneDefinition
CHECK_DEADLOCK FALSE
