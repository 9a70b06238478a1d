SPECIFICATION Spec
CONSTANTS
  Programs <- IgnoredFlow
  Elements = {"num", "cpx"}
  Rounds = 2
CHECK_DEADLOCK FALSE
INVARIANT NotesTrue
