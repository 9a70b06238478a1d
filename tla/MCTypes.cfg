SPECIFICATION Spec
CONSTANTS
  Programs <- SoundPrograms
  Elements = {"num", "arr"}
  Rounds = 3
CHECK_DEADLOCK FALSE
INVARIANTS TypeOK NotesTrue
