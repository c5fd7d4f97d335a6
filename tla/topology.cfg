SPECIFICATION Spec
CONSTANTS
  Sizes <- MCSizes
  h1c = h1c
  h1s = h1s
  h2c = h2c
  h2s = h2s
  h3c = h3c
  h3s = h3s
INVARIANTS
  NotesWhatIsBuilt
  FailuresCutLinks
CHECK_DEADLOCK FALSE
