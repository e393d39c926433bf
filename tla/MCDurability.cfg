SPECIFICATION Spec
CONSTANTS
  Games = {g1, g2}
  Handlers = {h1, h2}
  NoOne = NoOne
  Gone = Gone
  Final = 2
  Cap = 1
  Attempts = 2
  MaxCrashes = 1
  MaxFailedSaves = 1
  MaxFailedResults = 2
INVARIANTS
  AnsweredIsKept
  FinishedIsRecorded
  OnlyTheReaperForgets
  ResultIsTheGames
CHECK_DEADLOCK FALSE
CONSTRAINT OneMisfortune
SYMMETRY Symmetry
