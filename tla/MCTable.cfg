SPECIFICATION TableSpec
CONSTANTS
  Target = 18
  ReplayTarget = 18
  DoubleSkunk = 11
  Skunk = 15
  MaxReloads = 1
  MaxFailures = 1
  Decks <- MCDecks
  Cuts <- MCCuts
  Starts <- MCNone
  Throws <- MCThrows
  Engines <- MCEngines
  ExactEV = "exact-ev"
  ExactValue <- MCExactValue
  EngineValue <- MCEngineValue
  PlayValue <- MCPlayValue
ACTION_CONSTRAINT FewMoves
CHECK_DEADLOCK FALSE
INVARIANTS
  RestoreIsLive
  StatsAccountForTheScore
  PageTellsTheGame
  AnalysisIsOfTheGame
  TableIsTheView
  NeverStranded
  FinalBoxIsTheResult
  HandsStaySecret
