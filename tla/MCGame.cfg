SPECIFICATION FairSpec
CONSTANTS
  Target = 121
  Decks <- MCDecks
  Cuts <- MCCuts
  Starts <- MCStarts
  Throws <- MCThrows
INVARIANTS
  PlayNeverSticks
  OnlyTheWinnerIsAtTarget
  BeliefHoldsTheTruth
PROPERTIES
  SeriesPaysItsLastPlayer
  PoneCountsFirst
  GameEnds
